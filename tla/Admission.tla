------------------------------ MODULE Admission ------------------------------
(***************************************************************************)
(* What signing in promises, whatever answers are lost or late: a consent  *)
(* admits its account at most once, to one browser that a sign-in was      *)
(* begun in, this one or another, as a member who is not banned and in the *)
(* role it has at that single moment; a browser is let through for at most *)
(* Slack ticks of delivery and TTL ticks of use after it; and only who is  *)
(* let through as an administrator bans.                                   *)
(***************************************************************************)
EXTENDS Naturals

CONSTANTS Accounts, Members, Seeded, Browsers, Logins, Calls, Nobody, TTL, Slack

VARIABLES
    role,       \* "none" for an account without a row
    banned,
    begun,      \* per sign-in: its browser
    granted,    \* per sign-in: the account that consented
    used,       \* the sign-ins that were admitted or refused
    warrant,    \* per callback: the admission under way, and its age
    pass        \* per browser: who it is let through as, and for how long

usersVars == <<role, banned>>
loginVars == <<begun, granted, used>>
admissionVars == <<usersVars, loginVars, warrant, pass>>

NoWarrant == [at |-> Nobody, account |-> Nobody, role |-> "none", age |-> 0]
NoPass == [account |-> Nobody, role |-> "none", ttl |-> 0]

AdmissionInit ==
    /\ role = [a \in Accounts |-> IF a \in Seeded THEN "admin" ELSE "none"]
    /\ banned = {}
    /\ begun = [l \in Logins |-> Nobody]
    /\ granted = [l \in Logins |-> Nobody]
    /\ used = {}
    /\ warrant = [c \in Calls |-> NoWarrant]
    /\ pass = [b \in Browsers |-> NoPass]

Begin(b, l) ==
    /\ begun[l] = Nobody
    /\ begun' = [begun EXCEPT ![l] = b]
    /\ UNCHANGED <<usersVars, granted, used, warrant, pass>>

Agree(l, a) ==
    /\ begun[l] # Nobody /\ granted[l] = Nobody
    /\ granted' = [granted EXCEPT ![l] = a]
    /\ UNCHANGED <<usersVars, begun, used, warrant, pass>>

Use(l) ==
    /\ granted[l] # Nobody /\ l \notin used
    /\ used' = used \cup {l}
    /\ UNCHANGED <<banned, begun, granted, pass>>

Enrol(a) ==
    /\ a \in Members
    /\ role' = [role EXCEPT ![a] = IF @ = "none" THEN "student" ELSE @]

Admit(c, b, l) ==
    LET a == granted[l] IN
    /\ Use(l) /\ Enrol(a) /\ a \notin banned
    /\ \E s \in Logins : begun[s] = b
    /\ warrant[c] = NoWarrant
    /\ warrant' = [warrant EXCEPT ![c] =
                    [at |-> b, account |-> a, role |-> role'[a], age |-> 0]]

\* A refusal may leave a row behind, of a member only.
Refuse(l) ==
    /\ Use(l) /\ (Enrol(granted[l]) \/ UNCHANGED role)
    /\ UNCHANGED warrant

Deliver(c) ==
    LET w == warrant[c] IN
    /\ w.account # Nobody
    /\ pass' = [pass EXCEPT ![w.at] = [account |-> w.account, role |-> w.role, ttl |-> TTL]]
    /\ warrant' = [warrant EXCEPT ![c] = NoWarrant]
    /\ UNCHANGED <<usersVars, loginVars>>

Drop(c) ==
    /\ warrant' = [warrant EXCEPT ![c] = NoWarrant]
    /\ UNCHANGED <<usersVars, loginVars, pass>>

BanOrUnban(b, a) ==
    /\ pass[b].role = "admin" /\ role[a] # "none"
    /\ banned' \in {banned \cup {a}, banned \ {a}}
    /\ UNCHANGED <<role, loginVars, warrant, pass>>

PromoteOrDemote(a) ==
    /\ role[a] # "none"
    /\ \E r \in {"student", "admin"} : role' = [role EXCEPT ![a] = r]
    /\ UNCHANGED <<banned, loginVars, warrant, pass>>

NextTick ==
    /\ \A c \in Calls : warrant[c].account # Nobody => warrant[c].age < Slack
    /\ warrant' = [c \in Calls |-> IF warrant[c].account = Nobody THEN NoWarrant
                                   ELSE [warrant[c] EXCEPT !.age = @ + 1]]
    /\ pass' = [b \in Browsers |-> IF pass[b].ttl > 1 THEN [pass[b] EXCEPT !.ttl = @ - 1]
                                   ELSE NoPass]
    /\ UNCHANGED <<usersVars, loginVars>>

AdmissionNext ==
    \/ \E b \in Browsers, l \in Logins : Begin(b, l)
    \/ \E l \in Logins, a \in Accounts : Agree(l, a)
    \/ \E c \in Calls, b \in Browsers, l \in Logins : Admit(c, b, l)
    \/ \E l \in Logins : Refuse(l)
    \/ \E c \in Calls : Deliver(c) \/ Drop(c)
    \/ \E b \in Browsers, a \in Accounts : BanOrUnban(b, a)
    \/ \E a \in Accounts : PromoteOrDemote(a)
    \/ NextTick

AdmissionSpec == AdmissionInit /\ [][AdmissionNext]_admissionVars

=============================================================================
