------------------------------ MODULE Sessions ------------------------------
(***************************************************************************)
(* Signing in with Google, the users table, the session cookie and the     *)
(* gate before /api and /api/admin.                                        *)
(*                                                                         *)
(* The server keeps no session: who a browser is and whether it is an      *)
(* administrator is what the token said when it was issued, for TTL ticks. *)
(* A cookie changes when the answer that sets it arrives.                  *)
(***************************************************************************)
EXTENDS Naturals, FiniteSets

CONSTANTS
    Accounts,       \* Google accounts, by their sub claim
    EmailOf,        \* the address of an account; addresses are given again
    Hosted,         \* the accounts whose hd claim is the college's domain
    CollegeEmails,  \* the addresses with the college's suffix
    Seeded,         \* the accounts that are administrators from the start
    Browsers,
    Logins,         \* sign-in attempts, each with its random state
    Calls,          \* requests to the callback
    Nobody,
    TTL,            \* life of a token
    Slack,          \* how long an answer takes at most: an assumption
    Faults          \* what may fail: "google", "db", "net"

ASSUME AccountsAssumption == Hosted \subseteq Accounts /\ Seeded \subseteq Accounts
    /\ \A a, b \in Seeded : EmailOf[a] = EmailOf[b] => a = b
ASSUME NobodyAssumption == Nobody \notin Accounts \cup Browsers \cup Logins
ASSUME LivesAssumption == TTL \in Nat \ {0} /\ Slack \in Nat

VARIABLES
    role,       \* users.role, "none" for an account without a row
    status,     \* users.status
    lost,       \* history: ticks since the account was last an administrator
    since,      \* history: ticks since a banned account was last active
    jar,        \* the state cookie of a browser
    session,    \* the token in a browser's session cookie
    begun,      \* the browser a sign-in was begun in
    granted,    \* the account that consented at Google
    spent,      \* sign-ins whose code was exchanged: Google takes it once
    pc,         \* per callback: its next call, or the answer under way
    from,       \* per callback: the browser that sent it
    about,      \* per callback: the sign-in its code comes from
    seen,       \* per callback: the role the upsert returned
    age,        \* history: per callback, ticks since the upsert
    barred      \* history: per callback, banned ever since it arrived

users == <<role, status, lost, since>>
cookies == <<jar, session>>
google == <<begun, granted, spent>>
calls == <<pc, from, about, seen, age, barred>>
vars == <<users, cookies, google, calls>>

Horizon == TTL + Slack + 1
Later(n) == IF n < Horizon THEN n + 1 ELSE n

Claims == [account : Accounts \cup {Nobody}, role : {"none", "student", "admin"}, ttl : 0..TTL]
NoToken == [account |-> Nobody, role |-> "none", ttl |-> 0]

TypeOK ==
    /\ role \in [Accounts -> {"none", "student", "admin"}]
    /\ status \in [Accounts -> {"active", "banned"}]
    /\ lost \in [Accounts -> 0..Horizon]
    /\ since \in [Accounts -> 0..Horizon]
    /\ jar \in [Browsers -> Logins \cup {Nobody}]
    /\ session \in [Browsers -> Claims]
    /\ begun \in [Logins -> Browsers \cup {Nobody}]
    /\ granted \in [Logins -> Accounts \cup {Nobody}]
    /\ spent \subseteq Logins
    /\ pc \in [Calls -> {"idle", "verify", "upsert", "insert", "302", "403", "500", "502"}]
    /\ from \in [Calls -> Browsers \cup {Nobody}]
    /\ about \in [Calls -> Logins \cup {Nobody}]
    /\ seen \in [Calls -> {"none", "student", "admin"}]
    /\ age \in [Calls -> 0..Horizon]
    /\ barred \in [Calls -> BOOLEAN]

Init ==
    /\ role = [a \in Accounts |-> IF a \in Seeded THEN "admin" ELSE "none"]
    /\ status = [a \in Accounts |-> "active"]
    /\ lost = [a \in Accounts |-> 0]
    /\ since = [a \in Accounts |-> 0]
    /\ jar = [b \in Browsers |-> Nobody]
    /\ session = [b \in Browsers |-> NoToken]
    /\ begun = [l \in Logins |-> Nobody]
    /\ granted = [l \in Logins |-> Nobody]
    /\ spent = {}
    /\ pc = [c \in Calls |-> "idle"]
    /\ from = [c \in Calls |-> Nobody]
    /\ about = [c \in Calls |-> Nobody]
    /\ seen = [c \in Calls |-> "none"]
    /\ age = [c \in Calls |-> 0]
    /\ barred = [c \in Calls |-> FALSE]

-----------------------------------------------------------------------------
(* The browser and Google *)

\* A redirect to Google, with the state in a cookie that all tabs share.
Login(b, l) ==
    /\ begun[l] = Nobody
    /\ begun' = [begun EXCEPT ![l] = b]
    /\ jar' = [jar EXCEPT ![b] = l]
    /\ UNCHANGED <<users, session, granted, spent, calls>>

Consent(l, a) ==
    /\ begun[l] # Nobody /\ granted[l] = Nobody
    /\ granted' = [granted EXCEPT ![l] = a]
    /\ UNCHANGED <<users, cookies, begun, spent, calls>>

\* The state cookie lives five minutes.
JarExpires(b) ==
    /\ jar[b] # Nobody
    /\ jar' = [jar EXCEPT ![b] = Nobody]
    /\ UNCHANGED <<users, session, google, calls>>

-----------------------------------------------------------------------------
(* The callback *)

Goto(c, p) == pc' = [pc EXCEPT ![c] = p]

\* Slip: any state will do that was handed out.
StateMatchesSlip(b, s) == begun[s] # Nobody

StateMatches(b, s) == jar[b] = s

\* Any browser may ask for the callback, as often as it likes, with the state of
\* one sign-in and the code of another: nothing binds the two.  Without a code or
\* with another state than the cookie's the answer is 400, no cookie is set and
\* nothing changes.
Callback(c, b, s, l) ==
    /\ pc[c] = "idle" /\ granted[l] # Nobody
    /\ StateMatches(b, s)
    /\ Goto(c, "verify")
    /\ from' = [from EXCEPT ![c] = b]
    /\ about' = [about EXCEPT ![c] = l]
    /\ barred' = [barred EXCEPT ![c] = status[granted[l]] = "banned"]
    /\ UNCHANGED <<users, cookies, google, seen, age>>

\* Slip: the address alone decides.
ValidateCollegeIdentitySlip(a) == EmailOf[a] \in CollegeEmails

ValidateCollegeIdentity(a) == a \in Hosted /\ EmailOf[a] \in CollegeEmails

Verify(c) ==
    /\ pc[c] = "verify" /\ about[c] \notin spent
    /\ spent' = spent \cup {about[c]}
    /\ Goto(c, IF ValidateCollegeIdentity(granted[about[c]]) THEN "upsert" ELSE "403")
    /\ UNCHANGED <<users, cookies, begun, granted, from, about, seen, age, barred>>

VerifyFails(c) ==
    /\ pc[c] = "verify" /\ (about[c] \in spent \/ "google" \in Faults)
    /\ spent' \in {spent, spent \cup {about[c]}}
    /\ Goto(c, "502")
    /\ UNCHANGED <<users, cookies, begun, granted, from, about, seen, age, barred>>

\* Slip: an INSERT without ON CONFLICT.
OnConflictSlip(a) == FALSE

\* ON CONFLICT looks for the account's own row.
OnConflict(a) == role[a] # "none"

\* The statement takes two steps: a row may come between the look and the insert.
FindsNoRow(c) ==
    /\ pc[c] = "upsert" /\ ~OnConflict(granted[about[c]])
    /\ Goto(c, "insert")
    /\ UNCHANGED <<users, cookies, google, from, about, seen, age, barred>>

\* users.email is unique too, and ON CONFLICT (google_sub) does not look at it:
\* any row with the address refuses the insert, the account's own included.
EmailTaken(a) == \E b \in Accounts : role[b] # "none" /\ EmailOf[b] = EmailOf[a]

\* Slip: ON CONFLICT updates the role with the rest.
UpsertFromIdentitySlip(a) == role' = [role EXCEPT ![a] = "student"]

UpsertFromIdentity(a) == role' = [role EXCEPT ![a] = IF @ = "none" THEN "student" ELSE @]

\* The statement goes through: it updates the row it found, or inserts one.
Passes(c, a) == (pc[c] = "upsert" /\ OnConflict(a)) \/ (pc[c] = "insert" /\ ~EmailTaken(a))

\* Slip: the status the upsert returned is not looked at.
UpsertSlip(c) ==
    LET a == granted[about[c]] IN
    /\ Passes(c, a) /\ UpsertFromIdentity(a)
    /\ seen' = [seen EXCEPT ![c] = role'[a]]
    /\ age' = [age EXCEPT ![c] = 0]
    /\ Goto(c, "302")
    /\ UNCHANGED <<status, lost, since, cookies, google, from, about, barred>>

Upsert(c) ==
    LET a == granted[about[c]] IN
    /\ Passes(c, a) /\ UpsertFromIdentity(a)
    /\ seen' = [seen EXCEPT ![c] = role'[a]]
    /\ age' = [age EXCEPT ![c] = 0]
    /\ Goto(c, IF status[a] = "banned" THEN "403" ELSE "302")
    /\ UNCHANGED <<status, lost, since, cookies, google, from, about, barred>>

\* The insert is refused, or the statement reports an error whatever it did.
UpsertFails(c) ==
    LET a == granted[about[c]] IN
    /\ \/ pc[c] = "insert" /\ EmailTaken(a) /\ UNCHANGED role
       \/ pc[c] \in {"upsert", "insert"} /\ "db" \in Faults /\ UNCHANGED role
       \/ Passes(c, a) /\ "db" \in Faults /\ UpsertFromIdentity(a)
    /\ Goto(c, "500")
    /\ UNCHANGED <<status, lost, since, cookies, google, from, about, seen, age, barred>>

\* A request that is over leaves nothing behind in the server.
Over(c) ==
    /\ Goto(c, "idle")
    /\ from' = [from EXCEPT ![c] = Nobody]
    /\ about' = [about EXCEPT ![c] = Nobody]
    /\ seen' = [seen EXCEPT ![c] = "none"]
    /\ age' = [age EXCEPT ![c] = 0]
    /\ barred' = [barred EXCEPT ![c] = FALSE]

\* Whatever the answer, it deletes the state cookie, by name.  The token's life
\* is counted from here, though it was issued a moment before.
Reply(c) ==
    LET b == from[c] IN
    /\ pc[c] \in {"302", "403", "500", "502"}
    /\ jar' = [jar EXCEPT ![b] = Nobody]
    /\ session' = IF pc[c] = "302"
                  THEN [session EXCEPT ![b] =
                        [account |-> granted[about[c]], role |-> seen[c], ttl |-> TTL]]
                  ELSE session
    /\ Over(c)
    /\ UNCHANGED <<users, google>>

ReplyLost(c) ==
    /\ pc[c] \in {"302", "403", "500", "502"} /\ "net" \in Faults
    /\ Over(c)
    /\ UNCHANGED <<users, cookies, google>>

CallStep(c) ==
    \/ Verify(c) \/ VerifyFails(c)
    \/ FindsNoRow(c) \/ Upsert(c) \/ UpsertFails(c)
    \/ Reply(c) \/ ReplyLost(c)

-----------------------------------------------------------------------------
(* The gate, and what is behind it *)

\* Slip: the expiry is not checked.
VerifyTokenSlip(b) == session[b].account # Nobody

VerifyToken(b) == session[b].account # Nobody /\ session[b].ttl > 0

RequireAdmin(b) == VerifyToken(b) /\ session[b].role = "admin"

Ban(b, a) ==
    /\ RequireAdmin(b) /\ role[a] # "none"
    /\ status' = [status EXCEPT ![a] = "banned"]
    /\ since' = [since EXCEPT ![a] = IF status[a] = "banned" THEN @ ELSE 0]
    /\ UNCHANGED <<role, lost, cookies, google, calls>>

Unban(b, a) ==
    /\ RequireAdmin(b) /\ role[a] # "none"
    /\ status' = [status EXCEPT ![a] = "active"]
    /\ since' = [since EXCEPT ![a] = 0]
    /\ barred' = [c \in Calls |-> barred[c] /\ granted[about[c]] # a]
    /\ UNCHANGED <<role, lost, cookies, google, pc, from, about, seen, age>>

\* Roles change in the database only: no endpoint writes them.
Promote(a) ==
    /\ role[a] = "student"
    /\ role' = [role EXCEPT ![a] = "admin"]
    /\ UNCHANGED <<status, lost, since, cookies, google, calls>>

Demote(a) ==
    /\ role[a] = "admin"
    /\ role' = [role EXCEPT ![a] = "student"]
    /\ lost' = [lost EXCEPT ![a] = 0]
    /\ UNCHANGED <<status, since, cookies, google, calls>>

Tick ==
    /\ \A c \in Calls : pc[c] = "302" => age[c] < Slack
    /\ age' = [c \in Calls |-> IF pc[c] = "302" THEN Later(age[c]) ELSE age[c]]
    /\ session' = [b \in Browsers |->
                    [session[b] EXCEPT !.ttl = IF @ > 0 THEN @ - 1 ELSE 0]]
    /\ lost' = [a \in Accounts |-> IF role[a] = "admin" THEN 0 ELSE Later(lost[a])]
    /\ since' = [a \in Accounts |-> IF status[a] = "active" THEN 0 ELSE Later(since[a])]
    /\ UNCHANGED <<role, status, jar, google, pc, from, about, seen, barred>>

Next ==
    \/ \E b \in Browsers, l \in Logins : Login(b, l)
    \/ \E l \in Logins, a \in Accounts : Consent(l, a)
    \/ \E b \in Browsers : JarExpires(b)
    \/ \E c \in Calls, b \in Browsers, s \in Logins, l \in Logins : Callback(c, b, s, l)
    \/ \E c \in Calls : CallStep(c)
    \/ \E b \in Browsers, a \in Accounts : Ban(b, a) \/ Unban(b, a)
    \/ \E a \in Accounts : Promote(a) \/ Demote(a)
    \/ Tick

Spec == Init /\ [][Next]_vars

\* Time passes and callbacks run to their end.  Nobody has to sign in.
FairSpec == Spec /\ WF_vars(Tick) /\ \A c \in Calls : WF_vars(CallStep(c))

-----------------------------------------------------------------------------
\* Each session is the work of one consent: f says which.
Consents(f) ==
    LET signedIn == {b \in Browsers : session[b].account # Nobody} IN
    \A b \in signedIn :
        /\ f[b] \in spent /\ granted[f[b]] = session[b].account
        /\ \A d \in signedIn \ {b} : f[d] # f[b]

\* Whatever codes and states come together, a browser has a session only if it
\* began a sign-in, the account consented in one, and no two browsers have their
\* sessions from the same consent.
SessionsAreConsented ==
    /\ \A b \in Browsers : session[b].account # Nobody => \E s \in Logins : begun[s] = b
    /\ \E f \in [Browsers -> Logins \cup {Nobody}] : Consents(f)

\* A token names a user of the college, and the user has a row: /api/me never
\* finds its own caller missing.
SessionsAreUsers ==
    \A b \in Browsers : session[b].account # Nobody =>
        /\ session[b].account \in Hosted /\ EmailOf[session[b].account] \in CollegeEmails
        /\ role[session[b].account] # "none"

\* No session is under way for an account that was banned when its callback
\* arrived and has been ever since.
BanStopsLogin == \A c \in Calls : pc[c] = "302" => ~barred[c]

\* A token opens the admin routes to an account that is not an administrator
\* for less than TTL + Slack ticks after it stopped being one.
AdminTokensAge ==
    \A b \in Browsers : RequireAdmin(b) =>
        LET a == session[b].account IN role[a] = "admin" \/ lost[a] < TTL + Slack

\* A ban takes effect in every browser before TTL + Slack ticks have passed,
\* whatever sign-ins and bans it raced.
BannedOutInTime ==
    \A b \in Browsers : VerifyToken(b) =>
        LET a == session[b].account IN status[a] = "active" \/ since[a] < TTL + Slack

\* An account that stays banned is in the end signed in nowhere.
BannedEventuallyOut ==
    \A a \in Accounts :
        <>[](status[a] = "banned") =>
            <>[](\A b \in Browsers : VerifyToken(b) => session[b].account # a)

\* With nothing failing, a sign-in fails in the server only when another row has
\* the account's address, or when another sign-in of a new account made its row in
\* the meantime; and at Google only for a code presented again.
OnlyKnownRefusals ==
    \A c \in Calls :
        LET a == granted[about[c]] IN
        /\ pc[c] = "500" =>
            \/ role[a] = "none" /\ \E o \in Accounts \ {a} :
                                        role[o] # "none" /\ EmailOf[o] = EmailOf[a]
            \/ role[a] # "none" /\ a \notin Seeded
               /\ \E l \in spent \ {about[c]} : granted[l] = a
        /\ pc[c] = "502" => about[c] \in spent

\* The admin routes are open to administrators only.
AdminGateIsCurrent ==
    \A b \in Browsers : RequireAdmin(b) => role[session[b].account] = "admin"

-----------------------------------------------------------------------------
(* What signing in promises *)

\* A sign-in is used once Google took its code and the upsert is done.
used == {l \in spent : \A c \in Calls : pc[c] \in {"upsert", "insert"} => about[c] # l}

warrant ==
    [c \in Calls |->
        IF pc[c] = "302"
        THEN [at |-> from[c], account |-> granted[about[c]], role |-> seen[c], age |-> age[c]]
        ELSE [at |-> Nobody, account |-> Nobody, role |-> "none", age |-> 0]]

pass == [b \in Browsers |-> IF VerifyToken(b) THEN session[b] ELSE NoToken]

A == INSTANCE Admission WITH
        Members <- {a \in Accounts : ValidateCollegeIdentity(a)},
        banned <- {a \in Accounts : status[a] = "banned"}

\* A consent admits its account once, in one browser that began a sign-in, as what
\* the account was at one moment, for Slack ticks of delivery and TTL ticks of use;
\* no upsert, failure, replay or lost answer changes more than that.
ImplementsAdmission == A!AdmissionSpec

-----------------------------------------------------------------------------
(* The inductive invariant *)

\* A cookie, a consent and an exchanged code belong to a sign-in, and the code
\* that Google took leads to one answer, of one callback.
Admits == {c \in Calls : pc[c] \in {"upsert", "insert", "302"}}

LoginInv ==
    /\ \A b \in Browsers : jar[b] # Nobody => begun[jar[b]] = b
    /\ \A l \in spent : granted[l] # Nobody
    /\ \A c, d \in Admits : about[c] = about[d] => c = d

\* Each session has a consent that no callback under way has.
SourceInv ==
    \E f \in [Browsers -> Logins \cup {Nobody}] :
        /\ Consents(f)
        /\ \A b \in Browsers, c \in Admits : session[b].account # Nobody => about[c] # f[b]

\* What was true of the account when the role was read still is, up to the time
\* the answer may take.
CallInv(c) ==
    LET l == about[c]
        a == granted[l] IN
    /\ pc[c] # "idle" =>
        /\ l \in Logins /\ a # Nobody
        /\ from[c] \in Browsers /\ \E s \in Logins : begun[s] = from[c]
    /\ pc[c] # "idle" /\ barred[c] => status[a] = "banned"
    /\ c \in Admits => l \in spent /\ ValidateCollegeIdentity(a)
    /\ pc[c] = "302" =>
        /\ role[a] # "none" /\ ~barred[c] /\ age[c] <= Slack
        /\ seen[c] = "admin" => role[a] = "admin" \/ lost[a] <= age[c]
        /\ status[a] = "active" \/ since[a] <= age[c]

\* The longer an administrator has been none, or an account has been banned, the
\* less the token has to live.
TokenInv(b) ==
    LET a == session[b].account IN
    a # Nobody =>
        /\ \E s \in Logins : begun[s] = b
        /\ ValidateCollegeIdentity(a) /\ role[a] # "none"
        /\ session[b].role = "admin" /\ session[b].ttl > 0 =>
            role[a] = "admin" \/ lost[a] + session[b].ttl <= TTL + Slack
        /\ session[b].ttl > 0 =>
            status[a] = "active" \/ since[a] + session[b].ttl <= TTL + Slack

SessionInv ==
    /\ TypeOK
    /\ LoginInv
    /\ SourceInv
    /\ \A c \in Calls : CallInv(c)
    /\ \A b \in Browsers : TokenInv(b)

=============================================================================
