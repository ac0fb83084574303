--------------------------- MODULE SessionsProofs ---------------------------
(***************************************************************************)
(* Proofs about Sessions for any accounts, browsers, sign-ins, callbacks,  *)
(* TTL and Slack, and any faults.                                          *)
(***************************************************************************)
EXTENDS Sessions, TLAPS

LEMMA HorizonNat == Horizon \in Nat /\ TTL \in Nat /\ TTL > 0 /\ Slack \in Nat /\ Slack < Horizon
BY LivesAssumption DEF Horizon

LEMMA LaterBounds ==
    ASSUME NEW n \in 0..Horizon
    PROVE  Later(n) \in 0..Horizon /\ Later(n) <= n + 1
BY HorizonNat DEF Later

LEMMA LaterMonotone ==
    ASSUME NEW n \in 0..Horizon, NEW k \in 0..Horizon, n <= k
    PROVE  Later(n) <= Later(k)
BY HorizonNat DEF Later

LEMMA InitInv == Init => SessionInv
<1> SUFFICES ASSUME Init
             PROVE  SessionInv
    OBVIOUS
<1>1. SourceInv
  <2> DEFINE f == [b \in Browsers |-> Nobody]
  <2>1. f \in [Browsers -> Logins \cup {Nobody}]
    OBVIOUS
  <2>2. \A b \in Browsers : session[b].account = Nobody
    BY DEF Init, NoToken
  <2> QED
    BY <2>1, <2>2 DEF SourceInv, Consents
<1>2. TypeOK /\ LoginInv /\ (\A c \in Calls : CallInv(c)) /\ \A b \in Browsers : TokenInv(b)
    BY HorizonNat DEF Init, TypeOK, LoginInv, Admits, CallInv, TokenInv, NoToken, Claims
<1> QED
    BY <1>1, <1>2 DEF SessionInv

\* A session keeps its consent as long as codes stay spent, consents stay given,
\* cookies stay as they are, and who comes to be admitted has a consent that was
\* not spent before.
LEMMA SourceKept ==
    ASSUME SessionInv, \A b \in Browsers : session'[b].account = session[b].account, spent \subseteq spent',
           \A l \in spent : granted'[l] = granted[l],
           \A c \in Admits' : about'[c] \notin spent \/ (c \in Admits /\ about'[c] = about[c])
    PROVE  SourceInv'
<1>1. PICK f \in [Browsers -> Logins \cup {Nobody}] :
        /\ Consents(f)
        /\ \A b \in Browsers, c \in Admits : session[b].account # Nobody => about[c] # f[b]
    BY DEF SessionInv, SourceInv
<1>2. Consents(f)'
    BY <1>1 DEF Consents
<1>3. \A b \in Browsers, c \in Admits' : session'[b].account # Nobody => about'[c] # f[b]
    BY <1>1 DEF Consents
<1> QED
    BY <1>1, <1>2, <1>3 DEF SourceInv

-----------------------------------------------------------------------------
(* The browser and Google *)

LEMMA LoginKeeps ==
    ASSUME SessionInv, NEW x \in Browsers, NEW l \in Logins, Login(x, l)
    PROVE  SessionInv'
<1> USE NobodyAssumption, HorizonNat DEF SessionInv, Login, users, calls
<1>1. TypeOK'
    BY DEF TypeOK
<1>2. LoginInv'
    BY DEF TypeOK, LoginInv, Admits
<1>3. ASSUME NEW c \in Calls
      PROVE  CallInv(c)'
    BY DEF TypeOK, LoginInv, Admits, CallInv
<1>4. ASSUME NEW b \in Browsers
      PROVE  TokenInv(b)'
    BY DEF TypeOK, TokenInv
<1>5. SourceInv'
    BY SourceKept DEF TypeOK, LoginInv, Admits, CallInv
<1> QED
    BY <1>1, <1>2, <1>3, <1>4, <1>5

LEMMA ConsentKeeps ==
    ASSUME SessionInv, NEW l \in Logins, NEW a \in Accounts, Consent(l, a)
    PROVE  SessionInv'
<1> USE NobodyAssumption, HorizonNat DEF SessionInv, Consent, users, cookies, calls
<1>1. TypeOK'
    BY DEF TypeOK
<1>2. LoginInv'
    BY DEF TypeOK, LoginInv, Admits
<1>3. ASSUME NEW c \in Calls
      PROVE  CallInv(c)'
    BY DEF TypeOK, LoginInv, Admits, CallInv
<1>4. ASSUME NEW b \in Browsers
      PROVE  TokenInv(b)'
    BY DEF TypeOK, TokenInv
<1>5. SourceInv'
    BY SourceKept DEF TypeOK, LoginInv, Admits, CallInv
<1> QED
    BY <1>1, <1>2, <1>3, <1>4, <1>5

LEMMA JarKeeps ==
    ASSUME SessionInv, NEW x \in Browsers, JarExpires(x)
    PROVE  SessionInv'
<1> USE NobodyAssumption, HorizonNat DEF SessionInv, JarExpires, users, google, calls
<1>1. TypeOK'
    BY DEF TypeOK
<1>2. LoginInv'
    BY DEF TypeOK, LoginInv, Admits
<1>3. ASSUME NEW c \in Calls
      PROVE  CallInv(c)'
    BY DEF TypeOK, LoginInv, Admits, CallInv
<1>4. ASSUME NEW b \in Browsers
      PROVE  TokenInv(b)'
    BY DEF TypeOK, TokenInv
<1>5. SourceInv'
    BY SourceKept DEF TypeOK, LoginInv, Admits, CallInv
<1> QED
    BY <1>1, <1>2, <1>3, <1>4, <1>5

-----------------------------------------------------------------------------
(* The callback *)

LEMMA CallbackKeeps ==
    ASSUME SessionInv, NEW d \in Calls, NEW x \in Browsers, NEW s \in Logins, NEW l \in Logins,
           Callback(d, x, s, l)
    PROVE  SessionInv'
<1> USE NobodyAssumption, HorizonNat DEF SessionInv, Callback, StateMatches, Goto, users, cookies, google
<1>1. TypeOK'
    BY DEF TypeOK
<1>2. LoginInv'
    BY DEF TypeOK, LoginInv, Admits
<1>3. ASSUME NEW c \in Calls
      PROVE  CallInv(c)'
  <2>1. CASE c = d
    <3>1. /\ pc'[d] = "verify" /\ from'[d] = x /\ about'[d] = l
          /\ begun[s] = x /\ granted[l] # Nobody
        BY DEF TypeOK, LoginInv, Admits
    <3>2. barred'[d] => status[granted[l]] = "banned"
        BY ZenonT(30) DEF TypeOK
    <3> QED
        BY <2>1, <3>1, <3>2 DEF Admits, CallInv
  <2>2. CASE c # d
    <3>1. /\ pc'[c] = pc[c] /\ from'[c] = from[c] /\ about'[c] = about[c]
        BY <2>2 DEF TypeOK
    <3>2. barred'[c] <=> barred[c]
        BY <2>2, ZenonT(30) DEF TypeOK
    <3> QED
        BY <2>2, <3>1, <3>2 DEF Admits, CallInv
  <2> QED
    BY <2>1, <2>2
<1>4. ASSUME NEW b \in Browsers
      PROVE  TokenInv(b)'
    BY DEF TypeOK, TokenInv
<1>5. SourceInv'
    BY SourceKept DEF TypeOK, LoginInv, Admits, CallInv
<1> QED
    BY <1>1, <1>2, <1>3, <1>4, <1>5

LEMMA VerifyKeeps ==
    ASSUME SessionInv, NEW d \in Calls, Verify(d)
    PROVE  SessionInv'
<1> USE NobodyAssumption, HorizonNat DEF SessionInv, Verify, Goto, users, cookies
<1>0. /\ about[d] \in Logins /\ from[d] \in Browsers
      /\ granted[about[d]] \in Accounts
    BY DEF TypeOK, Admits, CallInv
<1>1. TypeOK'
    BY <1>0 DEF TypeOK
<1>2. LoginInv'
  <2>1. \A c \in Admits : about[c] # about[d]
    BY DEF Admits, CallInv
  <2>2. \A c \in Admits' : c = d \/ c \in Admits
    BY DEF TypeOK, Admits
  <2> QED
    BY <1>0, <2>1, <2>2 DEF TypeOK, LoginInv, Admits
<1>3. ASSUME NEW c \in Calls
      PROVE  CallInv(c)'
    BY <1>0 DEF TypeOK, LoginInv, Admits, CallInv
<1>4. ASSUME NEW b \in Browsers
      PROVE  TokenInv(b)'
    BY <1>0 DEF TypeOK, TokenInv
<1>5. SourceInv'
    BY SourceKept DEF TypeOK, LoginInv, Admits, CallInv
<1> QED
    BY <1>1, <1>2, <1>3, <1>4, <1>5

LEMMA VerifyFailsKeeps ==
    ASSUME SessionInv, NEW d \in Calls, VerifyFails(d)
    PROVE  SessionInv'
<1> USE NobodyAssumption, HorizonNat DEF SessionInv, VerifyFails, Goto, users, cookies
<1>0. /\ about[d] \in Logins /\ from[d] \in Browsers
      /\ granted[about[d]] \in Accounts
    BY DEF TypeOK, Admits, CallInv
<1>1. TypeOK'
    BY <1>0 DEF TypeOK
<1>2. LoginInv'
    BY <1>0 DEF TypeOK, LoginInv, Admits
<1>3. ASSUME NEW c \in Calls
      PROVE  CallInv(c)'
    BY <1>0 DEF TypeOK, LoginInv, Admits, CallInv
<1>4. ASSUME NEW b \in Browsers
      PROVE  TokenInv(b)'
    BY <1>0 DEF TypeOK, TokenInv
<1>5. SourceInv'
    BY SourceKept DEF TypeOK, LoginInv, Admits, CallInv
<1> QED
    BY <1>1, <1>2, <1>3, <1>4, <1>5

LEMMA FindsNoRowKeeps ==
    ASSUME SessionInv, NEW d \in Calls, FindsNoRow(d)
    PROVE  SessionInv'
<1> USE NobodyAssumption, HorizonNat DEF SessionInv, FindsNoRow, Goto, users, cookies, google
<1>0. /\ about[d] \in Logins /\ from[d] \in Browsers
      /\ granted[about[d]] \in Accounts
    BY DEF TypeOK, Admits, CallInv
<1>1. TypeOK'
    BY <1>0 DEF TypeOK
<1>2. LoginInv'
    BY <1>0 DEF TypeOK, LoginInv, Admits
<1>3. ASSUME NEW c \in Calls
      PROVE  CallInv(c)'
    BY <1>0 DEF TypeOK, LoginInv, Admits, CallInv
<1>4. ASSUME NEW b \in Browsers
      PROVE  TokenInv(b)'
    BY <1>0 DEF TypeOK, TokenInv
<1>5. SourceInv'
    BY SourceKept DEF TypeOK, LoginInv, Admits, CallInv
<1> QED
    BY <1>1, <1>2, <1>3, <1>4, <1>5

LEMMA UpsertKeeps ==
    ASSUME SessionInv, NEW d \in Calls, Upsert(d)
    PROVE  SessionInv'
<1> USE NobodyAssumption, HorizonNat DEF SessionInv, Upsert, UpsertFromIdentity, Passes, Goto, cookies, google
<1>0. /\ about[d] \in Logins /\ from[d] \in Browsers
      /\ granted[about[d]] \in Accounts
    BY DEF TypeOK, Admits, CallInv
<1>1. TypeOK'
    BY <1>0 DEF TypeOK
<1>2. LoginInv'
    BY <1>0 DEF TypeOK, LoginInv, Admits
<1>3. ASSUME NEW c \in Calls
      PROVE  CallInv(c)'
  <2> DEFINE a == granted[about[d]]
  <2>1. /\ \A x \in Accounts : role[x] # "none" => role'[x] = role[x]
        /\ role'[a] # "none" /\ role[a] = "admin" <=> role'[a] = "admin"
        /\ seen'[d] = role'[a]
    BY <1>0 DEF TypeOK
  <2>2. CASE c = d
    <3>1. CallInv(d)
        OBVIOUS
    <3>2. age'[d] = 0 /\ (pc'[d] = "302" => status[a] # "banned") /\ pc'[d] \in {"302", "403"}
        BY <1>0 DEF TypeOK
    <3>3. CASE pc'[d] = "302"
      <4>1. ~barred[d]
          BY <3>1, <3>2, <3>3 DEF Admits, CallInv
      <4> QED
          BY <1>0, <2>1, <2>2, <3>1, <3>2, <4>1 DEF TypeOK, Admits, CallInv
    <3>4. CASE pc'[d] = "403"
        BY <1>0, <2>2, <3>1, <3>4 DEF TypeOK, Admits, CallInv
    <3> QED
        BY <3>2, <3>3, <3>4
  <2>3. CASE c # d
    <3>1. CallInv(c)
        OBVIOUS
    <3>2. pc[c] # "idle" => granted[about[c]] \in Accounts
        BY <3>1 DEF TypeOK, Admits, CallInv
    <3> QED
        BY <2>1, <2>3, <3>1, <3>2 DEF TypeOK, Admits, CallInv
  <2> QED
    BY <2>2, <2>3
<1>4. ASSUME NEW b \in Browsers
      PROVE  TokenInv(b)'
    BY <1>0 DEF TypeOK, TokenInv
<1>5. SourceInv'
    BY SourceKept DEF TypeOK, LoginInv, Admits, CallInv
<1> QED
    BY <1>1, <1>2, <1>3, <1>4, <1>5

LEMMA UpsertFailsKeeps ==
    ASSUME SessionInv, NEW d \in Calls, UpsertFails(d)
    PROVE  SessionInv'
<1> USE NobodyAssumption, HorizonNat DEF SessionInv, UpsertFails, UpsertFromIdentity, Passes, Goto, cookies, google
<1>0. /\ about[d] \in Logins /\ from[d] \in Browsers
      /\ granted[about[d]] \in Accounts
    BY DEF TypeOK, Admits, CallInv
<1>1. TypeOK'
    BY <1>0 DEF TypeOK
<1>2. LoginInv'
    BY <1>0 DEF TypeOK, LoginInv, Admits
<1>3. ASSUME NEW c \in Calls
      PROVE  CallInv(c)'
    BY <1>0 DEF TypeOK, LoginInv, Admits, CallInv
<1>4. ASSUME NEW b \in Browsers
      PROVE  TokenInv(b)'
  <2>1. \A x \in Accounts : role[x] # "none" => role'[x] = role[x]
    BY <1>0 DEF TypeOK
  <2>2. TokenInv(b) /\ session[b].account \in Accounts \cup {Nobody}
    BY DEF TypeOK, Claims
  <2> QED
    BY <2>1, <2>2 DEF TokenInv
<1>5. SourceInv'
  <2>1. \A c \in Admits' : c \in Admits
    BY DEF TypeOK, Admits
  <2> QED
    BY <2>1, SourceKept
<1> QED
    BY <1>1, <1>2, <1>3, <1>4, <1>5

LEMMA ReplyKeeps ==
    ASSUME SessionInv, NEW d \in Calls, Reply(d)
    PROVE  SessionInv'
<1> USE NobodyAssumption, HorizonNat DEF SessionInv, Reply, Over, Goto, users, google
<1>0. /\ about[d] \in Logins /\ from[d] \in Browsers
      /\ granted[about[d]] \in Accounts
    BY DEF TypeOK, Admits, CallInv
<1> DEFINE token == [account |-> granted[about[d]], role |-> seen[d], ttl |-> TTL]
<1>6. token \in Claims
    BY <1>0 DEF TypeOK, Claims
<1>1. TypeOK'
  <2>1. session' \in [Browsers -> Claims]
    BY <1>0, <1>6 DEF TypeOK
  <2> QED
    BY <1>0, <2>1 DEF TypeOK
<1>2. LoginInv'
    BY <1>0 DEF TypeOK, LoginInv, Admits
<1>3. ASSUME NEW c \in Calls
      PROVE  CallInv(c)'
    BY <1>0 DEF TypeOK, LoginInv, Admits, CallInv
<1>4. ASSUME NEW b \in Browsers
      PROVE  TokenInv(b)'
  <2>1. CASE pc[d] = "302" /\ b = from[d]
    <3>1. CallInv(d)
        OBVIOUS
    <3>2. session'[b] = token
        BY <1>0, <2>1 DEF TypeOK
    <3>3. age[d] \in Nat /\ lost[granted[about[d]]] \in Nat /\ since[granted[about[d]]] \in Nat
        BY <1>0 DEF TypeOK
    <3> QED
        BY <1>0, <2>1, <3>1, <3>2, <3>3 DEF Admits, CallInv, TokenInv
  <2>2. CASE session'[b] = session[b]
    BY <2>2 DEF TokenInv
  <2> QED
    BY <1>0, <2>1, <2>2 DEF TypeOK
<1>5. SourceInv'
  <2>1. \A c \in Admits' : c # d /\ c \in Admits /\ about'[c] = about[c]
    BY DEF TypeOK, Admits
  <2>2. CASE pc[d] = "302"
    <3>1. PICK f \in [Browsers -> Logins \cup {Nobody}] :
            /\ Consents(f)
            /\ \A b \in Browsers, c \in Admits : session[b].account # Nobody => about[c] # f[b]
        BY DEF SourceInv
    <3>2. PICK x \in Browsers, l \in Logins : x = from[d] /\ l = about[d]
        BY <1>0
    <3> DEFINE g == [f EXCEPT ![x] = l]
    <3>3. /\ session'[x].account = granted[l] /\ g[x] = l
          /\ \A b \in Browsers : b # x => session'[b] = session[b] /\ g[b] = f[b]
        BY <2>2, <3>2 DEF TypeOK
    <3>4. /\ l \in spent
          /\ \A b \in Browsers : session[b].account # Nobody => l # f[b]
          /\ \A c \in Admits' : about'[c] # l
        BY <2>1, <2>2, <3>1, <3>2 DEF Admits, CallInv, LoginInv
    <3>5. Consents(g)' /\ \A b \in Browsers, c \in Admits' :
                                session'[b].account # Nobody => about'[c] # g[b]
      <4> HIDE DEF g
      <4> QED
          BY <2>1, <3>1, <3>2, <3>3, <3>4 DEF Consents
    <3> QED
        BY <3>5 DEF SourceInv
  <2>3. CASE pc[d] # "302"
    BY <2>1, <2>3, SourceKept
  <2> QED
    BY <2>2, <2>3
<1> QED
    BY <1>1, <1>2, <1>3, <1>4, <1>5

LEMMA ReplyLostKeeps ==
    ASSUME SessionInv, NEW d \in Calls, ReplyLost(d)
    PROVE  SessionInv'
<1> USE NobodyAssumption, HorizonNat DEF SessionInv, ReplyLost, Over, Goto, users, cookies, google
<1>0. /\ about[d] \in Logins /\ from[d] \in Browsers
      /\ granted[about[d]] \in Accounts
    BY DEF TypeOK, Admits, CallInv
<1>1. TypeOK'
    BY <1>0 DEF TypeOK
<1>2. LoginInv'
    BY <1>0 DEF TypeOK, LoginInv, Admits
<1>3. ASSUME NEW c \in Calls
      PROVE  CallInv(c)'
    BY <1>0 DEF TypeOK, LoginInv, Admits, CallInv
<1>4. ASSUME NEW b \in Browsers
      PROVE  TokenInv(b)'
    BY <1>0 DEF TypeOK, TokenInv
<1>5. SourceInv'
    BY SourceKept DEF TypeOK, LoginInv, Admits, CallInv
<1> QED
    BY <1>1, <1>2, <1>3, <1>4, <1>5

-----------------------------------------------------------------------------
(* Behind the gate, and time *)

LEMMA BanKeeps ==
    ASSUME SessionInv, NEW x \in Browsers, NEW a \in Accounts, Ban(x, a)
    PROVE  SessionInv'
<1> USE NobodyAssumption, HorizonNat DEF SessionInv, Ban, cookies, google, calls
<1>1. TypeOK'
    BY DEF TypeOK
<1>2. LoginInv'
    BY DEF TypeOK, LoginInv, Admits
<1>3. ASSUME NEW c \in Calls
      PROVE  CallInv(c)'
  <2>1. CallInv(c) /\ age[c] \in Nat
    BY DEF TypeOK
  <2> QED
    BY <2>1 DEF TypeOK, Admits, CallInv
<1>4. ASSUME NEW b \in Browsers
      PROVE  TokenInv(b)'
  <2>1. TokenInv(b) /\ session[b].ttl \in 0..TTL /\ session[b].account \in Accounts \cup {Nobody}
    BY DEF TypeOK, Claims
  <2>2. CASE session[b].account = a /\ status[a] # "banned"
    <3>1. since'[a] + session[b].ttl <= TTL + Slack
        BY <2>1, <2>2 DEF TypeOK
    <3> QED
        BY <2>1, <2>2, <3>1 DEF TokenInv
  <2>3. CASE ~(session[b].account = a /\ status[a] # "banned")
    BY <2>1, <2>3 DEF TypeOK, TokenInv
  <2> QED
    BY <2>2, <2>3
<1>5. SourceInv'
    BY SourceKept DEF TypeOK, LoginInv, Admits, CallInv
<1> QED
    BY <1>1, <1>2, <1>3, <1>4, <1>5

LEMMA UnbanKeeps ==
    ASSUME SessionInv, NEW x \in Browsers, NEW a \in Accounts, Unban(x, a)
    PROVE  SessionInv'
<1> USE NobodyAssumption, HorizonNat DEF SessionInv, Unban, cookies, google, calls
<1>1. TypeOK'
    BY DEF TypeOK
<1>2. LoginInv'
    BY DEF TypeOK, LoginInv, Admits
<1>3. ASSUME NEW c \in Calls
      PROVE  CallInv(c)'
  <2>1. barred'[c] <=> barred[c] /\ granted[about[c]] # a
    BY Zenon
  <2>2. granted[about[c]] # a => status'[granted[about[c]]] = status[granted[about[c]]]
    BY DEF TypeOK
  <2>3. granted[about[c]] # a => since'[granted[about[c]]] = since[granted[about[c]]]
    BY DEF TypeOK
  <2>4. CallInv(c)
    OBVIOUS
  <2>5. granted[about[c]] = a /\ pc[c] # "idle" => status'[granted[about[c]]] = "active"
    BY DEF TypeOK
  <2> QED
    BY <2>1, <2>2, <2>3, <2>4, <2>5 DEF Admits, CallInv
<1>4. ASSUME NEW b \in Browsers
      PROVE  TokenInv(b)'
  <2>1. TokenInv(b) /\ session[b].account \in Accounts \cup {Nobody}
    BY DEF TypeOK, Claims
  <2> QED
    BY <2>1 DEF TypeOK, TokenInv
<1>5. SourceInv'
    BY SourceKept DEF TypeOK, LoginInv, Admits, CallInv
<1> QED
    BY <1>1, <1>2, <1>3, <1>4, <1>5

LEMMA RoleKeeps ==
    ASSUME SessionInv, NEW a \in Accounts, Promote(a) \/ Demote(a)
    PROVE  SessionInv'
<1> USE NobodyAssumption, HorizonNat DEF SessionInv, Promote, Demote, cookies, google, calls
<1>1. TypeOK'
    BY DEF TypeOK
<1>2. LoginInv'
    BY DEF TypeOK, LoginInv, Admits
<1>3. ASSUME NEW c \in Calls
      PROVE  CallInv(c)'
    BY DEF TypeOK, LoginInv, Admits, CallInv
<1>4. ASSUME NEW b \in Browsers
      PROVE  TokenInv(b)'
    BY DEF TypeOK, Claims, TokenInv
<1>5. SourceInv'
    BY SourceKept DEF TypeOK, LoginInv, Admits, CallInv
<1> QED
    BY <1>1, <1>2, <1>3, <1>4, <1>5

LEMMA TickKeeps ==
    ASSUME SessionInv, Tick
    PROVE  SessionInv'
<1> USE NobodyAssumption, HorizonNat DEF SessionInv, Tick, google
<1>1. TypeOK'
  <2>1. session' \in [Browsers -> Claims]
    <3> SUFFICES ASSUME NEW b \in Browsers
                 PROVE  [session[b] EXCEPT !.ttl = IF @ > 0 THEN @ - 1 ELSE 0] \in Claims
        OBVIOUS
    <3>1. session[b] \in Claims
        BY DEF TypeOK
    <3> QED
        BY <3>1 DEF Claims
  <2>2. /\ lost' \in [Accounts -> 0..Horizon] /\ since' \in [Accounts -> 0..Horizon]
        /\ age' \in [Calls -> 0..Horizon]
    BY LaterBounds DEF TypeOK
  <2> QED
    BY <2>1, <2>2 DEF TypeOK
<1>2. LoginInv'
    BY DEF TypeOK, LoginInv, Admits
<1>3. ASSUME NEW c \in Calls
      PROVE  CallInv(c)'
  <2> DEFINE a == granted[about[c]]
  <2>1. CallInv(c)
    OBVIOUS
  <2>2. CASE pc[c] = "302"
    <3>1. a \in Accounts /\ age[c] \in 0..Horizon /\ age[c] < Slack
        BY <2>1, <2>2 DEF TypeOK, Admits, CallInv
    <3>2. age'[c] = Later(age[c]) /\ Later(age[c]) <= Slack
        BY <2>2, <3>1, LaterBounds
    <3>3. role[a] # "admin" /\ lost[a] <= age[c] => lost'[a] <= age'[c]
        BY <3>1, <3>2, LaterMonotone DEF TypeOK
    <3>4. status[a] # "active" /\ since[a] <= age[c] => since'[a] <= age'[c]
        BY <3>1, <3>2, LaterMonotone DEF TypeOK
    <3> QED
        BY <2>1, <2>2, <3>2, <3>3, <3>4 DEF Admits, CallInv
  <2>3. CASE pc[c] # "302"
    BY <2>1, <2>3 DEF Admits, CallInv
  <2> QED
    BY <2>2, <2>3
<1>4. ASSUME NEW b \in Browsers
      PROVE  TokenInv(b)'
  <2> DEFINE a == session[b].account
             n == session[b].ttl
  <2>1. TokenInv(b) /\ n \in 0..TTL
    BY DEF TypeOK, Claims
  <2>2. /\ session'[b].account = a /\ session'[b].role = session[b].role
        /\ session'[b].ttl = IF n > 0 THEN n - 1 ELSE 0
    BY DEF TypeOK, Claims
  <2>3. CASE a # Nobody /\ n > 0
    <3>1. a \in Accounts /\ lost[a] \in 0..Horizon /\ since[a] \in 0..Horizon
        BY <2>3 DEF TypeOK, Claims
    <3>2. /\ Later(lost[a]) <= lost[a] + 1 /\ Later(lost[a]) \in 0..Horizon
          /\ Later(since[a]) <= since[a] + 1 /\ Later(since[a]) \in 0..Horizon
        BY <3>1, LaterBounds
    <3>3. role[a] # "admin" /\ lost[a] + n <= TTL + Slack => lost'[a] + (n - 1) <= TTL + Slack
        BY <2>1, <3>1, <3>2
    <3>4. status[a] # "active" /\ since[a] + n <= TTL + Slack =>
                since'[a] + (n - 1) <= TTL + Slack
        BY <2>1, <3>1, <3>2
    <3>5. role' = role /\ status' = status /\ spent' = spent /\ begun' = begun /\ granted' = granted
        OBVIOUS
    <3> QED
        BY <2>1, <2>2, <2>3, <3>3, <3>4, <3>5 DEF TokenInv
  <2>4. CASE a = Nobody \/ ~(n > 0)
    BY <2>1, <2>2, <2>4 DEF TokenInv
  <2> QED
    BY <2>3, <2>4
<1>5. SourceInv'
  <2>1. \A b \in Browsers : session'[b].account = session[b].account
    BY DEF TypeOK, Claims
  <2> QED
    BY <2>1, SourceKept DEF Admits
<1> QED
    BY <1>1, <1>2, <1>3, <1>4, <1>5

-----------------------------------------------------------------------------
(* Theorems *)

LEMMA SessionInvStep == SessionInv /\ [Next]_vars => SessionInv'
<1> SUFFICES ASSUME SessionInv, [Next]_vars
             PROVE  SessionInv'
    OBVIOUS
<1>1. CASE UNCHANGED vars
    BY <1>1 DEF vars, users, cookies, google, calls, SessionInv, TypeOK, LoginInv, SourceInv, Consents, Admits,
        CallInv, TokenInv
<1>2. ASSUME NEW d \in Calls, CallStep(d)
      PROVE  SessionInv'
    BY <1>2, VerifyKeeps, VerifyFailsKeeps, FindsNoRowKeeps, UpsertKeeps, UpsertFailsKeeps, ReplyKeeps,
       ReplyLostKeeps DEF CallStep
<1> QED
    BY <1>1, <1>2, LoginKeeps, ConsentKeeps, JarKeeps, CallbackKeeps, BanKeeps, UnbanKeeps,
       RoleKeeps, TickKeeps DEF Next

\* Every cookie, callback and token is accounted for by a sign-in and a row.
THEOREM SessionInvariant == Spec => []SessionInv
<1> QED
    BY InitInv, SessionInvStep, PTL DEF Spec

\* Whatever code comes with whatever state, a session is the work of one consent,
\* and no consent is the work of two.
THEOREM ConsentsOpenOneSession == Spec => []SessionsAreConsented
<1>1. SessionInv => SessionsAreConsented
    BY DEF SessionInv, SourceInv, TokenInv, SessionsAreConsented
<1> QED
    BY <1>1, SessionInvariant, PTL

\* Tokens name users of the college that have a row.
THEOREM TokensNameUsers == Spec => []SessionsAreUsers
<1>1. SessionInv => SessionsAreUsers
    BY DEF SessionInv, TokenInv, ValidateCollegeIdentity, SessionsAreUsers
<1> QED
    BY <1>1, SessionInvariant, PTL

\* A ban that precedes a callback keeps it from ending in a session.
THEOREM BansStopLogins == Spec => []BanStopsLogin
<1>1. SessionInv => BanStopsLogin
    BY DEF SessionInv, CallInv, BanStopsLogin
<1> QED
    BY <1>1, SessionInvariant, PTL

\* A former administrator is let through for less than TTL + Slack ticks.
THEOREM AdminTokensExpire == Spec => []AdminTokensAge
<1>1. SessionInv => AdminTokensAge
    BY HorizonNat DEF SessionInv, TypeOK, Claims, TokenInv, RequireAdmin, VerifyToken, AdminTokensAge
<1> QED
    BY <1>1, SessionInvariant, PTL

\* A banned account is signed in for less than TTL + Slack ticks.
THEOREM BansTakeEffect == Spec => []BannedOutInTime
<1>1. SessionInv => BannedOutInTime
    BY HorizonNat DEF SessionInv, TypeOK, Claims, TokenInv, VerifyToken, BannedOutInTime
<1> QED
    BY <1>1, SessionInvariant, PTL

-----------------------------------------------------------------------------
(* What signing in promises: every step is one of Admission's, or none *)

LEMMA AdmissionStarts == Init => A!AdmissionInit
BY DEF Init, A!AdmissionInit, A!NoWarrant, A!NoPass, used, warrant, pass, VerifyToken, NoToken

\* What the mapping depends on.
LEMMA MappingKept ==
    ASSUME UNCHANGED <<role, status, begun, granted, spent, pc, about, from, seen, age, session>>
    PROVE  UNCHANGED A!admissionVars
BY DEF A!admissionVars, A!usersVars, A!loginVars, used, warrant, pass, VerifyToken

LEMMA PassKept ==
    ASSUME UNCHANGED session
    PROVE  UNCHANGED pass
BY DEF pass, VerifyToken

LEMMA LoginImplements ==
    ASSUME SessionInv, NEW b \in Browsers, NEW l \in Logins, Login(b, l)
    PROVE  A!Begin(b, l)
BY PassKept DEF Login, users, calls, A!Begin, A!usersVars, used, warrant

LEMMA ConsentImplements ==
    ASSUME SessionInv, NEW l \in Logins, NEW a \in Accounts, Consent(l, a)
    PROVE  A!Agree(l, a)
<1>1. UNCHANGED warrant
  <2>1. \A c \in Calls : pc[c] = "302" => granted'[about[c]] = granted[about[c]]
    BY NobodyAssumption DEF Consent, SessionInv, TypeOK, CallInv
  <2> QED
    BY <2>1 DEF Consent, calls, warrant
<1> QED
    BY <1>1, PassKept DEF Consent, users, cookies, calls, A!Agree, A!usersVars, used

LEMMA CallbackImplements ==
    ASSUME SessionInv, NEW c \in Calls, NEW b \in Browsers, NEW s \in Logins, NEW l \in Logins,
           Callback(c, b, s, l)
    PROVE  UNCHANGED A!admissionVars
<1> USE DEF SessionInv, TypeOK, Callback, Goto, users, cookies, google
<1>1. UNCHANGED used
    BY DEF used
<1>2. UNCHANGED warrant
    BY DEF warrant
<1> QED
    BY <1>1, <1>2, PassKept DEF A!admissionVars, A!usersVars, A!loginVars

\* The sign-in of a callback that is under way.
LEMMA SignInUnderWay ==
    ASSUME SessionInv, NEW c \in Calls, pc[c] # "idle"
    PROVE  /\ about[c] \in Logins /\ granted[about[c]] \in Accounts /\ granted[about[c]] # Nobody
           /\ from[c] \in Browsers /\ \E s \in Logins : begun[s] = from[c]
BY DEF SessionInv, TypeOK, CallInv

Upserting == {"upsert", "insert"}

\* A sign-in is used up when its code is spent outside an upsert, or when its
\* upsert is done.
LEMMA UsesUp ==
    ASSUME SessionInv, NEW d \in Calls, NEW p, p \notin Upserting, Goto(d, p), UNCHANGED about,
           \/ pc[d] = "verify" /\ about[d] \notin spent /\ spent' = spent \cup {about[d]}
           \/ pc[d] \in Upserting /\ UNCHANGED spent
    PROVE  about[d] \notin used /\ used' = used \cup {about[d]}
<1> USE DEF SessionInv, Upserting
<1>1. \A c \in Calls : pc'[c] \in Upserting <=> c # d /\ pc[c] \in Upserting
    BY DEF TypeOK, Goto
<1>2. \A c \in Calls : c # d /\ pc[c] \in Upserting => about[c] # about[d]
    BY DEF CallInv, LoginInv, Admits
<1>3. about[d] \in spent'
    BY DEF CallInv, Admits
<1>4. about[d] \notin used
    BY DEF used
<1>5. \A l : l \in used' <=> l \in used \cup {about[d]}
  <2> SUFFICES ASSUME NEW l
               PROVE  l \in used' <=> l \in used \cup {about[d]}
    OBVIOUS
  <2>1. l \in used' <=> l \in spent' /\ \A c \in Calls : pc'[c] \in Upserting => about[c] # l
    BY DEF used
  <2>2. CASE l = about[d]
    BY <1>1, <1>2, <1>3, <2>1, <2>2
  <2>3. CASE l # about[d]
    BY <1>1, <2>1, <2>3 DEF used
  <2> QED
    BY <2>2, <2>3
<1> QED
    BY <1>4, <1>5

LEMMA VerifyImplements ==
    ASSUME SessionInv, NEW d \in Calls, Verify(d)
    PROVE  A!Refuse(about[d]) \/ UNCHANGED A!admissionVars
<1> USE DEF Verify, users, cookies
<1>1. UNCHANGED <<warrant, pass>>
  <2>1. UNCHANGED warrant
    BY DEF warrant, Goto, SessionInv, TypeOK
  <2> QED
    BY <2>1, PassKept
<1>2. CASE ValidateCollegeIdentity(granted[about[d]])
  <2>1. \A c \in Calls : pc'[c] \in Upserting <=> c = d \/ pc[c] \in Upserting
    BY <1>2 DEF SessionInv, TypeOK, Goto, Upserting
  <2>2. UNCHANGED used
    BY <2>1 DEF used, Upserting
  <2> QED
    BY <1>1, <2>2 DEF A!admissionVars, A!usersVars, A!loginVars
<1>3. CASE ~ValidateCollegeIdentity(granted[about[d]])
  <2>1. about[d] \notin used /\ used' = used \cup {about[d]}
    BY <1>3, UsesUp DEF Upserting
  <2> QED
    BY <1>1, <2>1, SignInUnderWay DEF A!Refuse, A!Use
<1> QED
    BY <1>2, <1>3

LEMMA VerifyFailsImplements ==
    ASSUME SessionInv, NEW d \in Calls, VerifyFails(d)
    PROVE  A!Refuse(about[d]) \/ UNCHANGED A!admissionVars
<1> USE DEF VerifyFails, users, cookies
<1>1. UNCHANGED <<warrant, pass>>
  <2>1. UNCHANGED warrant
    BY DEF warrant, Goto, SessionInv, TypeOK
  <2> QED
    BY <2>1, PassKept
<1>2. CASE UNCHANGED spent
  <2>1. \A c \in Calls : pc'[c] \in Upserting <=> pc[c] \in Upserting
    BY DEF SessionInv, TypeOK, Goto, Upserting
  <2>2. UNCHANGED used
    BY <1>2, <2>1 DEF used, Upserting
  <2> QED
    BY <1>1, <2>2 DEF A!admissionVars, A!usersVars, A!loginVars
<1>3. CASE about[d] \notin spent /\ spent' = spent \cup {about[d]}
  <2>1. about[d] \notin used /\ used' = used \cup {about[d]}
    BY <1>3, UsesUp DEF Upserting
  <2> QED
    BY <1>1, <2>1, SignInUnderWay DEF A!Refuse, A!Use
<1> QED
    BY <1>2, <1>3

LEMMA FindsNoRowImplements ==
    ASSUME SessionInv, NEW d \in Calls, FindsNoRow(d)
    PROVE  UNCHANGED A!admissionVars
<1> USE DEF FindsNoRow, users, cookies, google, Goto, SessionInv, TypeOK
<1>1. \A c \in Calls : pc'[c] \in Upserting <=> pc[c] \in Upserting
    BY DEF Upserting
<1>2. UNCHANGED used
    BY <1>1 DEF used, Upserting
<1>3. UNCHANGED warrant
    BY DEF warrant
<1> QED
    BY <1>2, <1>3, PassKept DEF A!admissionVars, A!usersVars, A!loginVars

LEMMA UpsertImplements ==
    ASSUME SessionInv, NEW d \in Calls, Upsert(d)
    PROVE  A!Admit(d, from[d], about[d]) \/ A!Refuse(about[d])
<1> DEFINE a == granted[about[d]]
<1> USE DEF Upsert, Passes, cookies, google
<1>1. /\ about[d] \notin used /\ used' = used \cup {about[d]}
      /\ UNCHANGED pass
    BY UsesUp, PassKept DEF Upserting
<1>2. A!Use(about[d])
    BY <1>1, SignInUnderWay DEF A!Use
<1>3. A!Enrol(a)
  <2>1. a \in Accounts /\ ValidateCollegeIdentity(a)
    BY SignInUnderWay DEF SessionInv, CallInv, Admits
  <2> QED
    BY <2>1 DEF UpsertFromIdentity, A!Enrol
<1>4. CASE status[a] = "banned"
  <2>1. UNCHANGED warrant
    BY <1>4 DEF warrant, Goto, SessionInv, TypeOK
  <2> QED
    BY <1>2, <1>3, <2>1 DEF A!Refuse
<1>5. CASE status[a] # "banned"
  <2>1. warrant[d] = A!NoWarrant
    BY DEF warrant, A!NoWarrant
  <2>2. warrant' = [warrant EXCEPT ![d] =
                        [at |-> from[d], account |-> a, role |-> role'[a], age |-> 0]]
    BY <1>5 DEF warrant, Goto, SessionInv, TypeOK
  <2> QED
    BY <1>2, <1>3, <1>5, <2>1, <2>2, SignInUnderWay DEF A!Admit
<1> QED
    BY <1>4, <1>5

LEMMA UpsertFailsImplements ==
    ASSUME SessionInv, NEW d \in Calls, UpsertFails(d)
    PROVE  A!Refuse(about[d])
<1> DEFINE a == granted[about[d]]
<1> USE DEF UpsertFails, Passes, cookies, google
<1>1. /\ about[d] \notin used /\ used' = used \cup {about[d]}
      /\ UNCHANGED pass
    BY UsesUp, PassKept DEF Upserting
<1>2. A!Use(about[d])
    BY <1>1, SignInUnderWay DEF A!Use
<1>3. A!Enrol(a) \/ UNCHANGED role
  <2>1. a \in Accounts /\ ValidateCollegeIdentity(a)
    BY SignInUnderWay DEF SessionInv, CallInv, Admits
  <2> QED
    BY <2>1 DEF UpsertFromIdentity, A!Enrol
<1>4. UNCHANGED warrant
    BY DEF warrant, Goto, SessionInv, TypeOK
<1> QED
    BY <1>2, <1>3, <1>4 DEF A!Refuse

\* An answer takes the warrant with it, if there was one, and leaves sign-ins be.
LEMMA AnswerTakesWarrant ==
    ASSUME SessionInv, NEW d \in Calls, pc[d] \in {"302", "403", "500", "502"}, Over(d),
           UNCHANGED google
    PROVE  UNCHANGED used /\ warrant' = [warrant EXCEPT ![d] = A!NoWarrant]
<1> USE DEF Over, Goto, google, SessionInv, TypeOK
<1>1. \A c \in Calls : pc'[c] \in Upserting <=> pc[c] \in Upserting
    BY DEF Upserting
<1>2. UNCHANGED used
  <2>1. \A c \in Calls : pc[c] \in Upserting => about'[c] = about[c]
    BY DEF Upserting
  <2> QED
    BY <1>1, <2>1 DEF used, Upserting
<1>3. warrant' = [warrant EXCEPT ![d] = A!NoWarrant]
    BY DEF warrant, A!NoWarrant
<1> QED
    BY <1>2, <1>3

LEMMA ReplyImplements ==
    ASSUME SessionInv, NEW d \in Calls, Reply(d)
    PROVE  A!Deliver(d) \/ A!Drop(d)
<1> USE DEF Reply, users
<1>1. UNCHANGED used /\ warrant' = [warrant EXCEPT ![d] = A!NoWarrant]
    BY AnswerTakesWarrant
<1>2. CASE pc[d] = "302"
  <2> DEFINE a == granted[about[d]]
             token == [account |-> a, role |-> seen[d], ttl |-> TTL]
  <2>1. from[d] \in Browsers /\ a # Nobody
    BY SignInUnderWay
  <2>2. warrant[d] = [at |-> from[d], account |-> a, role |-> seen[d], age |-> age[d]]
    BY <1>2 DEF warrant
  <2>3. pass' = [pass EXCEPT ![from[d]] = token]
    <3>1. session' = [session EXCEPT ![from[d]] = token]
        BY <1>2
    <3>2. session'[from[d]] = token /\ \A b \in Browsers : b # from[d] => session'[b] = session[b]
        BY <2>1, <3>1 DEF SessionInv, TypeOK
    <3>3. pass'[from[d]] = token
        BY <2>1, <3>2, HorizonNat DEF pass, VerifyToken
    <3>4. \A b \in Browsers : b # from[d] => pass'[b] = pass[b]
        BY <3>2 DEF pass, VerifyToken
    <3> QED
        BY <3>3, <3>4 DEF pass
  <2> QED
    BY <1>1, <2>1, <2>2, <2>3 DEF A!Deliver, A!usersVars, A!loginVars, google
<1>3. CASE pc[d] # "302"
    BY <1>1, <1>3, PassKept DEF A!Drop, A!usersVars, A!loginVars, google
<1> QED
    BY <1>2, <1>3

LEMMA ReplyLostImplements ==
    ASSUME SessionInv, NEW d \in Calls, ReplyLost(d)
    PROVE  A!Drop(d)
BY AnswerTakesWarrant, PassKept DEF ReplyLost, users, cookies, google, A!Drop, A!usersVars, A!loginVars

LEMMA BanImplements ==
    ASSUME SessionInv, NEW b \in Browsers, NEW a \in Accounts, Ban(b, a) \/ Unban(b, a)
    PROVE  A!BanOrUnban(b, a)
<1> DEFINE banned == {x \in Accounts : status[x] = "banned"}
<1> USE DEF Ban, Unban, cookies, google, calls
<1>1. UNCHANGED <<used, warrant, pass>>
    BY PassKept DEF used, warrant
<1>2. pass[b].role = "admin" /\ role[a] # "none"
    BY DEF RequireAdmin, pass
<1>3. banned' \in {banned \cup {a}, banned \ {a}}
  <2>1. CASE Ban(b, a)
    <3>1. \A x \in Accounts : status'[x] = "banned" <=> x = a \/ status[x] = "banned"
        BY <2>1 DEF SessionInv, TypeOK
    <3> QED
        BY <3>1
  <2>2. CASE Unban(b, a)
    <3>1. \A x \in Accounts : status'[x] = "banned" <=> x # a /\ status[x] = "banned"
        BY <2>2 DEF SessionInv, TypeOK
    <3> QED
        BY <3>1
  <2> QED
    BY <2>1, <2>2
<1> QED
    BY <1>1, <1>2, <1>3 DEF A!BanOrUnban, A!loginVars

LEMMA RoleImplements ==
    ASSUME SessionInv, NEW a \in Accounts, Promote(a) \/ Demote(a)
    PROVE  A!PromoteOrDemote(a)
<1> USE DEF Promote, Demote, cookies, google, calls
<1>1. UNCHANGED <<used, warrant, pass>>
    BY PassKept DEF used, warrant
<1> QED
    BY <1>1 DEF A!PromoteOrDemote, A!loginVars

LEMMA TickImplements ==
    ASSUME SessionInv, Tick
    PROVE  A!NextTick
<1> USE DEF Tick, google
<1>1. \A c \in Calls : pc[c] = "302" =>
            granted[about[c]] # Nobody /\ age[c] < Slack /\ age'[c] = age[c] + 1
  <2> SUFFICES ASSUME NEW c \in Calls, pc[c] = "302"
               PROVE  granted[about[c]] # Nobody /\ age[c] < Slack /\ age'[c] = age[c] + 1
    OBVIOUS
  <2> QED
    BY SignInUnderWay, HorizonNat DEF Later, SessionInv, TypeOK
<1>2. \A c \in Calls : warrant[c].account # Nobody => warrant[c].age < Slack
    BY <1>1 DEF warrant
<1>3. warrant' = [c \in Calls |-> IF warrant[c].account = Nobody THEN A!NoWarrant
                                  ELSE [warrant[c] EXCEPT !.age = @ + 1]]
  <2> SUFFICES ASSUME NEW c \in Calls
               PROVE  warrant'[c] = IF warrant[c].account = Nobody THEN A!NoWarrant
                                    ELSE [warrant[c] EXCEPT !.age = @ + 1]
    BY DEF warrant
  <2> QED
    BY <1>1 DEF warrant, A!NoWarrant
<1>4. pass' = [b \in Browsers |-> IF pass[b].ttl > 1 THEN [pass[b] EXCEPT !.ttl = @ - 1]
                                  ELSE A!NoPass]
  <2> SUFFICES ASSUME NEW b \in Browsers
               PROVE  pass'[b] = IF pass[b].ttl > 1 THEN [pass[b] EXCEPT !.ttl = @ - 1]
                                 ELSE A!NoPass
    BY DEF pass
  <2>1. session[b] \in Claims /\ session'[b] =
            [session[b] EXCEPT !.ttl = IF @ > 0 THEN @ - 1 ELSE 0]
    BY DEF SessionInv, TypeOK
  <2> QED
    BY <2>1, HorizonNat DEF pass, VerifyToken, NoToken, A!NoPass, Claims
<1>5. UNCHANGED used
    BY DEF used
<1> QED
    BY <1>2, <1>3, <1>4, <1>5 DEF A!NextTick, A!usersVars, A!loginVars

LEMMA CallImplements ==
    ASSUME SessionInv, NEW c \in Calls, CallStep(c)
    PROVE  A!AdmissionNext \/ UNCHANGED A!admissionVars
<1>1. CASE Verify(c) \/ VerifyFails(c) \/ FindsNoRow(c) \/ Upsert(c) \/ UpsertFails(c)
  <2>1. about[c] \in Logins
    BY <1>1, SignInUnderWay DEF Verify, VerifyFails, FindsNoRow, Upsert, UpsertFails, Passes
  <2> QED
    BY <1>1, <2>1, SignInUnderWay, VerifyImplements, VerifyFailsImplements, FindsNoRowImplements,
       UpsertImplements, UpsertFailsImplements DEF Verify, VerifyFails, Upsert, UpsertFails, Passes, A!AdmissionNext
<1>2. CASE Reply(c) \/ ReplyLost(c)
    BY <1>2, ReplyImplements, ReplyLostImplements DEF A!AdmissionNext
<1> QED
    BY <1>1, <1>2 DEF CallStep

LEMMA AdmissionStep == SessionInv /\ [Next]_vars => [A!AdmissionNext]_(A!admissionVars)
<1> SUFFICES ASSUME SessionInv, [Next]_vars
             PROVE  A!AdmissionNext \/ UNCHANGED A!admissionVars
    OBVIOUS
<1>1. CASE UNCHANGED vars
    BY <1>1, MappingKept DEF vars, users, cookies, google, calls
<1>2. ASSUME NEW b \in Browsers, JarExpires(b)
      PROVE  UNCHANGED A!admissionVars
    BY <1>2, MappingKept DEF JarExpires, users, google, calls
<1>3. ASSUME NEW b \in Browsers, NEW l \in Logins, Login(b, l)
      PROVE  A!AdmissionNext
    BY <1>3, LoginImplements DEF A!AdmissionNext
<1>4. ASSUME NEW l \in Logins, NEW a \in Accounts, Consent(l, a)
      PROVE  A!AdmissionNext
    BY <1>4, ConsentImplements DEF A!AdmissionNext
<1>5. ASSUME NEW b \in Browsers, NEW a \in Accounts, Ban(b, a) \/ Unban(b, a)
      PROVE  A!AdmissionNext
    BY <1>5, BanImplements DEF A!AdmissionNext
<1>6. ASSUME NEW a \in Accounts, Promote(a) \/ Demote(a)
      PROVE  A!AdmissionNext
    BY <1>6, RoleImplements DEF A!AdmissionNext
<1>7. CASE Tick
    BY <1>7, TickImplements DEF A!AdmissionNext
<1> QED
    BY <1>1, <1>2, <1>3, <1>4, <1>5, <1>6, <1>7, CallbackImplements, CallImplements DEF Next

\* A consent admits its account once, in one browser, as what it was at one moment,
\* whatever fails, is replayed or arrives late.
THEOREM SessionsImplementAdmission == Spec => ImplementsAdmission
BY AdmissionStarts, AdmissionStep, SessionInvariant, PTL
   DEF Spec, ImplementsAdmission, A!AdmissionSpec

-----------------------------------------------------------------------------
(* Refusals *)

\* A user keeps its row.
LEMMA RowsStay ==
    ASSUME SessionInv, [Next]_vars, NEW a \in Accounts
    PROVE  role[a] # "none" => role'[a] # "none"
<1> USE DEF SessionInv, TypeOK
<1>1. ASSUME NEW c \in Calls, CallStep(c)
      PROVE  role[a] # "none" => role'[a] # "none"
  <2>1. CASE UNCHANGED role
    BY <2>1
  <2>2. CASE UpsertFromIdentity(granted[about[c]])
    BY <2>2 DEF UpsertFromIdentity
  <2> QED
    BY <1>1, <2>1, <2>2 DEF CallStep, Verify, VerifyFails, FindsNoRow, Upsert, UpsertFails, Reply, ReplyLost,
        users
<1> QED
    BY <1>1 DEF Next, vars, users, Login, Consent, JarExpires, Callback, Ban, Unban, Promote,
        Demote, Tick

\* Who consented does not change, and a code stays spent.
LEMMA GrantsStay ==
    ASSUME SessionInv, [Next]_vars
    PROVE  /\ spent \subseteq spent'
           /\ \A l \in Logins : granted[l] # Nobody => granted'[l] = granted[l]
<1> USE DEF SessionInv, TypeOK
<1>1. ASSUME NEW l \in Logins, NEW a \in Accounts, Consent(l, a)
      PROVE  /\ spent \subseteq spent'
             /\ \A k \in Logins : granted[k] # Nobody => granted'[k] = granted[k]
    BY <1>1 DEF Consent
<1>2. ASSUME NEW c \in Calls, CallStep(c)
      PROVE  spent \subseteq spent' /\ UNCHANGED granted
    BY <1>2 DEF CallStep, Verify, VerifyFails, FindsNoRow, Upsert, UpsertFails, Reply, ReplyLost, google
<1> QED
    BY <1>1, <1>2 DEF Next, vars, google, Login, JarExpires, Callback, Ban, Unban, Promote,
        Demote, Tick

Taken(a) ==
    role[a] = "none" /\ \E o \in Accounts \ {a} : role[o] # "none" /\ EmailOf[o] = EmailOf[a]

\* A sign-in other than l made the row of a.
Outrun(a, l) ==
    role[a] # "none" /\ a \notin Seeded /\ \E k \in spent \ {l} : granted[k] = a

SeededInv == \A a \in Seeded : role[a] # "none"

Refusal(c) ==
    LET a == granted[about[c]] IN
    /\ pc[c] = "insert" => role[a] = "none" \/ Outrun(a, about[c])
    /\ pc[c] = "500" => Taken(a) \/ Outrun(a, about[c])
    /\ pc[c] = "502" => about[c] \in spent

\* A new row is the work of a sign-in whose insert no row stood in the way of.
LEMMA RowsAreInserted ==
    ASSUME Faults = {}, SessionInv, [Next]_vars, NEW a \in Accounts, role[a] = "none",
           role'[a] # "none"
    PROVE  \E d \in Calls : Upsert(d) /\ pc[d] = "insert" /\ granted[about[d]] = a /\ ~EmailTaken(a)
<1> USE DEF SessionInv, TypeOK
<1>1. ASSUME NEW d \in Calls, Upsert(d)
      PROVE  pc[d] = "insert" /\ granted[about[d]] = a /\ ~EmailTaken(a)
  <2>1. granted[about[d]] = a
    BY <1>1 DEF Upsert, UpsertFromIdentity
  <2> QED
    BY <1>1, <2>1 DEF Upsert, Passes, OnConflict
<1>2. ASSUME NEW b \in Accounts, Promote(b) \/ Demote(b)
      PROVE  FALSE
    BY <1>2 DEF Promote, Demote
<1>3. role' # role
    OBVIOUS
<1>4. ASSUME NEW d \in Calls, CallStep(d)
      PROVE  Upsert(d)
    BY <1>3, <1>4 DEF CallStep, Verify, VerifyFails, FindsNoRow, UpsertFails, Reply, ReplyLost, users
<1> QED
    BY <1>1, <1>2, <1>3, <1>4 DEF Next, vars, users, Login, Consent, JarExpires, Callback, Ban,
        Unban, Tick

\* Nobody takes an address that is taken: the statement is refused.
LEMMA TakenStays ==
    ASSUME Faults = {}, SessionInv, [Next]_vars, NEW a \in Accounts, Taken(a)
    PROVE  Taken(a)'
<1>1. PICK o \in Accounts \ {a} : role[o] # "none" /\ EmailOf[o] = EmailOf[a]
    BY DEF Taken
<1>2. role'[o] # "none"
    BY <1>1, RowsStay
<1>3. role[a] = "none" /\ EmailTaken(a)
    BY <1>1 DEF Taken, EmailTaken
<1>4. role'[a] = "none"
    BY <1>3, RowsAreInserted
<1> QED
    BY <1>1, <1>2, <1>4 DEF Taken

LEMMA OutrunStays ==
    ASSUME SessionInv, [Next]_vars, NEW a \in Accounts, NEW l \in Logins, Outrun(a, l)
    PROVE  Outrun(a, l)'
<1>1. PICK k \in spent \ {l} : granted[k] = a
    BY DEF Outrun
<1>2. k \in Logins /\ granted[k] # Nobody
    BY <1>1 DEF SessionInv, TypeOK, LoginInv
<1>3. k \in spent' \ {l} /\ granted'[k] = a
    BY <1>1, <1>2, GrantsStay
<1> QED
    BY <1>3, RowsStay DEF Outrun

\* An account at the insert is new, or another sign-in was faster.
LEMMA InsertingStays ==
    ASSUME Faults = {}, SessionInv, SeededInv, [Next]_vars, NEW c \in Calls,
           NEW l \in Logins, NEW a \in Accounts, about[c] = l, granted[l] = a,
           pc[c] = "insert", pc'[c] = "insert", role[a] = "none"
    PROVE  role'[a] = "none" \/ Outrun(a, l)'
<1> SUFFICES ASSUME role'[a] # "none"
             PROVE  Outrun(a, l)'
    OBVIOUS
<1>1. PICK d \in Calls : Upsert(d) /\ pc[d] = "insert" /\ granted[about[d]] = a
    BY RowsAreInserted
<1>2. d # c
    BY <1>1 DEF Upsert, Goto, SessionInv, TypeOK
<1>3. about[d] # l /\ about[d] \in spent
    BY <1>1, <1>2 DEF SessionInv, LoginInv, CallInv, Admits
<1>4. UNCHANGED <<spent, granted, about>>
    BY <1>1 DEF Upsert, google
<1>5. a \notin Seeded
    BY DEF SeededInv
<1> QED
    BY <1>1, <1>3, <1>4, <1>5 DEF Outrun

\* A callback that stays where it is, is refused for the same reason as before.
LEMMA RefusalStays ==
    ASSUME Faults = {}, SessionInv, SeededInv, [Next]_vars, NEW c \in Calls, Refusal(c),
           pc[c] # "idle", pc'[c] = pc[c], about'[c] = about[c]
    PROVE  Refusal(c)'
<1>1. PICK l \in Logins, a \in Accounts : about[c] = l /\ granted[l] = a /\ a # Nobody
    BY DEF SessionInv, TypeOK, CallInv
<1>2. granted'[l] = a /\ about'[c] = l /\ spent \subseteq spent'
    BY <1>1, GrantsStay
<1>3. Outrun(a, l) => Outrun(a, l)'
    BY OutrunStays
<1>4. CASE pc[c] = "insert"
  <2>1. role'[a] = "none" \/ Outrun(a, l)'
    BY <1>1, <1>3, <1>4, InsertingStays DEF Refusal
  <2> QED
    BY <1>2, <1>4, <2>1 DEF Refusal, Outrun
<1>5. CASE pc[c] = "500"
  <2>1. Taken(a)' \/ Outrun(a, l)'
    BY <1>1, <1>3, <1>5, TakenStays DEF Refusal
  <2> QED
    BY <1>2, <1>5, <2>1 DEF Refusal, Taken, Outrun
<1>6. CASE pc[c] \notin {"insert", "500"}
    BY <1>1, <1>2, <1>6 DEF Refusal
<1> QED
    BY <1>4, <1>5, <1>6

LEMMA RefusalKept ==
    ASSUME Faults = {}, SessionInv, SeededInv, [Next]_vars, NEW c \in Calls, Refusal(c)
    PROVE  Refusal(c)'
<1> DEFINE a == granted[about[c]]
<1>2. CASE pc'[c] = pc[c] /\ about'[c] = about[c]
  <2>1. CASE pc[c] = "idle"
    BY <1>2, <2>1 DEF Refusal
  <2> QED
    BY <1>2, <2>1, RefusalStays
<1>3. CASE UpsertFails(c)
  <2>1. /\ pc[c] = "insert" /\ pc'[c] = "500" /\ EmailTaken(a)
        /\ UNCHANGED <<role, granted, about, spent>>
    BY <1>3 DEF UpsertFails, Goto, google, SessionInv, TypeOK
  <2> QED
    BY <2>1 DEF Refusal, EmailTaken, Taken, Outrun
<1>4. CASE FindsNoRow(c)
  <2>1. pc'[c] = "insert" /\ role[a] = "none" /\ UNCHANGED <<role, granted, about>>
    BY <1>4 DEF FindsNoRow, OnConflict, Goto, google, users, SessionInv, TypeOK
  <2> QED
    BY <2>1 DEF Refusal
<1>5. CASE VerifyFails(c)
    BY <1>5 DEF VerifyFails, Goto, Refusal, SessionInv, TypeOK
<1>6. CASE pc'[c] \notin {"insert", "500", "502"}
    BY <1>6 DEF Refusal
<1> USE DEF SessionInv, TypeOK
<1>7. ASSUME NEW d \in Calls, CallStep(d)
      PROVE  Refusal(c)'
  <2>1. CASE d # c
    BY <1>2, <1>7, <2>1 DEF CallStep, Verify, VerifyFails, FindsNoRow, Upsert, UpsertFails, Reply,
        ReplyLost, Over, Goto
  <2>2. CASE d = c
    BY <1>3, <1>4, <1>5, <1>6, <1>7, <2>2 DEF CallStep, Verify, Upsert, Reply, ReplyLost, Over, Goto
  <2> QED
    BY <2>1, <2>2
<1>8. ASSUME NEW d \in Calls, NEW b \in Browsers, NEW s \in Logins, NEW l \in Logins,
             Callback(d, b, s, l)
      PROVE  Refusal(c)'
  <2>1. CASE d # c
    BY <1>2, <1>8, <2>1 DEF Callback, Goto
  <2>2. CASE d = c
    BY <1>6, <1>8, <2>2 DEF Callback, Goto
  <2> QED
    BY <2>1, <2>2
<1>9. CASE UNCHANGED <<pc, about>>
    BY <1>2, <1>9
<1> QED
    BY <1>7, <1>8, <1>9 DEF Next, vars, calls, Login, Consent, JarExpires, Ban, Unban, Promote,
        Demote, Tick

\* While nothing fails, a sign-in that is not turned away for its domain or a
\* ban is refused only for an address that another row has, for a row that another
\* sign-in of the same new account made meanwhile, or for a code presented twice.
THEOREM RefusalsKnown ==
    ASSUME Faults = {}
    PROVE  Spec => []OnlyKnownRefusals
<1> DEFINE Refusals == SeededInv /\ \A c \in Calls : Refusal(c)
<1>1. Init => Refusals
    BY AccountsAssumption DEF Init, SeededInv, Refusal
<1>2. SessionInv /\ Refusals /\ [Next]_vars => Refusals'
  <2>1. SessionInv /\ SeededInv /\ [Next]_vars => SeededInv'
    BY AccountsAssumption, RowsStay DEF SeededInv
  <2> QED
    BY <2>1, RefusalKept
<1>3. Refusals => OnlyKnownRefusals
    BY DEF Refusal, Taken, Outrun, OnlyKnownRefusals
<1> QED
    BY <1>1, <1>2, <1>3, SessionInvariant, PTL DEF Spec

=============================================================================
