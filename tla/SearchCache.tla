----------------------------- MODULE SearchCache -----------------------------
(***************************************************************************)
(* GET /api/search: results come from Redis when the key of the query is   *)
(* there, else from Postgres, and are then cached for TTL.  Nothing        *)
(* invalidates an entry, so what a search shows trails what administrators *)
(* approve and delete.                                                     *)
(*                                                                         *)
(* Time is a Tick; an entry lives TTL ticks.  Nothing in the code bounds   *)
(* how long a request holds results before it caches and returns them:     *)
(* Slack is that bound, an assumption on the environment.                  *)
(***************************************************************************)
EXTENDS Ranking

CONSTANTS
    Asked,          \* the queries clients ask
    Readers,        \* connections that search, one request after another
    TTL,
    Slack,
    Faults          \* which of Postgres ("db") and Redis ("redis") may fail

ASSUME AskedAssumption == Asked \subseteq Query
ASSUME TimesAssumption == TTL \in Nat \ {0} /\ Slack \in Nat

VARIABLES
    status,         \* "pending", "approved", or how the row ended
    recent,         \* history: what was approved at the moments n ticks ago
    cache,          \* key -> entry
    pc,             \* per reader: the next call, or the answer
    query,          \* per reader: the query it asks
    results,        \* per reader: the results it fetched or answered
    age             \* history: per reader, ticks since it fetched what it has not cached yet

db == <<status, recent>>
request == <<pc, query, results, age>>
vars == <<db, cache, request>>

\* The oldest moment an answer may be of: results may be Slack ticks old when
\* they are cached, and an entry is gone at the TTL-th tick.
Lag == TTL + Slack - 1

Entry == [results : SUBSET Materials, ttl : 1..TTL, age : 0..Lag]

TypeOK ==
    /\ status \in [Materials -> {"pending", "approved", "withdrawn", "rejected"}]
    /\ recent \in [0..Lag -> SUBSET SUBSET Materials]
    /\ DOMAIN cache \subseteq Query
    /\ cache \in [DOMAIN cache -> Entry]
    /\ pc \in [Readers -> {"idle", "get", "fetch", "fill", "200", "500"}]
    /\ query \in [Readers -> Query]
    /\ results \in [Readers -> SUBSET Materials]
    /\ age \in [Readers -> 0..Slack]

Init ==
    /\ status = [m \in Materials |-> "pending"]
    /\ recent = [n \in 0..Lag |-> {{}}]
    /\ cache = [k \in {} |-> {}]
    /\ pc = [r \in Readers |-> "idle"]
    /\ query \in [Readers -> Asked]
    /\ results = [r \in Readers |-> {}]
    /\ age = [r \in Readers |-> 0]

-----------------------------------------------------------------------------
(* The materials table *)

\* Slip: without m.status = 'approved'.
ApprovedSlip == {m \in Materials : status[m] \in {"pending", "approved"}}

Approved == {m \in Materials : status[m] = "approved"}

Approve(m) ==
    /\ status[m] = "pending"
    /\ status' = [status EXCEPT ![m] = "approved"]
    /\ recent' = [recent EXCEPT ![0] = @ \cup {Approved'}]
    /\ UNCHANGED <<cache, request>>

Delete(m) ==
    /\ status[m] \in {"pending", "approved"}
    /\ status' = [status EXCEPT ![m] = IF @ = "approved" THEN "withdrawn" ELSE "rejected"]
    /\ recent' = [recent EXCEPT ![0] = @ \cup {Approved'}]
    /\ UNCHANGED <<cache, request>>

-----------------------------------------------------------------------------
(* The request *)

\* Slip: a key made of the text alone.
CacheKeySlip(q) == [text |-> q.text, course |-> Unset, type |-> Unset]

\* The hash of the whole query.
CacheKey(q) == q

Goto(r, p) == pc' = [pc EXCEPT ![r] = p]

Store(k, e) == cache' = [x \in DOMAIN cache \cup {k} |-> IF x = k THEN e ELSE cache[x]]

\* A course_id that does not parse is answered 400 without a call.
Ask(r) ==
    /\ pc[r] \in {"idle", "200", "500"}
    /\ \E q \in Asked : query' = [query EXCEPT ![r] = q]
    /\ Goto(r, "get")
    /\ results' = [results EXCEPT ![r] = {}]
    /\ UNCHANGED <<db, cache, age>>

\* Slip: results read are stored again, like fetched ones.
HitSlip(r) ==
    LET k == CacheKey(query[r]) IN
    /\ pc[r] = "get" /\ k \in DOMAIN cache
    /\ results' = [results EXCEPT ![r] = cache[k].results]
    /\ Store(k, [results |-> cache[k].results, ttl |-> TTL, age |-> 0])
    /\ Goto(r, "200")
    /\ UNCHANGED <<db, query, age>>

Hit(r) ==
    LET k == CacheKey(query[r]) IN
    /\ pc[r] = "get" /\ k \in DOMAIN cache
    /\ results' = [results EXCEPT ![r] = cache[k].results]
    /\ Goto(r, "200")
    /\ UNCHANGED <<db, cache, query, age>>

\* No entry, a value that does not parse, or no answer from Redis.
Miss(r) ==
    /\ pc[r] = "get"
    /\ CacheKey(query[r]) \notin DOMAIN cache \/ "redis" \in Faults
    /\ Goto(r, "fetch")
    /\ UNCHANGED <<db, cache, query, results, age>>

Fetch(r) ==
    /\ pc[r] = "fetch"
    /\ \E S \in Selections(query[r], Approved) : results' = [results EXCEPT ![r] = S]
    /\ Goto(r, "fill")
    /\ UNCHANGED <<db, cache, query, age>>

FetchFails(r) ==
    /\ pc[r] = "fetch" /\ "db" \in Faults
    /\ Goto(r, "500")
    /\ UNCHANGED <<db, cache, query, results, age>>

\* The outcome of the SET is not looked at.
Fill(r) ==
    /\ pc[r] = "fill"
    /\ \/ Store(CacheKey(query[r]), [results |-> results[r], ttl |-> TTL, age |-> age[r]])
       \/ "redis" \in Faults /\ UNCHANGED cache
    /\ Goto(r, "200")
    /\ age' = [age EXCEPT ![r] = 0]
    /\ UNCHANGED <<db, query, results>>

ReaderStep(r) == Hit(r) \/ Miss(r) \/ Fetch(r) \/ FetchFails(r) \/ Fill(r)

-----------------------------------------------------------------------------
(* Redis and time *)

Evict(k) ==
    /\ k \in DOMAIN cache /\ "redis" \in Faults
    /\ cache' = [x \in DOMAIN cache \ {k} |-> cache[x]]
    /\ UNCHANGED <<db, request>>

Tick ==
    /\ \A r \in Readers : pc[r] = "fill" => age[r] < Slack
    /\ recent' = [n \in 0..Lag |-> IF n = 0 THEN {Approved} ELSE recent[n - 1]]
    /\ cache' = [k \in {x \in DOMAIN cache : cache[x].ttl > 1} |->
                    [cache[k] EXCEPT !.ttl = @ - 1, !.age = @ + 1]]
    /\ age' = [r \in Readers |-> IF pc[r] = "fill" THEN age[r] + 1 ELSE age[r]]
    /\ UNCHANGED <<status, pc, query, results>>

Next ==
    \/ \E m \in Materials : Approve(m) \/ Delete(m)
    \/ \E r \in Readers : Ask(r) \/ ReaderStep(r)
    \/ \E k \in Query : Evict(k)
    \/ Tick

Spec == Init /\ [][Next]_vars

\* Time passes, and the calls of a request return or fail.  Nobody has to
\* search, approve or delete, and Redis need not evict.
FairSpec == Spec /\ WF_vars(Tick) /\ \A r \in Readers : WF_vars(ReaderStep(r))

-----------------------------------------------------------------------------
Answers(r) == pc[r] \in {"get", "fill"} /\ pc'[r] = "200"

\* A search shows only what its text, course and type ask for, also when the
\* results were cached by another request.
HonoursFilters ==
    \A r \in Readers : pc[r] = "200" => \A m \in results[r] : Matches(m, query[r])

\* A search never shows a material that no administrator approved.
NeverUnapproved ==
    \A r \in Readers :
        pc[r] = "200" => \A m \in results[r] : status[m] \in {"approved", "withdrawn"}

\* A material that was withdrawn more than Lag ticks ago is in no answer: not
\* by renewed entries, nor by results cached late.
WithdrawnSoonGone ==
    [][\A r \in Readers :
        Answers(r) => \A m \in results'[r] :
            \E n \in 0..Lag : \E A \in recent[n] : m \in A]_vars

\* When nothing was approved or deleted for Lag ticks, an answer is one that
\* Postgres would give now: nothing withdrawn is in it and nothing approved is
\* missing, although entries are never invalidated.
SettledIsCurrent ==
    [][\A r \in Readers :
        Answers(r) /\ (\A n \in 0..Lag : recent[n] = {Approved})
            => results'[r] \in Selections(query[r], Approved)]_vars

\* Once the last approval and deletion is over, the cache comes to hold only
\* results that Postgres would give, though clients never stop searching.
EventuallyFresh ==
    <>[](\A k \in DOMAIN cache : cache[k].results \in Selections(k, Approved))

\* What the cache gives a search is what is approved at that moment: no material
\* comes out of it that was withdrawn before.
WithdrawnAtOnce ==
    [][\A r \in Readers :
        Hit(r) => \A m \in results'[r] : status[m] = "approved"]_vars

-----------------------------------------------------------------------------
(* The index that search implements *)

Shelf ==
    [m \in Materials |-> CASE status[m] = "approved" -> "listed"
                           [] status[m] = "withdrawn" -> "withdrawn"
                           [] OTHER -> "hidden"]

Shown == [r \in Readers |-> IF pc[r] = "200" THEN <<query[r], results[r]>> ELSE <<>>]

Index == INSTANCE SearchIndex WITH shelf <- Shelf, shown <- Shown

\* Whatever the cache held and whoever filled it, each answer is the answer
\* to its query at one moment, at most Lag ticks ago: results are never mixed
\* from two moments, from two queries, or of a longer past.
ImplementsIndex == Index!IndexSpec

-----------------------------------------------------------------------------
(* The inductive invariant *)

\* S answers q as of some moment n ticks ago.
AsOf(q, S, n) == \E A \in recent[n] : S \in Selections(q, A)

CacheInv ==
    /\ TypeOK
    /\ Approved \in recent[0]
    /\ \A n \in 0..Lag : \A A \in recent[n] : \A m \in A :
            status[m] \in {"approved", "withdrawn"}
    /\ \A k \in DOMAIN cache :
        /\ AsOf(k, cache[k].results, cache[k].age)
        /\ cache[k].age + cache[k].ttl <= TTL + Slack
    /\ \A r \in Readers :
        /\ pc[r] # "fill" => age[r] = 0
        /\ pc[r] = "fill" => AsOf(query[r], results[r], age[r])
        /\ pc[r] = "200" => \A m \in results[r] :
                Matches(m, query[r]) /\ status[m] \in {"approved", "withdrawn"}

=============================================================================
