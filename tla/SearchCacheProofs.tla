-------------------------- MODULE SearchCacheProofs --------------------------
(***************************************************************************)
(* SearchCache for any materials, queries, readers, TTL, Slack and result  *)
(* cap: its invariant, what follows for answers, and that it implements    *)
(* SearchIndex.                                                            *)
(***************************************************************************)
EXTENDS SearchCache, TLAPS

-----------------------------------------------------------------------------
(* Operators *)

\* Results are materials of the set they are selected from, and match.
LEMMA SelectionsAreHits ==
    ASSUME NEW q, NEW A, NEW S \in Selections(q, A)
    PROVE  S \subseteq A /\ \A m \in S : Matches(m, q)
BY DEF Selections, Hits

LEMMA LagNat ==
    /\ Lag \in Nat /\ TTL \in Nat /\ TTL > 0 /\ Slack \in Nat
    /\ Slack <= Lag /\ Lag + 1 = TTL + Slack
BY TimesAssumption DEF Lag

-----------------------------------------------------------------------------
(* The parts of CacheInv *)

TableInv ==
    /\ status \in [Materials -> {"pending", "approved", "withdrawn", "rejected"}]
    /\ recent \in [0..Lag -> SUBSET SUBSET Materials]
    /\ Approved \in recent[0]
    /\ \A n \in 0..Lag : \A A \in recent[n] : \A m \in A :
            status[m] \in {"approved", "withdrawn"}

EntryInv(k, e) ==
    /\ e \in Entry
    /\ AsOf(k, e.results, e.age)
    /\ e.age + e.ttl <= TTL + Slack

EntriesInv ==
    /\ DOMAIN cache \subseteq Query
    /\ cache = [k \in DOMAIN cache |-> cache[k]]
    /\ \A k \in DOMAIN cache : EntryInv(k, cache[k])

ReaderInv(r) ==
    /\ pc[r] # "fill" => age[r] = 0
    /\ pc[r] = "fill" => AsOf(query[r], results[r], age[r])
    /\ pc[r] = "200" => \A m \in results[r] :
            Matches(m, query[r]) /\ status[m] \in {"approved", "withdrawn"}

RequestTypes ==
    /\ pc \in [Readers -> {"idle", "get", "fetch", "fill", "200", "500"}]
    /\ query \in [Readers -> Query]
    /\ results \in [Readers -> SUBSET Materials]
    /\ age \in [Readers -> 0..Slack]

LEMMA CacheInvParts ==
    CacheInv <=> TableInv /\ EntriesInv /\ RequestTypes /\ \A r \in Readers : ReaderInv(r)
BY DEF CacheInv, TypeOK, TableInv, EntriesInv, EntryInv, RequestTypes, ReaderInv

LEMMA CacheInvPartsNext ==
    CacheInv' <=> TableInv' /\ EntriesInv' /\ RequestTypes' /\ \A r \in Readers : ReaderInv(r)'
BY DEF CacheInv, TypeOK, TableInv, EntriesInv, EntryInv, RequestTypes, ReaderInv

\* What answers a query as of a recent moment may be shown.
LEMMA AsOfShown ==
    ASSUME TableInv, NEW q, NEW n \in 0..Lag, NEW S, AsOf(q, S, n)
    PROVE  /\ S \subseteq Materials
           /\ \A m \in S : Matches(m, q) /\ status[m] \in {"approved", "withdrawn"}
<1>1. PICK A \in recent[n] : S \in Selections(q, A)
    BY DEF AsOf
<1>2. S \subseteq A /\ \A m \in S : Matches(m, q)
    BY <1>1, SelectionsAreHits
<1> QED
    BY <1>1, <1>2 DEF TableInv

LEMMA InitParts == Init => CacheInv
<1> SUFFICES ASSUME Init
             PROVE  TableInv /\ EntriesInv /\ RequestTypes /\ \A r \in Readers : ReaderInv(r)
    BY CacheInvParts
<1>1. TableInv /\ EntriesInv
    BY LagNat DEF Init, TableInv, EntriesInv, Approved
<1>2. RequestTypes /\ \A r \in Readers : ReaderInv(r)
    BY LagNat, AskedAssumption DEF Init, RequestTypes, ReaderInv
<1> QED
    BY <1>1, <1>2

-----------------------------------------------------------------------------
(* Steps *)

\* The steps that leave the table and the history of it alone.
LEMMA TableKept ==
    ASSUME TableInv, UNCHANGED db
    PROVE  /\ TableInv'
           /\ \A q, S, n : AsOf(q, S, n)' <=> AsOf(q, S, n)
           /\ status' = status
BY DEF TableInv, AsOf, db, Approved

\* An approval or a deletion adds a moment to the recent ones: what was approved
\* is approved or just withdrawn, and answers stay answers.
LEMMA TableMoves ==
    ASSUME TableInv, NEW m \in Materials, Approve(m) \/ Delete(m)
    PROVE  /\ TableInv'
           /\ \A q, S : \A n \in 0..Lag : AsOf(q, S, n) => AsOf(q, S, n)'
           /\ \A x \in Materials : status[x] \in {"approved", "withdrawn"} =>
                    status'[x] \in {"approved", "withdrawn"}
<1> USE LagNat
<1>1. recent' = [recent EXCEPT ![0] = @ \cup {Approved'}] /\ 0 \in 0..Lag
    BY DEF Approve, Delete
<1>2. /\ recent'[0] = recent[0] \cup {Approved'}
      /\ \A n \in 0..Lag : n # 0 => recent'[n] = recent[n]
    BY <1>1 DEF TableInv
<1>3. status' \in [Materials -> {"pending", "approved", "withdrawn", "rejected"}]
    BY DEF TableInv, Approve, Delete
<1>4. \A x \in Materials : status[x] \in {"approved", "withdrawn"} =>
            status'[x] \in {"approved", "withdrawn"}
    BY DEF TableInv, Approve, Delete
<1>5. Approved' \in SUBSET Materials /\ \A x \in Approved' : status'[x] = "approved"
    BY DEF Approved
<1>6. ASSUME NEW n \in 0..Lag, NEW A \in recent'[n]
      PROVE  A \in SUBSET Materials /\ \A x \in A : status'[x] \in {"approved", "withdrawn"}
  <2>1. CASE A \in recent[n]
    BY <1>4, <2>1 DEF TableInv
  <2>2. CASE A = Approved'
    BY <1>5, <2>2
  <2> QED
    BY <1>2, <1>6, <2>1, <2>2
<1>7. recent' \in [0..Lag -> SUBSET SUBSET Materials]
    BY <1>1, <1>6 DEF TableInv
<1>8. TableInv'
    BY <1>2, <1>3, <1>6, <1>7 DEF TableInv
<1>9. \A q, S : \A n \in 0..Lag : AsOf(q, S, n) => AsOf(q, S, n)'
    BY <1>2 DEF AsOf
<1> QED
    BY <1>4, <1>8, <1>9

LEMMA TableStep ==
    ASSUME CacheInv, NEW m \in Materials, Approve(m) \/ Delete(m)
    PROVE  CacheInv'
<1> USE CacheInvParts, CacheInvPartsNext, LagNat
<1>1. /\ TableInv'
      /\ \A q, S : \A n \in 0..Lag : AsOf(q, S, n) => AsOf(q, S, n)'
      /\ \A x \in Materials : status[x] \in {"approved", "withdrawn"} =>
                status'[x] \in {"approved", "withdrawn"}
    BY TableMoves
<1>2. UNCHANGED <<cache, pc, query, results, age>>
    BY DEF Approve, Delete, request
<1>3. EntriesInv'
  <2>1. ASSUME NEW k \in DOMAIN cache
        PROVE  EntryInv(k, cache[k])'
    BY <1>1, <1>2 DEF EntriesInv, EntryInv, Entry
  <2> QED
    BY <1>2, <2>1 DEF EntriesInv
<1>4. RequestTypes' /\ \A r \in Readers : ReaderInv(r)'
    BY <1>1, <1>2 DEF RequestTypes, ReaderInv
<1> QED
    BY <1>1, <1>3, <1>4

LEMMA ReaderKeeps ==
    ASSUME CacheInv, NEW r \in Readers, Ask(r) \/ ReaderStep(r)
    PROVE  CacheInv'
<1> USE CacheInvParts, CacheInvPartsNext, LagNat DEF RequestTypes, Goto
<1>1. UNCHANGED db
    BY DEF Ask, ReaderStep, Hit, Miss, Fetch, FetchFails, Fill
<1>2. /\ TableInv'
      /\ \A q, S, n : AsOf(q, S, n)' <=> AsOf(q, S, n)
      /\ status' = status
    BY <1>1, TableKept
<1>3. UNCHANGED cache => EntriesInv'
    BY <1>2 DEF EntriesInv, EntryInv
<1>4. CASE Ask(r)
    BY <1>2, <1>3, <1>4, AskedAssumption DEF Ask, ReaderInv
<1>5. CASE Hit(r)
  <2> DEFINE k == CacheKey(query[r])
             e == cache[k]
  <2>1. k = query[r] /\ EntryInv(k, e) /\ e.age \in 0..Lag
    BY <1>5 DEF Hit, EntriesInv, EntryInv, Entry, CacheKey
  <2>2. AsOf(query[r], e.results, e.age)
    BY <2>1 DEF EntryInv
  <2>3. /\ e.results \subseteq Materials
        /\ \A m \in e.results : Matches(m, query[r]) /\ status[m] \in {"approved", "withdrawn"}
    BY <2>1, <2>2, AsOfShown
  <2>4. RequestTypes' /\ \A s \in Readers : ReaderInv(s)'
    BY <1>2, <1>5, <2>3 DEF Hit, ReaderInv
  <2> QED
    BY <1>2, <1>3, <1>5, <2>4 DEF Hit
<1>6. CASE Miss(r) \/ FetchFails(r)
    BY <1>2, <1>3, <1>6 DEF Miss, FetchFails, ReaderInv
<1>7. CASE Fetch(r)
  <2>1. PICK S \in Selections(query[r], Approved) : results' = [results EXCEPT ![r] = S]
    BY <1>7 DEF Fetch
  <2>2. AsOf(query[r], S, 0)
    BY <2>1 DEF AsOf, TableInv
  <2>3. S \subseteq Materials
    BY <2>1, SelectionsAreHits DEF Approved
  <2>4. RequestTypes' /\ \A s \in Readers : ReaderInv(s)'
    BY <1>2, <1>7, <2>1, <2>2, <2>3 DEF Fetch, ReaderInv
  <2> QED
    BY <1>2, <1>3, <1>7, <2>4 DEF Fetch
<1>8. CASE Fill(r)
  <2> DEFINE k == CacheKey(query[r])
             e == [results |-> results[r], ttl |-> TTL, age |-> age[r]]
  <2>1. /\ k = query[r] /\ k \in Query /\ age[r] \in 0..Lag
        /\ AsOf(query[r], results[r], age[r])
    BY <1>8 DEF Fill, CacheKey, ReaderInv
  <2>2. EntryInv(k, e)
    BY <2>1 DEF EntryInv, Entry
  <2>3. EntriesInv'
    <3>1. CASE Store(k, e)
        BY <1>2, <2>1, <2>2, <3>1 DEF Store, EntriesInv, EntryInv
    <3> QED
        BY <1>3, <1>8, <3>1 DEF Fill
  <2>4. \A m \in results[r] : Matches(m, query[r]) /\ status[m] \in {"approved", "withdrawn"}
    BY <2>1, AsOfShown
  <2>5. RequestTypes' /\ \A s \in Readers : ReaderInv(s)'
    BY <1>2, <1>8, <2>4 DEF Fill, ReaderInv
  <2> QED
    BY <1>2, <2>3, <2>5
<1> QED
    BY <1>4, <1>5, <1>6, <1>7, <1>8 DEF ReaderStep

LEMMA EvictKeeps ==
    ASSUME CacheInv, NEW k \in Query, Evict(k)
    PROVE  CacheInv'
<1>1. /\ TableInv'
      /\ \A q, S, n : AsOf(q, S, n)' <=> AsOf(q, S, n)
      /\ status' = status
    BY TableKept, CacheInvParts DEF Evict
<1> QED
    BY <1>1, CacheInvParts, CacheInvPartsNext
       DEF Evict, EntriesInv, EntryInv, RequestTypes, ReaderInv, request

\* A tick makes every moment, and with it all that answers as of it, older.
LEMMA TickShifts ==
    ASSUME TableInv, Tick
    PROVE  TableInv' /\ \A n \in 0..Lag : n < Lag => recent'[n + 1] = recent[n]
<1> USE LagNat
<1>1. /\ recent' = [n \in 0..Lag |-> IF n = 0 THEN {Approved} ELSE recent[n - 1]]
      /\ status' = status /\ Approved' = Approved
    BY DEF Tick, Approved
<1>2. /\ recent'[0] = {Approved}
      /\ \A n \in 0..Lag : n # 0 => recent'[n] = recent[n - 1] /\ n - 1 \in 0..Lag
    BY <1>1
<1>3. /\ Approved \in SUBSET Materials
      /\ \A x \in Approved : status[x] \in {"approved", "withdrawn"}
    BY DEF Approved
<1>4. ASSUME NEW n \in 0..Lag
      PROVE  /\ recent'[n] \in SUBSET SUBSET Materials
             /\ \A A \in recent'[n] : \A m \in A : status[m] \in {"approved", "withdrawn"}
  <2>1. CASE n = 0
    BY <1>2, <1>3, <2>1
  <2>2. CASE n # 0
    BY <1>2, <2>2 DEF TableInv
  <2> QED
    BY <2>1, <2>2
<1>5. recent' \in [0..Lag -> SUBSET SUBSET Materials]
    BY <1>1, <1>4
<1>6. TableInv'
    BY <1>1, <1>2, <1>4, <1>5 DEF TableInv
<1>7. ASSUME NEW n \in 0..Lag, n < Lag
      PROVE  recent'[n + 1] = recent[n]
  <2>1. n + 1 \in 0..Lag /\ n + 1 # 0 /\ (n + 1) - 1 = n
    BY <1>7
  <2> QED
    BY <1>2, <2>1
<1> QED
    BY <1>6, <1>7

LEMMA TickKeeps == CacheInv /\ Tick => CacheInv'
<1> SUFFICES ASSUME CacheInv, Tick
             PROVE  CacheInv'
    OBVIOUS
<1> USE CacheInvParts, CacheInvPartsNext, LagNat
<1>1. TableInv' /\ \A n \in 0..Lag : n < Lag => recent'[n + 1] = recent[n]
    BY TickShifts
<1>2. EntriesInv'
  <2>1. /\ DOMAIN cache' \subseteq DOMAIN cache
        /\ \A k \in DOMAIN cache' :
            /\ cache[k].ttl > 1
            /\ cache'[k] = [cache[k] EXCEPT !.ttl = @ - 1, !.age = @ + 1]
        /\ cache' = [k \in DOMAIN cache' |-> cache'[k]]
    BY DEF Tick
  <2>2. ASSUME NEW k \in DOMAIN cache'
        PROVE  EntryInv(k, cache[k])'
    <3> DEFINE e == cache[k]
               f == cache'[k]
    <3>1. /\ e \in Entry /\ e.ttl > 1
          /\ AsOf(k, e.results, e.age)
          /\ e.age + e.ttl <= TTL + Slack
        BY <2>1 DEF EntriesInv, EntryInv
    <3>2. e.age \in 0..Lag /\ e.ttl \in 1..TTL /\ e.results \in SUBSET Materials
        BY <3>1 DEF Entry
    <3>3. f = [results |-> e.results, ttl |-> e.ttl - 1, age |-> e.age + 1]
        BY <2>1, <3>1 DEF Entry
    <3>4. e.age < Lag /\ e.age + 1 \in 0..Lag /\ e.ttl - 1 \in 1..TTL
        BY <3>1, <3>2
    <3>5. recent'[e.age + 1] = recent[e.age]
        BY <1>1, <3>2, <3>4
    <3>6. f \in Entry /\ f.age + f.ttl <= TTL + Slack
        BY <3>1, <3>2, <3>3, <3>4 DEF Entry
    <3>7. f.results = e.results /\ f.age = e.age + 1
        BY <3>3
    <3> QED
        BY <3>1, <3>5, <3>6, <3>7 DEF EntryInv, AsOf
  <2> QED
    BY <2>1, <2>2 DEF EntriesInv
<1>3. /\ \A r \in Readers : age[r] \in 0..Slack /\ (pc[r] = "fill" => age[r] < Slack)
      /\ age' = [r \in Readers |-> IF pc[r] = "fill" THEN age[r] + 1 ELSE age[r]]
      /\ pc' = pc /\ query' = query /\ results' = results
    BY DEF RequestTypes, Tick
<1>4. RequestTypes'
    BY <1>3 DEF RequestTypes
<1>5. ASSUME NEW r \in Readers
      PROVE  ReaderInv(r)'
  <2>1. CASE pc[r] = "fill"
    <3>1. /\ age[r] \in 0..Lag /\ age[r] < Slack /\ age[r] < Lag
          /\ AsOf(query[r], results[r], age[r])
        BY <1>3, <2>1 DEF ReaderInv
    <3>2. recent'[age[r] + 1] = recent[age[r]]
        BY <1>1, <3>1
    <3>3. age'[r] = age[r] + 1 /\ pc' = pc /\ query' = query /\ results' = results
        BY <2>1 DEF Tick
    <3> QED
        BY <2>1, <3>1, <3>2, <3>3 DEF ReaderInv, AsOf
  <2>2. CASE pc[r] # "fill"
    BY <2>2 DEF ReaderInv, Tick
  <2> QED
    BY <2>1, <2>2
<1> QED
    BY <1>1, <1>2, <1>4, <1>5

LEMMA CacheInvStep == CacheInv /\ [Next]_vars => CacheInv'
<1> SUFFICES ASSUME CacheInv, [Next]_vars
             PROVE  CacheInv'
    OBVIOUS
<1>1. CASE UNCHANGED vars
  <2>1. TableInv' /\ (\A q, S, n : AsOf(q, S, n)' <=> AsOf(q, S, n)) /\ status' = status
    BY <1>1, TableKept, CacheInvParts DEF vars
  <2> QED
    BY <1>1, <2>1, CacheInvParts, CacheInvPartsNext
       DEF vars, request, EntriesInv, EntryInv, RequestTypes, ReaderInv
<1> QED
    BY <1>1, TableStep, ReaderKeeps, EvictKeeps, TickKeeps DEF Next

\* Whoever cached it and whenever, an answer is that of one recent moment.
LEMMA AnswerIsRecent ==
    ASSUME CacheInv, Next, NEW r \in Readers, Answers(r)
    PROVE  /\ Hit(r) \/ Fill(r)
           /\ results'[r] \in SUBSET Materials
           /\ \E n \in 0..Lag : AsOf(query[r], results'[r], n)
<1> USE CacheInvParts, LagNat DEF RequestTypes
<1>1. Hit(r) \/ Fill(r)
    BY DEF Next, Approve, Delete, Ask, ReaderStep, Hit, Miss, Fetch, FetchFails, Fill, Evict,
           Tick, Goto, Answers, request
<1>2. CASE Hit(r)
  <2> DEFINE e == cache[CacheKey(query[r])]
  <2>1. EntryInv(query[r], e) /\ e.age \in 0..Lag /\ e.results \in SUBSET Materials
    BY <1>2 DEF Hit, EntriesInv, EntryInv, Entry, CacheKey
  <2>2. results'[r] = e.results
    BY <1>2 DEF Hit
  <2> QED
    BY <1>1, <2>1, <2>2 DEF EntryInv
<1>3. CASE Fill(r)
  <2>1. results'[r] = results[r] /\ age[r] \in 0..Lag /\ AsOf(query[r], results[r], age[r])
    BY <1>3 DEF Fill, ReaderInv
  <2> QED
    BY <1>1, <2>1
<1> QED
    BY <1>1, <1>2, <1>3

-----------------------------------------------------------------------------
(* Theorems *)

\* Every entry and every request holds the results of its own query as of one
\* recent moment.
THEOREM CacheInvariant == Spec => []CacheInv
<1> QED
    BY InitParts, CacheInvStep, PTL DEF Spec

\* No answer shows what the query's filters exclude, whoever cached it.
THEOREM FiltersAreHonoured == Spec => []HonoursFilters
<1>1. CacheInv => HonoursFilters
    BY DEF CacheInv, HonoursFilters
<1> QED
    BY <1>1, CacheInvariant, PTL

\* No answer shows a material that was never approved.
THEOREM UnapprovedIsHidden == Spec => []NeverUnapproved
<1>1. CacheInv => NeverUnapproved
    BY DEF CacheInv, NeverUnapproved
<1> QED
    BY <1>1, CacheInvariant, PTL

\* A material withdrawn more than Lag ticks ago is in no answer.
THEOREM WithdrawalTakesEffect == Spec => WithdrawnSoonGone
<1>1. CacheInv /\ [Next]_vars =>
        [\A r \in Readers :
            Answers(r) => \A m \in results'[r] :
                \E n \in 0..Lag : \E A \in recent[n] : m \in A]_vars
  <2> SUFFICES ASSUME CacheInv, Next, NEW r \in Readers, Answers(r), NEW m \in results'[r]
               PROVE  \E n \in 0..Lag : \E A \in recent[n] : m \in A
    BY DEF vars, db, request, Answers
  <2>1. PICK n \in 0..Lag : \E A \in recent[n] : results'[r] \in Selections(query[r], A)
    BY AnswerIsRecent DEF AsOf
  <2> QED
    BY <2>1, SelectionsAreHits
<1> QED
    BY <1>1, CacheInvariant, PTL DEF Spec, WithdrawnSoonGone

\* Once nothing changed for Lag ticks, an answer is one Postgres would give.
THEOREM SettledAnswersAreCurrent == Spec => SettledIsCurrent
<1>1. CacheInv /\ [Next]_vars =>
        [\A r \in Readers :
            Answers(r) /\ (\A n \in 0..Lag : recent[n] = {Approved})
                => results'[r] \in Selections(query[r], Approved)]_vars
  <2> SUFFICES ASSUME CacheInv, Next, NEW r \in Readers, Answers(r),
                      \A n \in 0..Lag : recent[n] = {Approved}
               PROVE  results'[r] \in Selections(query[r], Approved)
    BY DEF vars, db, request, Answers
  <2> QED
    BY AnswerIsRecent DEF AsOf
<1> QED
    BY <1>1, CacheInvariant, PTL DEF Spec, SettledIsCurrent

-----------------------------------------------------------------------------
(* SearchCache implements SearchIndex: an approval lists a material, the        *)
(* deletion of an approved one withdraws it, time passes with time, a request  *)
(* clears what its connection showed and its answer is that of a recent        *)
(* moment.  Everything else, the cache included, is internal.                  *)


\* Both rank alike.
LEMMA SameRanking ==
    /\ Index!Query = Query
    /\ \A q, A : Index!Selections(q, A) = Selections(q, A)
<1>1. Index!Query = Query
    BY DEF Index!Query, Query
<1>2. \A m, q : Index!Matches(m, q) <=> Matches(m, q)
    BY DEF Index!Matches, Matches
<1>3. \A q, A : Index!Hits(q, A) = Hits(q, A)
    BY <1>2 DEF Index!Hits, Hits
<1>4. \A S : Index!Cardinality(S) = Cardinality(S)
    BY Zenon DEF Index!Cardinality, Cardinality
<1>5. ASSUME NEW q, NEW A
      PROVE  Index!Selections(q, A) = Selections(q, A)
  <2>1. Index!Hits(q, A) = Hits(q, A)
    BY <1>3
  <2>2. \A S : S \in Index!Selections(q, A) <=> S \in Selections(q, A)
    BY <1>4, <2>1 DEF Index!Selections, Selections
  <2> QED
    BY <2>2
<1> QED
    BY <1>1, <1>5

LEMMA ListedIsApproved == Index!Listed = Approved
BY DEF Index!Listed, Shelf, Approved

LEMMA ListedIsApprovedNext == Index!Listed' = Approved'
BY DEF Index!Listed, Shelf, Approved

LEMMA IndexStarts == Init => Index!IndexInit
BY DEF Init, Index!IndexInit, Shelf, Shown

\* What is shown changes with the phase, the query and the results only.
LEMMA ShownKept == UNCHANGED request => UNCHANGED Shown
BY DEF request, Shown

LEMMA TableImplements ==
    ASSUME CacheInv, NEW m \in Materials, Approve(m) \/ Delete(m)
    PROVE  Index!List(m) \/ Index!Withdraw(m) \/ UNCHANGED Index!indexVars
<1> USE LagNat, CacheInvParts DEF TableInv
<1>1. UNCHANGED Shown
    BY ShownKept DEF Approve, Delete
<1>2. CASE Approve(m)
  <2>1. Shelf[m] = "hidden" /\ Shelf' = [Shelf EXCEPT ![m] = "listed"]
    BY <1>2 DEF Approve, Shelf
  <2> QED
    BY <1>1, <1>2, <2>1, ListedIsApprovedNext DEF Approve, Index!List, Index!Move
<1>3. CASE Delete(m) /\ status[m] = "approved"
  <2>1. Shelf[m] = "listed" /\ Shelf' = [Shelf EXCEPT ![m] = "withdrawn"]
    BY <1>3 DEF Delete, Shelf
  <2> QED
    BY <1>1, <1>3, <2>1, ListedIsApprovedNext DEF Delete, Index!Withdraw, Index!Move
<1>4. CASE Delete(m) /\ status[m] = "pending"
  <2>1. Shelf' = Shelf /\ Approved' = Approved
    BY <1>4 DEF Delete, Shelf, Approved
  <2>2. recent' = recent
    BY <1>4, <2>1 DEF Delete
  <2> QED
    BY <1>1, <2>1, <2>2 DEF Index!indexVars
<1> QED
    BY <1>2, <1>3, <1>4 DEF Delete

LEMMA ReaderImplements ==
    ASSUME CacheInv, Next, NEW r \in Readers, Ask(r) \/ ReaderStep(r)
    PROVE  \/ Index!Clear(r)
           \/ \E q \in Query, n \in 0..Lag : Index!Answer(r, q, n)
           \/ UNCHANGED Index!indexVars
<1> USE CacheInvParts DEF RequestTypes, Goto
<1>1. UNCHANGED <<Shelf, recent>>
    BY DEF Ask, ReaderStep, Hit, Miss, Fetch, FetchFails, Fill, db, Shelf
<1>2. CASE Ask(r)
  <2>1. Shown' = [Shown EXCEPT ![r] = <<>>]
    BY <1>2 DEF Ask, Shown
  <2> QED
    BY <1>1, <2>1 DEF Index!Clear
<1>3. CASE Hit(r) \/ Fill(r)
  <2>1. Answers(r) /\ query' = query
    BY <1>3 DEF Answers, Hit, Fill
  <2>2. PICK n \in 0..Lag : \E A \in recent[n] : results'[r] \in Selections(query[r], A)
    BY <2>1, AnswerIsRecent DEF AsOf
  <2>3. /\ pc' = [pc EXCEPT ![r] = "200"] /\ query' = query
        /\ \A s \in Readers : s # r => results'[s] = results[s]
    BY <1>3 DEF Hit, Fill
  <2>4. Shown' = [Shown EXCEPT ![r] = <<query[r], results'[r]>>]
    BY <2>3 DEF Shown
  <2>5. Index!Answer(r, query[r], n)
    BY <1>1, <2>2, <2>4, SameRanking DEF Index!Answer
  <2> QED
    BY <2>5
<1>4. CASE Miss(r) \/ Fetch(r) \/ FetchFails(r)
  <2>1. Shown' = Shown
    BY <1>4 DEF Miss, Fetch, FetchFails, Shown
  <2> QED
    BY <1>1, <2>1 DEF Index!indexVars
<1> QED
    BY <1>2, <1>3, <1>4 DEF ReaderStep

LEMMA TickImplements == Tick => Index!NextTick
<1> SUFFICES ASSUME Tick
             PROVE  Index!NextTick
    OBVIOUS
<1>1. UNCHANGED <<Shelf, Shown>>
    BY DEF Tick, Shelf, Shown
<1>2. recent' = [n \in 0..Lag |-> IF n = 0 THEN {Approved} ELSE recent[n - 1]]
    BY DEF Tick
<1> QED
    BY <1>1, <1>2, ListedIsApproved DEF Index!NextTick

LEMMA IndexStep == CacheInv /\ [Next]_vars => [Index!IndexNext]_(Index!indexVars)
<1> SUFFICES ASSUME CacheInv, [Next]_vars
             PROVE  Index!IndexNext \/ UNCHANGED Index!indexVars
    OBVIOUS
<1>1. CASE UNCHANGED vars
    BY <1>1, ShownKept DEF vars, db, Index!indexVars, Shelf
<1>2. CASE \E m \in Materials : Approve(m) \/ Delete(m)
    BY <1>2, TableImplements DEF Index!IndexNext
<1>3. CASE \E r \in Readers : Ask(r) \/ ReaderStep(r)
  <2>1. Next
    BY <1>3 DEF Next
  <2> QED
    BY <1>3, <2>1, ReaderImplements, SameRanking DEF Index!IndexNext
<1>4. CASE \E k \in Query : Evict(k)
    BY <1>4, ShownKept DEF Evict, db, Index!indexVars, Shelf
<1>5. CASE Tick
    BY <1>5, TickImplements DEF Index!IndexNext
<1> QED
    BY <1>1, <1>2, <1>3, <1>4, <1>5 DEF Next

\* However requests, approvals, deletions, evictions and failures interleave, a
\* search answers as of one moment at most Lag ticks ago.
THEOREM SearchImplementsIndex == Spec => ImplementsIndex
<1> QED
    BY IndexStarts, IndexStep, CacheInvariant, PTL DEF Spec, ImplementsIndex, Index!IndexSpec

=============================================================================
