-------------------------- MODULE MaterialHubProofs --------------------------
(***************************************************************************)
(* Proofs about MaterialHub for any number of requests, contents, courses  *)
(* and flags, and any set of faults.                                       *)
(***************************************************************************)
EXTENDS MaterialHub, TLAPS

-----------------------------------------------------------------------------
(* Types *)

LEMMA UploadTypes ==
    ASSUME TypeOK, NEW u \in Uploads, UploadStep(u), UNCHANGED moderationVars
    PROVE  TypeOK'
<1> USE DEF TypeOK, TablesTypeOK, UploadTypeOK, ModerationTypeOK, tables,
            moderationVars, UploadCalls, UploadAnswers, RowStatus, Goto
<1>1. ModerationTypeOK'
    OBVIOUS
<1>2. CASE Receive(u)
    BY <1>1, <1>2 DEF Receive
<1>3. CASE Check(u)
    BY <1>1, <1>3 DEF Check
<1>4. CASE CheckFails(u)
    BY <1>1, <1>4 DEF CheckFails
<1>5. CASE CourseRefused(u)
    BY <1>1, <1>5 DEF CourseRefused
<1>6. CASE CourseById(u)
    BY <1>1, <1>6 DEF CourseById, Validate
<1>7. CASE CourseByName(u)
    BY <1>1, <1>7 DEF CourseByName, FindOrCreate, Validate
<1>8. CASE CourseFails(u)
    BY <1>1, <1>8 DEF CourseFails, FindOrCreate
<1>9. CASE Put(u)
    BY <1>1, <1>9 DEF Put, PutObject
<1>10. CASE PutFails(u)
    BY <1>1, <1>10 DEF PutFails, PutObject
<1>11. CASE Create(u)
    BY <1>1, <1>11 DEF Create, InsertMaterial
<1>12. CASE CreateFails(u)
    BY <1>1, <1>12 DEF CreateFails, InsertMaterial
<1> QED
    BY <1>2, <1>3, <1>4, <1>5, <1>6, <1>7, <1>8, <1>9, <1>10, <1>11, <1>12
    DEF UploadStep

LEMMA ModerationTypes ==
    ASSUME TypeOK, NEW d \in Moderations, ModerationStep(d), UNCHANGED uploadVars
    PROVE  TypeOK'
<1> USE DEF TypeOK, TablesTypeOK, UploadTypeOK, ModerationTypeOK, tables,
            uploadVars, ModerationCalls, ModerationAnswers, RowStatus, GotoM
<1>1. UploadTypeOK'
    OBVIOUS
<1>2. CASE AskApprove(d)
    BY <1>1, <1>2 DEF AskApprove, Ask, KnownMaterials
<1>3. CASE AskReject(d)
    BY <1>1, <1>3 DEF AskReject, Ask, KnownMaterials
<1>4. CASE AskResolve(d)
    BY <1>1, <1>4 DEF AskResolve, Ask, KnownMaterials, KnownFlags
<1>5. CASE AskInvalid(d)
    BY <1>1, <1>5 DEF AskInvalid
<1>6. CASE Approve(d)
    BY <1>1, <1>6 DEF Approve, ApproveMaterial
<1>7. CASE ApproveFails(d)
    BY <1>1, <1>7 DEF ApproveFails, ApproveMaterial
<1>8. CASE Lookup(d)
    BY <1>1, <1>8 DEF Lookup, Rows
<1>9. CASE LookupMisses(d)
    BY <1>1, <1>9 DEF LookupMisses
<1>10. CASE Purge(d)
    BY <1>1, <1>10 DEF Purge, RemoveObject
<1>11. CASE Remove(d)
    BY <1>1, <1>11 DEF Remove, DeleteMaterial
<1>12. CASE RemoveFails(d)
    BY <1>1, <1>12 DEF RemoveFails, DeleteMaterial
<1>13. CASE Resolve(d)
    BY <1>1, <1>13 DEF Resolve, ResolveFlag
<1>14. CASE ResolveFails(d)
    BY <1>1, <1>14 DEF ResolveFails, ResolveFlag
<1> QED
    BY <1>2, <1>3, <1>4, <1>5, <1>6, <1>7, <1>8, <1>9, <1>10, <1>11, <1>12, <1>13, <1>14
    DEF ModerationStep

LEMMA TypeStep == TypeOK /\ [Next]_vars => TypeOK'
<1> SUFFICES ASSUME TypeOK, [Next]_vars
             PROVE  TypeOK'
    OBVIOUS
<1> USE DEF TypeOK, TablesTypeOK, UploadTypeOK, ModerationTypeOK, tables
<1>1. CASE \E u \in Uploads : UploadStep(u) /\ UNCHANGED moderationVars
    BY <1>1, UploadTypes
<1>2. CASE \E d \in Moderations : ModerationStep(d) /\ UNCHANGED uploadVars
    BY <1>2, ModerationTypes
<1>3. CASE \E f \in Flags : CreateFlag(f) /\ UNCHANGED uploadVars
    BY <1>3 DEF CreateFlag, InsertFlag, KnownMaterials, Rows, uploadVars, moderationVars
<1>4. CASE Crash
    BY <1>4 DEF Crash, UploadsLost, ModerationsLost, UploadCalls, UploadAnswers,
                ModerationCalls, ModerationAnswers
<1>5. CASE UNCHANGED vars
    BY <1>5 DEF vars, uploadVars, moderationVars
<1> QED
    BY <1>1, <1>2, <1>3, <1>4, <1>5 DEF Next, HubStep

LEMMA TypeInit == Init => TypeOK
BY DEF Init, TypeOK, TablesInit, UploadInit, ModerationInit, TablesTypeOK,
       UploadTypeOK, ModerationTypeOK

-----------------------------------------------------------------------------
(* Uploads keep the invariant *)

\* An upload that only moves on, without a row of its own and without entering
\* the window; it may have stored its object.
LEMMA UploadMoves ==
    ASSUME HubInv, TypeOK',
           NEW u \in Uploads, NEW p, Goto(u, p), status[u] = "absent",
           Window' \subseteq Window,
           p = "create" => content[u] \in objects',
           objects \subseteq objects',
           UNCHANGED <<content, status, contended, flag, moderationVars>>
    PROVE  HubInv'
<1> USE DEF HubInv, TypeOK, TablesTypeOK, UploadTypeOK, ModerationTypeOK, moderationVars
<1>1. RowsComeFromCreate'
    BY DEF RowsComeFromCreate, Goto
<1>2. TargetsKnown'
    BY DEF TargetsKnown, KnownMaterials, KnownFlags
<1>3. UniqueContent'
    BY DEF UniqueContent, Rows
<1>4. LoneUpload'
    BY DEF LoneUpload, ExistsByContentHash, Rows, Deleting
<1>5. LoneDeletion'
    BY DEF LoneDeletion, Rows, Deleting
<1>6. StoredFirst'
    BY DEF StoredFirst, Goto
<1>7. Backed'
    BY DEF Backed, Rows, HalfDone
<1> QED
    BY <1>1, <1>2, <1>3, <1>4, <1>5, <1>6, <1>7

\* The duplicate check lets an upload into the window.
LEMMA CheckPasses ==
    ASSUME HubInv, TypeOK', NEW u \in Uploads, Check(u), ~ExistsByContentHash(content[u]),
           UNCHANGED moderationVars
    PROVE  HubInv'
<1> USE DEF HubInv, TypeOK, TablesTypeOK, UploadTypeOK, ModerationTypeOK,
            moderationVars, tables
<1>1. /\ phase[u] = "check" /\ phase' = [phase EXCEPT ![u] = "course"]
      /\ contended' = contended \cup
            {c \in {content[u]} : \E v \in Window : content[v] = c}
      /\ UNCHANGED <<content, status, flag, objects>>
    BY DEF Check, Goto
<1>2. contended \subseteq contended' /\ Window' = Window \cup {u}
    BY <1>1 DEF Window
<1>3. RowsComeFromCreate'
    BY <1>1 DEF RowsComeFromCreate, UploadCalls
<1>4. TargetsKnown'
    BY <1>1 DEF TargetsKnown, KnownMaterials, KnownFlags
<1>5. UniqueContent'
    BY <1>1 DEF UniqueContent, Rows
<1>6. LoneUpload'
  <2> SUFFICES ASSUME NEW v \in Window', content[v] \notin contended'
               PROVE  /\ ~ExistsByContentHash(content[v])
                      /\ \A w \in Window' : content[w] = content[v] => w = v
                      /\ \A m \in Uploads : content[m] = content[v] => Deleting(m) = {}
    BY <1>1 DEF LoneUpload, ExistsByContentHash, Rows, Deleting
  <2>1. CASE v = u
    <3>1. \A w \in Window : content[w] # content[u]
        BY <1>1, <2>1
    <3>2. ASSUME NEW m \in Uploads, content[m] = content[u]
          PROVE  Deleting(m) = {}
        BY <1>2, <2>1, <3>2 DEF LoneDeletion, ExistsByContentHash
    <3> QED
        BY <1>2, <2>1, <3>1, <3>2
  <2>2. CASE v # u
    <3>1. v \in Window /\ content[v] \notin contended
        BY <1>2, <2>2
    <3>2. content[u] # content[v]
        BY <1>1, <3>1
    <3> QED
        BY <1>2, <3>1, <3>2 DEF LoneUpload
  <2> QED
    BY <2>1, <2>2
<1>7. LoneDeletion'
    BY <1>1, <1>2 DEF LoneDeletion, Rows, Deleting
<1>8. StoredFirst'
    BY <1>1, <1>2 DEF StoredFirst
<1>9. Backed'
    BY <1>1, <1>2 DEF Backed, Rows, HalfDone
<1> QED
    BY <1>3, <1>4, <1>5, <1>6, <1>7, <1>8, <1>9

\* The INSERT succeeds, whatever the client is told.
LEMMA UploadInserts ==
    ASSUME HubInv, TypeOK', NEW u \in Uploads, NEW p \in UploadAnswers,
           phase[u] = "create", ~ExistsByContentHash(content[u]), InsertMaterial(u), Goto(u, p),
           UNCHANGED <<content, flag, objects, contended, moderationVars>>
    PROVE  HubInv'
<1> USE DEF HubInv, TypeOK, TablesTypeOK, UploadTypeOK, ModerationTypeOK, moderationVars
<1>1. u \in Window /\ Window' = Window \ {u} /\ ~ExistsByContentHash(content[u])
    BY DEF Window, Goto, UploadAnswers
<1>2. Rows' = Rows \cup {u} /\ status[u] = "absent"
    BY DEF Rows, InsertMaterial, RowStatus, RowsComeFromCreate, UploadCalls
<1>3. RowsComeFromCreate'
    BY DEF RowsComeFromCreate, Goto, InsertMaterial, UploadCalls, UploadAnswers
<1>4. TargetsKnown'
    BY DEF TargetsKnown, KnownMaterials, KnownFlags, InsertMaterial
<1>5. UniqueContent'
    BY <1>1, <1>2 DEF UniqueContent, ExistsByContentHash
<1>6. LoneUpload'
    BY <1>1, <1>2 DEF LoneUpload, ExistsByContentHash, Deleting
<1>7. LoneDeletion'
    BY <1>2 DEF LoneDeletion, Deleting
<1>8. StoredFirst'
    BY DEF StoredFirst, Goto, UploadAnswers
<1>9. Backed'
    BY <1>2 DEF Backed, StoredFirst, HalfDone
<1> QED
    BY <1>3, <1>4, <1>5, <1>6, <1>7, <1>8, <1>9

LEMMA UploadKeeps ==
    ASSUME HubInv, TypeOK', NEW u \in Uploads, UploadStep(u), UNCHANGED moderationVars
    PROVE  HubInv'
<1> USE DEF tables
<1>1. phase \in [Uploads -> UploadCalls \cup UploadAnswers \cup {"idle"}]
    BY DEF HubInv, TypeOK, UploadTypeOK
<1>2. phase[u] \in UploadCalls \cup {"idle"} => status[u] = "absent"
    BY DEF HubInv, RowsComeFromCreate
<1>3. CASE Receive(u)
    BY <1>1, <1>2, <1>3, UploadMoves DEF Receive, Goto, Window
<1>4. CASE Check(u)
  <2>1. CASE ExistsByContentHash(content[u])
    BY <1>1, <1>2, <1>4, <2>1, UploadMoves DEF Check, Goto, Window, UploadCalls
  <2> QED
    BY <1>4, <2>1, CheckPasses
<1>5. CASE CheckFails(u)
    BY <1>1, <1>2, <1>5, UploadMoves DEF CheckFails, Goto, Window, UploadCalls
<1>6. CASE CourseRefused(u)
    BY <1>1, <1>2, <1>6, UploadMoves DEF CourseRefused, Goto, Window, UploadCalls
<1>7. CASE CourseById(u)
    BY <1>1, <1>2, <1>7, UploadMoves DEF CourseById, Validate, Goto, Window, UploadCalls
<1>8. CASE CourseByName(u)
    BY <1>1, <1>2, <1>8, UploadMoves DEF CourseByName, Validate, Goto, Window, UploadCalls
<1>9. CASE CourseFails(u)
    BY <1>1, <1>2, <1>9, UploadMoves DEF CourseFails, Goto, Window, UploadCalls
<1>10. CASE Put(u)
    BY <1>1, <1>2, <1>10, UploadMoves DEF Put, PutObject, Goto, Window, UploadCalls
<1>11. CASE PutFails(u)
    BY <1>1, <1>2, <1>11, UploadMoves DEF PutFails, PutObject, Goto, Window, UploadCalls
<1>12. CASE Create(u)
  <2>1. CASE ~ExistsByContentHash(content[u]) /\ InsertMaterial(u)
    BY <1>12, <2>1, UploadInserts DEF Create, UploadAnswers, Goto
  <2>2. CASE UNCHANGED status
    BY <1>1, <1>2, <1>12, <2>2, UploadMoves DEF Create, Goto, Window, UploadCalls
  <2> QED
    BY <1>12, <2>1, <2>2 DEF Create, Insertable
<1>13. CASE CreateFails(u)
  <2>1. CASE ~ExistsByContentHash(content[u]) /\ InsertMaterial(u)
    BY <1>13, <2>1, UploadInserts DEF CreateFails, UploadAnswers
  <2>2. CASE UNCHANGED status
    BY <1>1, <1>2, <1>13, <2>2, UploadMoves DEF CreateFails, Goto, Window, UploadCalls
  <2> QED
    BY <1>13, <2>1, <2>2 DEF CreateFails, Insertable
<1> QED
    BY <1>3, <1>4, <1>5, <1>6, <1>7, <1>8, <1>9, <1>10, <1>11, <1>12, <1>13 DEF UploadStep

-----------------------------------------------------------------------------
(* Moderation requests keep the invariant *)

\* A request that is received, with ids taken from the listings.
LEMMA Asks ==
    ASSUME HubInv, TypeOK', NEW d \in Moderations, UNCHANGED uploadVars,
           NEW o, NEW m \in KnownMaterials \cup {None}, NEW f, NEW p, Ask(d, o, m, f, p),
           p \in {"approve", "lookup"} => m # None,
           p = "approve" => o = "approve",
           p = "lookup" => o \in {"reject", "resolve"},
           o = "resolve" => f \in KnownFlags,
           p \in {"approve", "lookup", "resolve"},
           p = "resolve" => o = "resolve"
    PROVE  HubInv'
<1> USE DEF HubInv, TypeOK, TablesTypeOK, UploadTypeOK, ModerationTypeOK, uploadVars,
            tables, Ask, GotoM
<1>1. RowsComeFromCreate'
    BY DEF RowsComeFromCreate
<1>2. TargetsKnown'
    BY DEF TargetsKnown, KnownMaterials, KnownFlags
<1>3. UniqueContent'
    BY DEF UniqueContent, Rows
<1>4. LoneUpload'
    BY DEF LoneUpload, ExistsByContentHash, Rows, Deleting, Window
<1>5. LoneDeletion'
    BY DEF LoneDeletion, Rows, Deleting
<1>6. StoredFirst'
    BY DEF StoredFirst
<1>7. Backed'
    BY DEF Backed, Rows, HalfDone
<1> QED
    BY <1>1, <1>2, <1>3, <1>4, <1>5, <1>6, <1>7

\* A request that moves on outside a deletion; it may approve or close a flag.
LEMMA ModerationMoves ==
    ASSUME HubInv, TypeOK', NEW d \in Moderations, UNCHANGED uploadVars,
           NEW p \in {"resolve", "204", "400", "404", "500"}, GotoM(d, p),
           mphase[d] \in {"idle", "approve", "lookup", "resolve"},
           p = "resolve" => op[d] = "resolve",
           Rows' = Rows, KnownMaterials' = KnownMaterials, KnownFlags' = KnownFlags,
           UNCHANGED <<content, objects, contended, op, target, about>>
    PROVE  HubInv'
<1> USE DEF HubInv, TypeOK, TablesTypeOK, UploadTypeOK, ModerationTypeOK, uploadVars, GotoM
<1>1. RowsComeFromCreate'
    BY DEF RowsComeFromCreate, KnownMaterials
<1>2. TargetsKnown'
    BY DEF TargetsKnown
<1>3. UniqueContent'
    BY DEF UniqueContent
<1>4. LoneUpload'
    BY DEF LoneUpload, ExistsByContentHash, Deleting, Window
<1>5. LoneDeletion'
    BY DEF LoneDeletion, Deleting
<1>6. StoredFirst'
    BY DEF StoredFirst
<1>7. Backed'
    BY DEF Backed, HalfDone
<1> QED
    BY <1>1, <1>2, <1>3, <1>4, <1>5, <1>6, <1>7

\* GetFileKey finds the row: the deletion begins.
LEMMA LookupKeeps ==
    ASSUME HubInv, TypeOK', NEW d \in Moderations, Lookup(d), UNCHANGED uploadVars
    PROVE  HubInv'
<1> USE DEF HubInv, TypeOK, TablesTypeOK, UploadTypeOK, ModerationTypeOK, uploadVars, tables
<1>1. /\ mphase[d] = "lookup" /\ mphase' = [mphase EXCEPT ![d] = "purge"]
      /\ target[d] \in Rows
      /\ Deleting(target[d]) # {} => content[target[d]] \in contended'
      /\ contended \subseteq contended'
      /\ UNCHANGED <<content, status, flag, objects, op, target, about>>
    BY DEF Lookup, GotoM
<1>2. target[d] \in Uploads /\ op[d] \in {"reject", "resolve"}
    BY <1>1 DEF Rows, TargetsKnown
<1>3. \A m \in Uploads : Deleting(m)' = IF m = target[d] THEN Deleting(m) \cup {d} ELSE Deleting(m)
    BY <1>1 DEF Deleting
<1>4. RowsComeFromCreate'
    BY <1>1 DEF RowsComeFromCreate
<1>5. TargetsKnown'
    BY <1>1, <1>2 DEF TargetsKnown, KnownMaterials, KnownFlags
<1>6. UniqueContent'
    BY <1>1 DEF UniqueContent, Rows
<1>7. LoneUpload'
  <2> SUFFICES ASSUME NEW u \in Window, content[u] \notin contended'
               PROVE  /\ ~ExistsByContentHash(content[u])
                      /\ \A v \in Window : content[v] = content[u] => v = u
                      /\ \A m \in Uploads : content[m] = content[u] => Deleting(m)' = {}
    BY <1>1 DEF LoneUpload, ExistsByContentHash, Rows, Window
  <2>1. /\ ~ExistsByContentHash(content[u])
        /\ \A v \in Window : content[v] = content[u] => v = u
        /\ \A m \in Uploads : content[m] = content[u] => Deleting(m) = {}
    BY <1>1 DEF LoneUpload
  <2>2. content[target[d]] # content[u]
    BY <1>1, <2>1 DEF ExistsByContentHash
  <2> QED
    BY <1>3, <2>1, <2>2
<1>8. LoneDeletion'
  <2> SUFFICES ASSUME NEW m \in Uploads, content[m] \notin contended', NEW e \in Deleting(m)'
               PROVE  m \in Rows /\ Deleting(m)' = {e}
    BY <1>1 DEF LoneDeletion, Rows
  <2>1. CASE m = target[d]
    <3>1. Deleting(m) = {}
        BY <1>1, <2>1
    <3> QED
        BY <1>1, <1>3, <2>1, <3>1
  <2>2. CASE m # target[d]
    BY <1>1, <1>3, <2>2 DEF LoneDeletion
  <2> QED
    BY <2>1, <2>2
<1>9. StoredFirst'
    BY <1>1 DEF StoredFirst
<1>10. Backed'
    BY <1>1 DEF Backed, Rows, HalfDone
<1> QED
    BY <1>4, <1>5, <1>6, <1>7, <1>8, <1>9, <1>10

\* The object goes; the row it belonged to is known to be half deleted.
LEMMA PurgeKeeps ==
    ASSUME HubInv, TypeOK', NEW d \in Moderations, Purge(d), UNCHANGED uploadVars
    PROVE  HubInv'
<1> USE DEF HubInv, TypeOK, TablesTypeOK, UploadTypeOK, ModerationTypeOK, uploadVars
<1>1. /\ mphase[d] = "purge" /\ mphase' = [mphase EXCEPT ![d] = "remove"]
      /\ objects \ {content[target[d]]} \subseteq objects'
      /\ UNCHANGED <<content, status, flag, contended, op, target, about>>
    BY DEF Purge, GotoM, RemoveObject
<1>2. target[d] \in Uploads /\ op[d] \in {"reject", "resolve"} /\ d \in Deleting(target[d])
    BY <1>1 DEF TargetsKnown, Deleting
<1>3. \A m \in Uploads : Deleting(m)' = Deleting(m)
    BY <1>1 DEF Deleting
<1>4. RowsComeFromCreate'
    BY <1>1 DEF RowsComeFromCreate
<1>5. TargetsKnown'
    BY <1>1, <1>2 DEF TargetsKnown, KnownMaterials, KnownFlags
<1>6. UniqueContent'
    BY <1>1 DEF UniqueContent, Rows
<1>7. LoneUpload'
    BY <1>1, <1>3 DEF LoneUpload, ExistsByContentHash, Rows, Window
<1>8. LoneDeletion'
    BY <1>1, <1>3 DEF LoneDeletion, Rows
<1>9. StoredFirst'
  <2> SUFFICES ASSUME NEW u \in Uploads, phase[u] = "create", content[u] \notin contended
               PROVE  content[u] \in objects'
    BY <1>1 DEF StoredFirst
  <2>1. content[u] # content[target[d]]
    BY <1>2 DEF LoneUpload, Window
  <2> QED
    BY <1>1, <2>1 DEF StoredFirst
<1>10. Backed'
  <2> SUFFICES ASSUME NEW m \in Rows, content[m] \notin contended
               PROVE  \/ content[m] \in objects'
                      \/ \E e \in Moderations : target[e] = m /\ HalfDone(e)'
    BY <1>1 DEF Backed, Rows
  <2>1. CASE content[m] = content[target[d]]
    <3>1. target[d] \in Rows
        BY <1>2, <2>1 DEF LoneDeletion
    <3>2. target[d] = m
        BY <2>1, <3>1 DEF UniqueContent
    <3> QED
        BY <1>1, <1>2, <3>2 DEF HalfDone
  <2>2. CASE content[m] # content[target[d]]
    BY <1>1, <2>2 DEF Backed, HalfDone
  <2> QED
    BY <2>1, <2>2
<1> QED
    BY <1>4, <1>5, <1>6, <1>7, <1>8, <1>9, <1>10

\* The row goes, or its DELETE fails and leaves the deletion half done.
LEMMA RemoveKeeps ==
    ASSUME HubInv, TypeOK', NEW d \in Moderations, mphase[d] = "remove", UNCHANGED uploadVars,
           NEW p \in {"204", "resolve", "500"}, GotoM(d, p),
           p = "resolve" => op[d] = "resolve",
           \/ DeleteMaterial(target[d])
           \/ p = "500" /\ UNCHANGED <<status, flag>>,
           UNCHANGED <<content, objects, contended, op, target, about>>
    PROVE  HubInv'
<1> USE DEF HubInv, TypeOK, TablesTypeOK, UploadTypeOK, ModerationTypeOK, uploadVars, GotoM
<1>1. target[d] \in Uploads /\ op[d] \in {"reject", "resolve"} /\ d \in Deleting(target[d])
    BY DEF TargetsKnown, Deleting
<1>2. /\ \A m \in Uploads : status'[m] = "absent" <=> status[m] = "absent"
      /\ Rows' = Rows \/ Rows' = Rows \ {target[d]}
      /\ p # "500" => Rows' = Rows \ {target[d]}
      /\ \A f \in Flags : flag[f] # "absent" => flag'[f] # "absent"
    BY <1>1 DEF DeleteMaterial, Rows, RowStatus, KnownFlags
<1>3. \A m \in Uploads : Deleting(m)' = Deleting(m) \ {d}
    BY DEF Deleting
<1>4. RowsComeFromCreate'
    BY <1>2 DEF RowsComeFromCreate
<1>5. TargetsKnown'
    BY <1>1, <1>2 DEF TargetsKnown, KnownMaterials, KnownFlags
<1>6. UniqueContent'
    BY <1>2 DEF UniqueContent
<1>7. LoneUpload'
    BY <1>2, <1>3 DEF LoneUpload, ExistsByContentHash, Window
<1>8. LoneDeletion'
    BY <1>1, <1>2, <1>3 DEF LoneDeletion, Deleting
<1>9. StoredFirst'
    BY DEF StoredFirst
<1>10. Backed'
    BY <1>1, <1>2 DEF Backed, HalfDone
<1> QED
    BY <1>4, <1>5, <1>6, <1>7, <1>8, <1>9, <1>10

LEMMA ModerationKeeps ==
    ASSUME HubInv, TypeOK', NEW d \in Moderations, ModerationStep(d), UNCHANGED uploadVars
    PROVE  HubInv'
<1> USE DEF tables
<1>1. /\ status \in [Uploads -> RowStatus \cup {"absent", "deleted"}]
      /\ flag \in [Flags -> {"absent", "open", "resolved", "removed"}]
      /\ None \notin Uploads
    BY NoneAssumption DEF HubInv, TypeOK, TablesTypeOK
<1>2. CASE AskApprove(d)
    BY <1>1, <1>2, Asks DEF AskApprove, KnownMaterials
<1>3. CASE AskReject(d)
    BY <1>1, <1>3, Asks DEF AskReject, KnownMaterials
<1>4. CASE AskResolve(d)
    BY <1>1, <1>4, Asks DEF AskResolve, KnownMaterials
<1>5. CASE AskInvalid(d)
    BY <1>5, ModerationMoves DEF AskInvalid, Rows, KnownMaterials, KnownFlags
<1>6. CASE Approve(d)
  <2>1. Rows' = Rows /\ KnownMaterials' = KnownMaterials
    BY <1>1, <1>6 DEF Approve, ApproveMaterial, Rows, KnownMaterials, RowStatus
  <2> QED
    BY <1>6, <2>1, ModerationMoves DEF Approve, KnownFlags
<1>7. CASE ApproveFails(d)
  <2>1. Rows' = Rows /\ KnownMaterials' = KnownMaterials
    BY <1>1, <1>7 DEF ApproveFails, ApproveMaterial, Rows, KnownMaterials, RowStatus
  <2> QED
    BY <1>7, <2>1, ModerationMoves DEF ApproveFails, KnownFlags
<1>8. CASE Lookup(d)
    BY <1>8, LookupKeeps
<1>9. CASE LookupMisses(d)
  <2>1. op[d] \in {"reject", "resolve"}
    BY <1>9 DEF LookupMisses, HubInv, TargetsKnown
  <2> QED
    BY <1>9, <2>1, ModerationMoves DEF LookupMisses, Rows, KnownMaterials, KnownFlags
<1>10. CASE Purge(d)
    BY <1>10, PurgeKeeps
<1>11. CASE Remove(d)
  <2>1. op[d] \in {"reject", "resolve"}
    BY <1>11 DEF Remove, HubInv, TargetsKnown
  <2> QED
    BY <1>11, <2>1, RemoveKeeps DEF Remove
<1>12. CASE RemoveFails(d)
    BY <1>12, RemoveKeeps DEF RemoveFails
<1>13. CASE Resolve(d)
  <2>1. KnownFlags' = KnownFlags
    BY <1>1, <1>13 DEF Resolve, ResolveFlag, KnownFlags
  <2> QED
    BY <1>13, <2>1, ModerationMoves DEF Resolve, Rows, KnownMaterials
<1>14. CASE ResolveFails(d)
  <2>1. KnownFlags' = KnownFlags
    BY <1>1, <1>14 DEF ResolveFails, ResolveFlag, KnownFlags
  <2> QED
    BY <1>14, <2>1, ModerationMoves DEF ResolveFails, Rows, KnownMaterials
<1> QED
    BY <1>2, <1>3, <1>4, <1>5, <1>6, <1>7, <1>8, <1>9, <1>10, <1>11, <1>12, <1>13, <1>14
    DEF ModerationStep

-----------------------------------------------------------------------------
(* The invariant *)

LEMMA HubInvInit == Init => HubInv
<1> SUFFICES ASSUME Init
             PROVE  HubInv
    OBVIOUS
<1>1. TypeOK
    BY TypeInit
<1> USE DEF Init, TablesInit, UploadInit, ModerationInit
<1>2. Rows = {} /\ Window = {} /\ \A m \in Uploads : Deleting(m) = {}
    BY DEF Rows, RowStatus, Window, Deleting
<1>3. RowsComeFromCreate /\ TargetsKnown
    BY DEF RowsComeFromCreate, TargetsKnown
<1>4. UniqueContent /\ LoneUpload /\ LoneDeletion /\ StoredFirst /\ Backed
    BY <1>2 DEF UniqueContent, LoneUpload, LoneDeletion, StoredFirst, Backed
<1> QED
    BY <1>1, <1>3, <1>4 DEF HubInv

LEMMA HubInvStep == HubInv /\ [Next]_vars => HubInv'
<1> SUFFICES ASSUME HubInv, [Next]_vars
             PROVE  HubInv'
    OBVIOUS
<1>1. TypeOK'
    BY TypeStep DEF HubInv
<1>2. CASE \E u \in Uploads : UploadStep(u) /\ UNCHANGED moderationVars
    BY <1>1, <1>2, UploadKeeps
<1>3. CASE \E d \in Moderations : ModerationStep(d) /\ UNCHANGED uploadVars
    BY <1>1, <1>3, ModerationKeeps
<1>4. CASE \E f \in Flags : CreateFlag(f) /\ UNCHANGED uploadVars
  <2>1. /\ \A f \in Flags : flag[f] # "absent" => flag'[f] # "absent"
        /\ UNCHANGED <<content, status, objects, contended, uploadVars, moderationVars>>
    BY <1>4 DEF HubInv, TypeOK, TablesTypeOK, CreateFlag, InsertFlag
  <2>2. TargetsKnown'
    BY <2>1 DEF HubInv, TargetsKnown, KnownMaterials, KnownFlags, moderationVars
  <2>3. UNCHANGED <<RowsComeFromCreate, UniqueContent, LoneUpload, LoneDeletion,
                    StoredFirst, Backed>>
    BY <2>1 DEF RowsComeFromCreate, UniqueContent, LoneUpload, LoneDeletion, StoredFirst,
                Backed, Rows, Window, Deleting, HalfDone, ExistsByContentHash,
                uploadVars, moderationVars
  <2> QED
    BY <1>1, <2>2, <2>3 DEF HubInv
<1>5. CASE Crash
  <2> USE DEF HubInv, TypeOK, TablesTypeOK, UploadTypeOK, ModerationTypeOK, tables
  <2>1. /\ UNCHANGED <<content, status, flag, objects, contended, op, target, about>>
        /\ phase' = [u \in Uploads |-> IF phase[u] \in UploadCalls THEN "lost" ELSE phase[u]]
        /\ mphase' = [d \in Moderations |->
                        IF mphase[d] \in ModerationCalls THEN "lost" ELSE mphase[d]]
    BY <1>5 DEF Crash, UploadsLost, ModerationsLost
  <2>2. Window' = {} /\ \A m \in Uploads : Deleting(m)' = {}
    BY <2>1 DEF Window, Deleting, UploadCalls, ModerationCalls
  <2>3. RowsComeFromCreate' /\ StoredFirst'
    BY <2>1 DEF RowsComeFromCreate, StoredFirst, UploadCalls
  <2>4. TargetsKnown'
    BY <2>1 DEF TargetsKnown, KnownMaterials, KnownFlags, ModerationCalls
  <2>5. UniqueContent' /\ LoneUpload' /\ LoneDeletion'
    BY <2>1, <2>2 DEF UniqueContent, LoneUpload, LoneDeletion, Rows
  <2>6. Backed'
    BY <2>1 DEF Backed, Rows, HalfDone, ModerationCalls
  <2> QED
    BY <1>1, <2>3, <2>4, <2>5, <2>6
<1>6. CASE UNCHANGED vars
  <2>1. UNCHANGED <<RowsComeFromCreate, TargetsKnown, UniqueContent, LoneUpload, LoneDeletion,
                    StoredFirst, Backed>>
    BY <1>6 DEF RowsComeFromCreate, TargetsKnown, UniqueContent, LoneUpload, LoneDeletion,
                StoredFirst, Backed, Rows, Window, Deleting, HalfDone, KnownMaterials,
                KnownFlags, ExistsByContentHash, vars, tables, uploadVars, moderationVars
  <2> QED
    BY <1>1, <2>1 DEF HubInv
<1> QED
    BY <1>2, <1>3, <1>4, <1>5, <1>6 DEF Next, HubStep

\* In every state the hub reaches: the variables have their types, the rows
\* carry distinct contents, and uploads and deletions nobody interfered with
\* are alone with their content.
THEOREM HubInvariant == Spec => []HubInv
<1> QED
    BY HubInvInit, HubInvStep, PTL DEF Spec

\* Type correctness of the whole hub.
THEOREM TypeCorrect == Spec => []TypeOK
<1>1. HubInv => TypeOK
    BY DEF HubInv
<1> QED
    BY <1>1, HubInvariant, PTL

\* materials never holds two rows with the same content_hash.
THEOREM ContentIsUnique == Spec => []UniqueContent
<1>1. HubInv => UniqueContent
    BY DEF HubInv
<1> QED
    BY <1>1, HubInvariant, PTL

\* A row without its object is explained by a half-done deletion or by two
\* requests that worked on one content at once, whatever fails.
THEOREM RowsAreBacked == Spec => []Backed
<1>1. HubInv => Backed
    BY DEF HubInv
<1> QED
    BY <1>1, HubInvariant, PTL

=============================================================================
