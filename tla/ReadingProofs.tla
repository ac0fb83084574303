---------------------------- MODULE ReadingProofs ----------------------------
(***************************************************************************)
(* Proofs about rows, objects and the links handed out for them: why a     *)
(* link may lead nowhere, which objects no row owns, and that the link to  *)
(* a deleted material dies with it.                                        *)
(***************************************************************************)
EXTENDS AnswerProofs, Reading

-----------------------------------------------------------------------------
(* Readers do not disturb the hub *)

LEMMA ReadingStepIsHubStep == [ReadingNext]_allVars => [Next]_vars
BY DEF ReadingNext, allVars, Next

\* A hub that is read from is a hub: what is proved of MaterialHub holds of it.
THEOREM ReadingImplementsHub == ReadingSpec => Spec
<1>1. ReadingInit => Init
    BY DEF ReadingInit
<1> QED
    BY <1>1, ReadingStepIsHubStep, PTL DEF ReadingSpec, Spec

\* What a reader was asked for is a row, or was one.
LinksKnown ==
    \A r \in Readers :
        rphase[r] \notin {"idle", "400"} => wanted[r] \in KnownMaterials

ReadingInv == ReadingTypeOK /\ LinksKnown /\ MissExplained

LEMMA KnownStays ==
    ASSUME HubInv, [Next]_vars
    PROVE  KnownMaterials \subseteq KnownMaterials'
<1>1. RowMove /\ status \in [Uploads -> RowStatus \cup {"absent", "deleted"}]
    BY OneRowMoves DEF HubInv, TypeOK, TablesTypeOK
<1> QED
    BY <1>1 DEF RowMove, RowInserted, RowApproved, RowDeleted, Rows, RowStatus, KnownMaterials

\* A half-done deletion stays half done, or its row is gone.
LEMMA HalfDoneStays ==
    ASSUME HubInv, [Next]_vars, NEW d \in Moderations, NEW m \in KnownMaterials,
           target[d] = m, HalfDone(d)
    PROVE  status'[m] = "deleted" \/ (target'[d] = m /\ HalfDone(d)')
<1> USE DEF HubInv, TypeOK, TablesTypeOK, ModerationTypeOK
<1>1. CASE UNCHANGED moderationVars
    BY <1>1 DEF moderationVars, HalfDone
<1>2. CASE Crash
    BY <1>2 DEF Crash, ModerationsLost, HalfDone, ModerationCalls
<1>3. ASSUME NEW e \in Moderations, ModerationStep(e)
      PROVE  status'[m] = "deleted" \/ (target'[d] = m /\ HalfDone(d)')
  <2>1. CASE e # d
    BY <1>3, <2>1, Bystander DEF HalfDone
  <2>2. CASE Remove(d)
    BY <2>2 DEF Remove, DeleteMaterial, KnownMaterials
  <2>3. CASE RemoveFails(d)
    BY <2>3 DEF RemoveFails, HalfDone, GotoM
  <2>4. CASE e = d /\ ~Remove(d) /\ ~RemoveFails(d)
    BY <1>3, <2>4 DEF HalfDone, ModerationStep, AskApprove, AskReject, AskResolve, AskInvalid,
        Ask, Approve, ApproveFails, Lookup, LookupMisses, Purge, Resolve, ResolveFails
  <2> QED
    BY <1>3, <2>1, <2>2, <2>3, <2>4
<1> QED
    BY <1>1, <1>2, <1>3 DEF Next, HubStep, CreateFlag, vars

\* What explains a miss goes on explaining it.
LEMMA ExplanationStays ==
    ASSUME HubInv, [Next]_vars, ReadingInv, NEW r \in Readers, rphase[r] = "missed"
    PROVE  \/ status'[wanted[r]] = "deleted"
           \/ content'[wanted[r]] \in contended'
           \/ \E d \in Moderations : target'[d] = wanted[r] /\ HalfDone(d)'
<1>1. wanted[r] \in KnownMaterials /\ wanted[r] \in Uploads
    BY DEF ReadingInv, LinksKnown, KnownMaterials
<1>2. CASE status[wanted[r]] = "deleted"
    BY <1>1, <1>2, DeletedStays
<1>3. CASE content[wanted[r]] \in contended
    BY <1>3, ContendedGrows, OneRowMoves
<1>4. ASSUME NEW d \in Moderations, target[d] = wanted[r], HalfDone(d)
      PROVE  status'[wanted[r]] = "deleted" \/ (target'[d] = wanted[r] /\ HalfDone(d)')
    BY <1>1, <1>4, HalfDoneStays
<1> QED
    BY <1>2, <1>3, <1>4 DEF ReadingInv, MissExplained

LEMMA ReaderKeeps ==
    ASSUME HubInv, ReadingInv, NEW r \in Readers, ReaderStep(r), UNCHANGED vars
    PROVE  ReadingInv'
<1> USE DEF ReadingInv, ReadingTypeOK, ReaderCalls, ReaderAnswers
<1>1. /\ UNCHANGED <<content, status, objects, contended>>
      /\ KnownMaterials' = KnownMaterials
      /\ \A d \in Moderations : target'[d] = target[d] /\ HalfDone(d)' = HalfDone(d)
    BY DEF vars, tables, moderationVars, KnownMaterials, HalfDone
<1>2. ReadingTypeOK'
    BY DEF ReaderStep, AskDetail, GetByID, PresignedGetURL, Follow, GotoR, KnownMaterials
<1>3. LinksKnown'
    BY <1>1 DEF LinksKnown, ReaderStep, AskDetail, GetByID, PresignedGetURL, Follow, GotoR
<1>4. MissExplained'
  <2> SUFFICES ASSUME NEW s \in Readers, rphase'[s] = "missed"
               PROVE  \/ status[wanted'[s]] = "deleted"
                      \/ content[wanted'[s]] \in contended
                      \/ \E d \in Moderations : target[d] = wanted'[s] /\ HalfDone(d)
    BY <1>1 DEF MissExplained
  <2>1. CASE rphase[s] = "missed" /\ wanted'[s] = wanted[s]
    BY <2>1 DEF MissExplained
  <2>2. CASE s = r /\ Follow(r)
    <3>1. wanted' = wanted /\ content[wanted[r]] \notin objects /\ wanted[r] \in KnownMaterials
        BY <2>2 DEF Follow, GotoR, LinksKnown
    <3>2. CASE wanted[r] \in Rows
        BY <2>2, <3>1, <3>2 DEF HubInv, Backed
    <3>3. CASE wanted[r] \notin Rows
        BY <2>2, <3>1, <3>3 DEF HubInv, TypeOK, TablesTypeOK, KnownMaterials, Rows
    <3> QED
        BY <3>2, <3>3
  <2>3. CASE s # r \/ ~Follow(r)
    BY <2>1, <2>3 DEF ReaderStep, AskDetail, GetByID, PresignedGetURL, Follow, GotoR
  <2> QED
    BY <2>1, <2>2, <2>3
<1> QED
    BY <1>2, <1>3, <1>4

LEMMA ReadingInvStep == HubInv /\ ReadingInv /\ [ReadingNext]_allVars => ReadingInv'
<1> SUFFICES ASSUME HubInv, ReadingInv, [ReadingNext]_allVars
             PROVE  ReadingInv'
    OBVIOUS
<1>1. [Next]_vars
    BY ReadingStepIsHubStep
<1>2. CASE \E r \in Readers : ReaderStep(r) /\ UNCHANGED vars
    BY <1>2, ReaderKeeps
<1>3. CASE UNCHANGED wanted /\ (UNCHANGED rphase \/ ReadersLost)
  <2>1. ReadingTypeOK'
    BY <1>3 DEF ReadingInv, ReadingTypeOK, ReadersLost, ReaderCalls, ReaderAnswers
  <2>2. LinksKnown'
    BY <1>1, <1>3, KnownStays DEF ReadingInv, LinksKnown, ReadersLost, ReadingTypeOK, ReaderCalls
  <2>3. \A r \in Readers : rphase'[r] = "missed" => rphase[r] = "missed"
    BY <1>3 DEF ReadersLost
  <2>4. MissExplained'
    BY <1>1, <1>3, <2>3, ExplanationStays DEF MissExplained
  <2> QED
    BY <2>1, <2>2, <2>4 DEF ReadingInv
<1> QED
    BY <1>2, <1>3 DEF ReadingNext, readingVars, allVars

\* A link that leads nowhere names a material that was deleted, whose deletion
\* is half done, or that two requests raced for; whatever fails.
THEOREM MissesExplained == ReadingSpec => []MissExplained
<1>1. ReadingInit => ReadingInv
    BY DEF ReadingInit, ReadingInv, ReadingTypeOK, LinksKnown, MissExplained
<1>2. ReadingInv => MissExplained
    BY DEF ReadingInv
<1> QED
    BY <1>1, <1>2, ReadingInvStep, ReadingImplementsHub, HubInvariant, PTL DEF ReadingSpec

-----------------------------------------------------------------------------
(* Objects without rows *)

\* Uploads past their Put that inserted no row, as far as they know.
Storing(c) == {u \in Uploads : content[u] = c /\ phase[u] \in {"create", "500", "lost"}}
Answered(c) == {u \in Uploads : content[u] = c /\ phase[u] = "201"}

\* A deletion that is past the object finds it again only when another upload
\* stored it since, and so does a link to what was deleted.
OrphanInv ==
    /\ OrphanAccounted
    /\ \A d \in Moderations :
        mphase[d] = "remove" /\ target[d] \in Rows /\ content[target[d]] \in objects =>
            Storing(content[target[d]]) \ {target[d]} # {}
    /\ \A m \in Uploads :
        status[m] = "deleted" /\ content[m] \in objects =>
            (Storing(content[m]) \cup Answered(content[m])) \ {m} # {}

\* The steps that add neither object nor row, take no row and break no upload off.
LEMMA OrphanCalm ==
    ASSUME OrphanInv, UNCHANGED content, Rows' = Rows, objects' \subseteq objects,
           \A m \in Uploads : status'[m] = "deleted" => status[m] = "deleted",
           \A u \in Uploads :
                /\ phase[u] \in {"create", "500", "lost"} =>
                        phase'[u] \in {"create", "500", "lost"}
                /\ phase[u] = "201" => phase'[u] = "201",
           \A d \in Moderations :
                mphase'[d] = "remove" =>
                    \/ mphase[d] = "remove" /\ target'[d] = target[d]
                    \/ content[target'[d]] \notin objects'
    PROVE  OrphanInv'
<1>2. OrphanAccounted'
    BY DEF OrphanInv, OrphanAccounted
<1>3. ASSUME NEW d \in Moderations, NEW m, m = target'[d], mphase'[d] = "remove",
             m \in Rows, content[m] \in objects'
      PROVE  Storing(content[m])' \ {m} # {}
  <2>1. mphase[d] = "remove" /\ target[d] = m
    BY <1>3
  <2>2. Storing(content[m]) \ {m} # {}
    BY <1>3, <2>1 DEF OrphanInv
  <2>3. Storing(content[m]) \subseteq Storing(content[m])'
    BY DEF Storing
  <2> QED
    BY <2>2, <2>3
<1>4. ASSUME NEW m \in Uploads, status'[m] = "deleted", content'[m] \in objects'
      PROVE  (Storing(content[m])' \cup Answered(content[m])') \ {m} # {}
  <2>1. (Storing(content[m]) \cup Answered(content[m])) \ {m} # {}
    BY <1>4 DEF OrphanInv
  <2>2. /\ Storing(content[m]) \subseteq Storing(content[m])'
        /\ Answered(content[m]) \subseteq Answered(content[m])'
    BY DEF Storing, Answered
  <2> QED
    BY <2>1, <2>2
<1>5. ASSUME NEW d \in Moderations, mphase'[d] = "remove", target'[d] \in Rows',
             content'[target'[d]] \in objects'
      PROVE  (Storing(content[target[d]]) \ {target[d]} # {})'
    BY <1>3, <1>5
<1> QED
    BY <1>2, <1>4, <1>5 DEF OrphanInv

LEMMA OrphanPut ==
    ASSUME HubInv, OrphanInv, NEW u \in Uploads, phase[u] = "put", phase' = [phase EXCEPT ![u] = "create"],
           objects' = objects \cup {content[u]},
           UNCHANGED <<content, status, moderationVars>>
    PROVE  OrphanInv'
<1> USE DEF HubInv, TypeOK, UploadTypeOK, moderationVars
<1>1. status[u] = "absent" /\ Rows' = Rows /\ u \notin Rows
    BY DEF RowsComeFromCreate, UploadCalls, Rows, RowStatus
<1>2. /\ \A c : Storing(c) \subseteq Storing(c)' /\ Answered(c) \subseteq Answered(c)'
      /\ u \in Storing(content[u])'
    BY DEF Storing, Answered
<1>3. OrphanAccounted'
    BY <1>1 DEF OrphanInv, OrphanAccounted
<1>4. ASSUME NEW d \in Moderations, mphase[d] = "remove", target[d] \in Rows,
             content[target[d]] \in objects'
      PROVE  Storing(content[target[d]])' \ {target[d]} # {}
  <2>1. CASE content[target[d]] = content[u]
    BY <1>1, <1>2, <1>4, <2>1
  <2>2. CASE content[target[d]] # content[u]
    BY <1>2, <1>4, <2>2 DEF OrphanInv
  <2> QED
    BY <2>1, <2>2
<1>5. ASSUME NEW m \in Uploads, status[m] = "deleted", content[m] \in objects'
      PROVE  (Storing(content[m])' \cup Answered(content[m])') \ {m} # {}
  <2>1. CASE content[m] = content[u]
    BY <1>1, <1>2, <1>5, <2>1
  <2>2. CASE content[m] # content[u]
    BY <1>2, <1>5, <2>2 DEF OrphanInv
  <2> QED
    BY <2>1, <2>2
<1> QED
    BY <1>1, <1>3, <1>4, <1>5 DEF OrphanInv, Storing, Answered

LEMMA OrphanInsert ==
    ASSUME HubInv, OrphanInv, NEW u \in Uploads, phase[u] = "create",
           NEW p \in {"201", "500"}, Goto(u, p),
           ~ExistsByContentHash(content[u]), InsertMaterial(u),
           UNCHANGED <<content, objects, moderationVars>>
    PROVE  OrphanInv'
<1> USE DEF HubInv, TypeOK, UploadTypeOK, TablesTypeOK, moderationVars
<1>1. /\ status[u] = "absent" /\ u \notin Rows /\ Rows' = Rows \cup {u}
      /\ \A m \in Rows : content[m] # content[u]
    BY DEF RowsComeFromCreate, UploadCalls, Rows, RowStatus, InsertMaterial, ExistsByContentHash
<1>2. /\ \A c : c # content[u] => Storing(c) \subseteq Storing(c)'
      /\ \A c : Storing(c) \cup Answered(c) \subseteq Storing(c)' \cup Answered(c)'
    BY DEF Storing, Answered, Goto
<1>3. OrphanAccounted'
    BY <1>1 DEF OrphanInv, OrphanAccounted, Goto
<1>4. ASSUME NEW d \in Moderations, mphase[d] = "remove", target[d] \in Rows',
             content[target[d]] \in objects
      PROVE  Storing(content[target[d]])' \ {target[d]} # {}
  <2>1. target[d] \in KnownMaterials
    BY <1>4 DEF TargetsKnown
  <2>2. target[d] # u /\ target[d] \in Rows
    BY <1>1, <1>4, <2>1 DEF KnownMaterials
  <2>3. content[target[d]] # content[u]
    BY <1>1, <2>2
  <2>4. Storing(content[target[d]]) \ {target[d]} # {}
    BY <1>4, <2>2 DEF OrphanInv
  <2> QED
    BY <1>2, <2>3, <2>4
<1>5. ASSUME NEW m \in Uploads, status'[m] = "deleted", content[m] \in objects
      PROVE  (Storing(content[m])' \cup Answered(content[m])') \ {m} # {}
  <2>1. status[m] = "deleted"
    BY <1>1, <1>5 DEF InsertMaterial
  <2> QED
    BY <1>2, <1>5, <2>1 DEF OrphanInv
<1> QED
    BY <1>3, <1>4, <1>5 DEF OrphanInv, Storing, Answered

LEMMA OrphanRemove ==
    ASSUME HubInv, OrphanInv, NEW d \in Moderations, mphase[d] = "remove",
           NEW p \in {"204", "resolve", "500"}, GotoM(d, p), DeleteMaterial(target[d]),
           UNCHANGED <<content, objects, uploadVars, target>>
    PROVE  OrphanInv'
<1> USE DEF HubInv, TypeOK, TablesTypeOK, ModerationTypeOK, uploadVars
<1>1. Rows' = Rows \ {target[d]} /\ target[d] \in Uploads
    BY DEF DeleteMaterial, Rows, RowStatus, TargetsKnown, KnownMaterials
<1>2. \A c : Storing(c)' = Storing(c) /\ Answered(c)' = Answered(c)
    BY DEF Storing, Answered
<1>3. OrphanAccounted'
  <2> SUFFICES ASSUME NEW c \in objects
               PROVE  (\E m \in Rows' : content[m] = c) \/ Storing(c) # {}
    BY DEF OrphanAccounted, Storing
  <2>1. CASE \E m \in Rows \ {target[d]} : content[m] = c
    BY <1>1, <2>1
  <2>2. CASE target[d] \in Rows /\ content[target[d]] = c
    BY <2>2 DEF OrphanInv
  <2>3. CASE \A m \in Rows : content[m] # c
    BY <2>3 DEF OrphanInv, OrphanAccounted, Storing
  <2> QED
    BY <2>1, <2>2, <2>3
<1>4. ASSUME NEW e \in Moderations, mphase'[e] = "remove", target[e] \in Rows',
             content[target[e]] \in objects
      PROVE  Storing(content[target[e]]) \ {target[e]} # {}
  <2>1. mphase[e] = "remove" /\ target[e] \in Rows
    BY <1>1, <1>4 DEF GotoM
  <2> QED
    BY <1>4, <2>1 DEF OrphanInv
<1>5. ASSUME NEW m \in Uploads, status'[m] = "deleted", content[m] \in objects
      PROVE  (Storing(content[m]) \cup Answered(content[m])) \ {m} # {}
  <2>1. status[m] = "deleted" \/ (m = target[d] /\ m \in Rows)
    BY <1>5 DEF DeleteMaterial, Rows
  <2> QED
    BY <1>5, <2>1 DEF OrphanInv
<1> QED
    BY <1>2, <1>3, <1>4, <1>5 DEF OrphanInv

LEMMA OrphanUpload ==
    ASSUME HubInv, OrphanInv, "store" \notin Faults, NEW u \in Uploads, UploadStep(u),
           UNCHANGED moderationVars
    PROVE  OrphanInv'
<1> USE DEF HubInv, TypeOK, UploadTypeOK, tables, moderationVars
<1>1. CASE Receive(u) \/ Check(u) \/ CheckFails(u) \/ CourseRefused(u)
  <2>1. /\ phase[u] \in {"idle", "check", "course"} /\ (\E p : Goto(u, p))
        /\ UNCHANGED <<content, status, objects>>
    BY <1>1 DEF Receive, Check, CheckFails, CourseRefused
  <2> QED
    BY <2>1, OrphanCalm DEF Goto, Rows
<1>2. CASE CourseById(u) \/ CourseByName(u) \/ CourseFails(u)
  <2>1. /\ phase[u] = "course" /\ (\E p : Goto(u, p))
        /\ UNCHANGED <<content, status, objects>>
    BY <1>2 DEF CourseById, CourseByName, CourseFails, Validate
  <2> QED
    BY <2>1, OrphanCalm DEF Goto, Rows
<1>3. CASE Put(u)
    BY <1>3, OrphanPut DEF Put, PutObject, Goto
<1>4. CASE PutFails(u)
  <2>1. phase[u] = "put" /\ Goto(u, "500") /\ UNCHANGED <<content, status, objects>>
    BY <1>4 DEF PutFails
  <2> QED
    BY <2>1, OrphanCalm DEF Goto, Rows
<1>5. CASE Create(u) \/ CreateFails(u)
  <2>1. CASE ~ExistsByContentHash(content[u]) /\ InsertMaterial(u)
    <3>1. /\ phase[u] = "create" /\ (\E p \in {"201", "500"} : Goto(u, p))
          /\ UNCHANGED <<content, objects>>
        BY <1>5 DEF Create, CreateFails
    <3> QED
        BY <2>1, <3>1, OrphanInsert
  <2>2. CASE UNCHANGED status /\ Goto(u, "500")
    <3>1. phase[u] = "create" /\ UNCHANGED <<content, objects>>
        BY <1>5 DEF Create, CreateFails
    <3> QED
        BY <2>2, <3>1, OrphanCalm DEF Goto, Rows
  <2> QED
    BY <1>5, <2>1, <2>2 DEF Create, CreateFails, Insertable
<1> QED
    BY <1>1, <1>2, <1>3, <1>4, <1>5 DEF UploadStep

LEMMA OrphanModeration ==
    ASSUME HubInv, OrphanInv, "store" \notin Faults, NEW d \in Moderations,
           ModerationStep(d), UNCHANGED uploadVars
    PROVE  OrphanInv'
<1> USE DEF HubInv, TypeOK, TablesTypeOK, ModerationTypeOK, tables, uploadVars
<1>1. CASE AskApprove(d) \/ AskReject(d) \/ AskResolve(d) \/ AskInvalid(d)
  <2>1. /\ UNCHANGED <<content, status, objects>> /\ mphase[d] = "idle"
        /\ mphase'[d] # "remove"
        /\ \A e \in Moderations \ {d} : mphase'[e] = mphase[e] /\ target'[e] = target[e]
    BY <1>1 DEF AskApprove, AskReject, AskResolve, AskInvalid, Ask, GotoM
  <2> QED
    BY <2>1, OrphanCalm DEF Rows
<1>2. CASE Approve(d) \/ ApproveFails(d)
  <2>1. /\ UNCHANGED <<content, objects, target>> /\ (\E p \in {"204", "500"} : GotoM(d, p))
        /\ ApproveMaterial(target[d]) \/ UNCHANGED status
    BY <1>2 DEF Approve, ApproveFails
  <2>2. Rows' = Rows /\ \A m \in Uploads : status'[m] = "deleted" => status[m] = "deleted"
    BY <2>1 DEF ApproveMaterial, Rows, RowStatus
  <2> QED
    BY <2>1, <2>2, OrphanCalm DEF GotoM
<1>3. CASE Lookup(d) \/ LookupMisses(d) \/ Resolve(d) \/ ResolveFails(d)
  <2>1. /\ UNCHANGED <<content, status, objects, target>>
        /\ \E p : p # "remove" /\ GotoM(d, p)
    BY <1>3 DEF Lookup, LookupMisses, Resolve, ResolveFails
  <2> QED
    BY <2>1, OrphanCalm DEF GotoM, Rows
<1>4. CASE Purge(d)
  <2>1. /\ UNCHANGED <<content, status, target>> /\ GotoM(d, "remove")
        /\ objects' = objects \ {content[target[d]]}
    BY <1>4 DEF Purge, RemoveObject
  <2> QED
    BY <2>1, OrphanCalm DEF GotoM, Rows
<1>5. CASE Remove(d) \/ RemoveFails(d)
  <2>1. /\ mphase[d] = "remove" /\ UNCHANGED <<content, objects, target>>
        /\ \E p \in {"204", "resolve", "500"} : GotoM(d, p)
    BY <1>5 DEF Remove, RemoveFails
  <2>2. CASE DeleteMaterial(target[d])
    BY <2>1, <2>2, OrphanRemove
  <2>3. CASE UNCHANGED status
    BY <2>1, <2>3, OrphanCalm DEF GotoM, Rows
  <2> QED
    BY <1>5, <2>2, <2>3 DEF Remove, RemoveFails
<1> QED
    BY <1>1, <1>2, <1>3, <1>4, <1>5 DEF ModerationStep

LEMMA OrphanStep ==
    ASSUME HubInv, OrphanInv, "store" \notin Faults, [Next]_vars
    PROVE  OrphanInv'
<1>1. CASE UNCHANGED <<content, status, objects, uploadVars, moderationVars>>
    BY <1>1, OrphanCalm DEF uploadVars, moderationVars, Rows
<1>2. CASE Crash
  <2>1. /\ UNCHANGED <<content, status, objects, target>>
        /\ phase' = [u \in Uploads |-> IF phase[u] \in UploadCalls THEN "lost" ELSE phase[u]]
        /\ mphase' = [d \in Moderations |->
                        IF mphase[d] \in ModerationCalls THEN "lost" ELSE mphase[d]]
    BY <1>2 DEF Crash, UploadsLost, ModerationsLost, tables
  <2> QED
    BY <2>1, OrphanCalm DEF Rows, ModerationCalls, UploadCalls
<1> QED
    BY <1>1, <1>2, OrphanUpload, OrphanModeration DEF Next, HubStep, CreateFlag, vars, tables

LEMMA OrphanInit == Init => OrphanInv
BY DEF Init, TablesInit, UploadInit, ModerationInit, OrphanInv, OrphanAccounted

\* While the bucket works, an object without a row was left by an upload that
\* stored it and was refused, broken off or is under way.
THEOREM OrphansAccounted ==
    ASSUME "store" \notin Faults
    PROVE  Spec => []OrphanAccounted
<1>1. HubInv /\ OrphanInv /\ [Next]_vars => OrphanInv'
    BY OrphanStep
<1>2. OrphanInv => OrphanAccounted
    BY DEF OrphanInv
<1> QED
    BY <1>1, <1>2, OrphanInit, HubInvariant, PTL DEF Spec

\* While the bucket works, the link to a deleted material leads nowhere unless
\* the file was uploaded again.
THEOREM LinksDie ==
    ASSUME "store" \notin Faults
    PROVE  ReadingSpec => LinkDies
<1> DEFINE Dies == \A r \in Readers :
                rphase'[r] = "opened" /\ rphase[r] = "200" /\ status[wanted[r]] = "deleted" =>
                    \E u \in Uploads \ {wanted[r]} :
                        /\ content[u] = content[wanted[r]]
                        /\ phase[u] \in {"create", "201", "500", "lost"}
<1>1. HubInv /\ OrphanInv /\ [Next]_vars => OrphanInv'
    BY OrphanStep
<1>2. ReadingInit => OrphanInv
    BY OrphanInit DEF ReadingInit
<1>3. ReadingInv /\ OrphanInv /\ [ReadingNext]_allVars => [Dies]_allVars
  <2> SUFFICES ASSUME ReadingInv, OrphanInv, [ReadingNext]_allVars, NEW r \in Readers,
                      rphase'[r] = "opened", rphase[r] = "200", status[wanted[r]] = "deleted"
               PROVE  \E u \in Uploads \ {wanted[r]} :
                        /\ content[u] = content[wanted[r]]
                        /\ phase[u] \in {"create", "201", "500", "lost"}
    OBVIOUS
  <2>1. rphase \in [Readers -> ReaderCalls \cup ReaderAnswers \cup {"idle", "opened", "missed"}]
    BY DEF ReadingInv, ReadingTypeOK
  <2>2. wanted[r] \in Uploads
    BY DEF ReadingInv, LinksKnown, KnownMaterials
  <2>3. PICK s \in Readers : ReaderStep(s)
    BY DEF ReadingNext, ReadersLost, readingVars, allVars, ReaderCalls
  <2>4. s = r /\ Follow(r)
    BY <2>1, <2>3 DEF ReaderStep, AskDetail, GetByID, PresignedGetURL, Follow, GotoR
  <2>5. content[wanted[r]] \in objects
    BY <2>1, <2>4 DEF Follow, GotoR
  <2> QED
    BY <2>2, <2>5 DEF OrphanInv, Storing, Answered
<1>4. ReadingInit => ReadingInv
    BY DEF ReadingInit, ReadingInv, ReadingTypeOK, LinksKnown, MissExplained
<1> QED
    BY <1>1, <1>2, <1>3, <1>4, ReadingInvStep, ReadingStepIsHubStep, ReadingImplementsHub,
       HubInvariant, PTL DEF ReadingSpec, LinkDies

=============================================================================
