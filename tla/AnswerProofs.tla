----------------------------- MODULE AnswerProofs -----------------------------
(***************************************************************************)
(* Proofs of what the answers of the moderation endpoints promise, and of  *)
(* the foreign key from flags to materials.                                *)
(***************************************************************************)
EXTENDS CatalogueProofs

-----------------------------------------------------------------------------
(* Rejected materials stay gone *)

LEMMA DeletedStays ==
    ASSUME HubInv, [Next]_vars, NEW m \in Uploads, status[m] = "deleted"
    PROVE  status'[m] = "deleted"
<1>1. RowMove /\ status \in [Uploads -> RowStatus \cup {"absent", "deleted"}]
    BY OneRowMoves DEF HubInv, TypeOK, TablesTypeOK
<1> QED
    BY <1>1 DEF RowMove, RowInserted, RowApproved, RowDeleted, Rows, RowStatus

LEMMA RejectDeletesStep == HubInv /\ RejectDeletes /\ [Next]_vars => RejectDeletes'
<1> SUFFICES ASSUME HubInv, RejectDeletes, [Next]_vars, NEW d \in Moderations,
                    op'[d] = "reject", mphase'[d] = "204"
             PROVE  target'[d] \in Uploads /\ status'[target'[d]] = "deleted"
    BY DEF RejectDeletes
<1> USE DEF HubInv, TypeOK, ModerationTypeOK, TargetsKnown
<1>1. CASE op[d] = "reject" /\ mphase[d] = "204" /\ target'[d] = target[d]
    BY <1>1, DeletedStays DEF RejectDeletes
<1>2. CASE UNCHANGED moderationVars
    BY <1>1, <1>2 DEF moderationVars
<1>3. CASE Crash
    BY <1>1, <1>3 DEF Crash, ModerationsLost
<1>4. ASSUME NEW e \in Moderations, ModerationStep(e)
      PROVE  target'[d] \in Uploads /\ status'[target'[d]] = "deleted"
  <2>1. CASE e # d
    <3>1. op'[d] = op[d] /\ mphase'[d] = mphase[d] /\ target'[d] = target[d]
        BY <1>4, <2>1 DEF ModerationStep, AskApprove, AskReject, AskResolve, AskInvalid, Ask,
            Approve, ApproveFails, Lookup, LookupMisses, Purge, Remove, RemoveFails, Resolve,
            ResolveFails, GotoM
    <3> QED
        BY <1>1, <3>1
  <2>2. CASE Remove(d)
    <3>1. target[d] \in KnownMaterials /\ target'[d] = target[d]
        BY <2>2 DEF Remove
    <3>2. DeleteMaterial(target[d])
        BY <2>2 DEF Remove
    <3> QED
        BY <3>1, <3>2 DEF DeleteMaterial, KnownMaterials, TablesTypeOK
  <2>3. CASE e = d /\ ~Remove(d)
    BY <1>1, <1>4, <2>3 DEF ModerationStep, AskApprove, AskReject, AskResolve, AskInvalid, Ask,
        Approve, ApproveFails, Lookup, LookupMisses, Purge, RemoveFails, Resolve,
        ResolveFails, GotoM
  <2> QED
    BY <2>1, <2>2, <2>3, <1>4
<1> QED
    BY <1>2, <1>3, <1>4 DEF Next, HubStep, CreateFlag, vars

\* A reject answered 204 left no row behind, for good.
THEOREM RejectIsFinal == Spec => []RejectedMeansGone
<1>1. Init => RejectDeletes
    BY DEF Init, ModerationInit, RejectDeletes
<1>2. RejectDeletes => RejectedMeansGone
    BY DEF RejectDeletes, RejectedMeansGone, Rows, RowStatus
<1> QED
    BY <1>1, <1>2, RejectDeletesStep, HubInvariant, PTL DEF Spec

-----------------------------------------------------------------------------
(* Flags and materials *)

\* A flag that is open or resolved is about a row: the foreign key admits no other,
\* and deleting a material takes its flags along.
FlagsHaveMaterial ==
    \A f \in Flags : flag[f] \in {"open", "resolved"} => flagged[f] \in Rows

LEMMA FlagsStep == HubInv /\ FlagsHaveMaterial /\ [Next]_vars => FlagsHaveMaterial'
<1> SUFFICES ASSUME HubInv, FlagsHaveMaterial, [Next]_vars
             PROVE  FlagsHaveMaterial'
    OBVIOUS
<1> USE DEF HubInv, TypeOK, TablesTypeOK, tables
<1>1. CASE UNCHANGED <<flag, flagged>> /\ Rows \subseteq Rows'
    BY <1>1 DEF FlagsHaveMaterial
<1>2. ASSUME NEW u \in Uploads, UploadStep(u)
      PROVE  FlagsHaveMaterial'
  <2>1. UNCHANGED <<flag, flagged>>
    BY <1>2 DEF UploadStep, Receive, Check, CheckFails, CourseRefused, CourseById, CourseByName,
                CourseFails, Put, PutFails, Create, CreateFails
  <2>2. UNCHANGED status \/ InsertMaterial(u)
    BY <1>2 DEF UploadStep, Receive, Check, CheckFails, CourseRefused, CourseById, CourseByName,
                CourseFails, Put, PutFails, Create, CreateFails
  <2>3. Rows \subseteq Rows'
    BY <2>2 DEF Rows, RowStatus, InsertMaterial
  <2> QED
    BY <1>1, <2>1, <2>3
<1>3. ASSUME NEW d \in Moderations, ModerationStep(d)
      PROVE  FlagsHaveMaterial'
  <2>1. CASE UNCHANGED <<flag, flagged, status>> \/ Approve(d) \/ ApproveFails(d)
    BY <1>1, <2>1 DEF Approve, ApproveFails, ApproveMaterial, Rows, RowStatus
  <2>2. CASE UNCHANGED <<status, flagged>> /\ ResolveFlag(about[d])
    BY <2>2 DEF ResolveFlag, FlagsHaveMaterial, Rows
  <2>3. CASE UNCHANGED flagged /\ DeleteMaterial(target[d])
    <3>1. \A m \in Rows : m # target[d] => m \in Rows'
        BY <2>3 DEF DeleteMaterial, Rows
    <3>2. \A f \in Flags : flag'[f] \in {"open", "resolved"} =>
                flag[f] \in {"open", "resolved"} /\ flagged[f] # target[d]
        BY <2>3 DEF DeleteMaterial, KnownFlags
    <3> QED
        BY <2>3, <3>1, <3>2 DEF FlagsHaveMaterial
  <2> QED
    BY <1>3, <2>1, <2>2, <2>3 DEF ModerationStep, AskApprove, AskReject, AskResolve, AskInvalid,
        Ask, Lookup, LookupMisses, Purge, Remove, RemoveFails, Resolve, ResolveFails
<1>4. CASE \E f \in Flags : CreateFlag(f) /\ UNCHANGED uploadVars
    BY <1>4 DEF CreateFlag, InsertFlag, FlagsHaveMaterial, Rows
<1> QED
    BY <1>1, <1>2, <1>3, <1>4 DEF Next, HubStep, Crash, vars, Rows

-----------------------------------------------------------------------------
(* Resolved flags *)

\* A moderation request leaves the others alone.
LEMMA Bystander ==
    ASSUME NEW e \in Moderations, ModerationStep(e), NEW d \in Moderations, d # e, TypeOK
    PROVE  /\ op'[d] = op[d] /\ mphase'[d] = mphase[d]
           /\ target'[d] = target[d] /\ about'[d] = about[d]
BY DEF ModerationStep, AskApprove, AskReject, AskResolve, AskInvalid, Ask, Approve,
       ApproveFails, Lookup, LookupMisses, Purge, Remove, RemoveFails, Resolve, ResolveFails,
       GotoM, TypeOK, ModerationTypeOK

LEMMA ClosedStays ==
    ASSUME HubInv, [Next]_vars, NEW f \in Flags, flag[f] \in {"resolved", "removed"}
    PROVE  flag'[f] \in {"resolved", "removed"}
<1> USE DEF HubInv, TypeOK, TablesTypeOK, tables
<1>1. CASE UNCHANGED flag
    BY <1>1
<1>2. ASSUME NEW u \in Uploads, UploadStep(u)
      PROVE  UNCHANGED flag
    BY <1>2 DEF UploadStep, Receive, Check, CheckFails, CourseRefused, CourseById, CourseByName,
                CourseFails, Put, PutFails, Create, CreateFails
<1>3. ASSUME NEW d \in Moderations, ModerationStep(d)
      PROVE  flag'[f] \in {"resolved", "removed"}
  <2>1. UNCHANGED flag \/ ResolveFlag(about[d]) \/ DeleteMaterial(target[d])
    BY <1>3 DEF ModerationStep, AskApprove, AskReject, AskResolve, AskInvalid, Ask, Approve,
        ApproveFails, Lookup, LookupMisses, Purge, Remove, RemoveFails, Resolve, ResolveFails
  <2> QED
    BY <2>1 DEF ResolveFlag, DeleteMaterial
<1>4. ASSUME NEW g \in Flags, CreateFlag(g)
      PROVE  flag'[f] \in {"resolved", "removed"}
    BY <1>4 DEF CreateFlag, InsertFlag
<1> QED
    BY <1>1, <1>2, <1>3, <1>4 DEF Next, HubStep, Crash, vars

ResolveCloses ==
    \A d \in Moderations :
        op[d] = "resolve" /\ mphase[d] = "204" =>
            about[d] \in Flags /\ flag[about[d]] \in {"resolved", "removed"}

LEMMA ResolveClosesStep == HubInv /\ ResolveCloses /\ [Next]_vars => ResolveCloses'
<1> SUFFICES ASSUME HubInv, ResolveCloses, [Next]_vars, NEW d \in Moderations,
                    op'[d] = "resolve", mphase'[d] = "204"
             PROVE  about'[d] \in Flags /\ flag'[about'[d]] \in {"resolved", "removed"}
    BY DEF ResolveCloses
<1> USE DEF HubInv, TypeOK, ModerationTypeOK, TargetsKnown
<1>1. CASE op[d] = "resolve" /\ mphase[d] = "204" /\ about'[d] = about[d]
    BY <1>1, ClosedStays DEF ResolveCloses
<1>2. CASE UNCHANGED moderationVars
    BY <1>1, <1>2 DEF moderationVars
<1>3. CASE Crash
    BY <1>1, <1>3 DEF Crash, ModerationsLost
<1>4. ASSUME NEW e \in Moderations, ModerationStep(e)
      PROVE  about'[d] \in Flags /\ flag'[about'[d]] \in {"resolved", "removed"}
  <2>1. CASE e # d
    BY <1>1, <1>4, <2>1, Bystander
  <2>2. CASE Resolve(d)
    <3>1. about[d] \in KnownFlags /\ about'[d] = about[d] /\ ResolveFlag(about[d])
        BY <2>2 DEF Resolve
    <3> QED
        BY <3>1 DEF ResolveFlag, KnownFlags, TablesTypeOK
  <2>3. CASE e = d /\ ~Resolve(d)
    BY <1>1, <1>4, <2>3 DEF ModerationStep, AskApprove, AskReject, AskResolve, AskInvalid, Ask,
        Approve, ApproveFails, Lookup, LookupMisses, Purge, Remove, RemoveFails, ResolveFails,
        GotoM
  <2> QED
    BY <2>1, <2>2, <2>3, <1>4
<1> QED
    BY <1>2, <1>3, <1>4 DEF Next, HubStep, CreateFlag, vars

\* A flag whose resolution was answered 204 never shows up as open again,
\* whatever fails and whoever resolves or deletes at the same time.
THEOREM ResolvedStayClosed == Spec => []ResolvedNotOpen
<1>1. Init => ResolveCloses
    BY DEF Init, ModerationInit, ResolveCloses
<1>2. ResolveCloses => ResolvedNotOpen
    BY DEF ResolveCloses, ResolvedNotOpen
<1> QED
    BY <1>1, <1>2, ResolveClosesStep, HubInvariant, PTL DEF Spec

ResolveDeletes ==
    \A d \in Moderations :
        op[d] = "resolve" /\ mphase[d] \in {"resolve", "204"} /\ target[d] # None =>
            status[target[d]] = "deleted"

LEMMA ResolveDeletesStep ==
    ASSUME "db" \notin Faults, HubInv, ResolveDeletes, [Next]_vars
    PROVE  ResolveDeletes'
<1> SUFFICES ASSUME NEW d \in Moderations, op'[d] = "resolve",
                    mphase'[d] \in {"resolve", "204"}, target'[d] # None
             PROVE  status'[target'[d]] = "deleted"
    BY DEF ResolveDeletes
<1> USE DEF HubInv, TypeOK, ModerationTypeOK, TargetsKnown
<1>1. CASE /\ op[d] = "resolve" /\ mphase[d] \in {"resolve", "204"}
           /\ target'[d] = target[d]
  <2>1. status[target[d]] = "deleted" /\ target[d] \in Uploads
    BY <1>1 DEF ResolveDeletes, KnownMaterials
  <2> QED
    BY <1>1, <2>1, DeletedStays
<1>2. CASE UNCHANGED moderationVars
    BY <1>1, <1>2 DEF moderationVars
<1>3. CASE Crash
    BY <1>1, <1>3 DEF Crash, ModerationsLost
<1>4. ASSUME NEW e \in Moderations, ModerationStep(e)
      PROVE  status'[target'[d]] = "deleted"
  <2>1. CASE e # d
    BY <1>1, <1>4, <2>1, Bystander
  <2>2. CASE Remove(d)
    <3>1. target[d] \in KnownMaterials /\ target'[d] = target[d] /\ DeleteMaterial(target[d])
        BY <2>2 DEF Remove
    <3> QED
        BY <3>1 DEF DeleteMaterial, KnownMaterials, TablesTypeOK
  <2>3. CASE LookupMisses(d)
    <3>1. /\ target[d] \in KnownMaterials \ Rows /\ target'[d] = target[d]
          /\ UNCHANGED status
        BY <2>3 DEF LookupMisses, tables
    <3> QED
        BY <3>1 DEF KnownMaterials, Rows, TablesTypeOK
  <2>4. CASE Resolve(d)
    BY <1>1, <2>4 DEF Resolve
  <2>5. CASE e = d /\ (AskApprove(d) \/ AskReject(d) \/ AskResolve(d) \/ AskInvalid(d))
    BY <2>5 DEF AskApprove, AskReject, AskResolve, AskInvalid, Ask, GotoM
  <2>6. CASE e = d /\ (Approve(d) \/ ApproveFails(d) \/ Lookup(d) \/ Purge(d)
                        \/ RemoveFails(d) \/ ResolveFails(d))
    BY <2>6 DEF Approve, ApproveFails, Lookup, Purge, RemoveFails, ResolveFails, GotoM
  <2> QED
    BY <2>1, <2>2, <2>3, <2>4, <2>5, <2>6, <1>4 DEF ModerationStep
<1> QED
    BY <1>2, <1>3, <1>4 DEF Next, HubStep, CreateFlag, vars

\* While the database answers, a resolve that was to delete a material deleted
\* it before it is answered 204, or found it deleted.
THEOREM ResolvingDeletes ==
    ASSUME "db" \notin Faults
    PROVE  Spec => []ResolvedMeansGone
<1>1. Init => ResolveDeletes
    BY DEF Init, ModerationInit, ResolveDeletes
<1>2. HubInv /\ ResolveDeletes /\ [Next]_vars => ResolveDeletes'
    BY ResolveDeletesStep
<1>3. ResolveDeletes => ResolvedMeansGone
    BY DEF ResolveDeletes, ResolvedMeansGone, Rows, RowStatus
<1> QED
    BY <1>1, <1>2, <1>3, HubInvariant, PTL DEF Spec

(* How flags end *)

\* Request d resolved the flag f, and what it was to delete was deleted.
Closed(d, f) ==
    /\ op[d] = "resolve" /\ mphase[d] = "204" /\ about[d] = f
    /\ target[d] # None => status[target[d]] = "deleted"

FlagsEnd ==
    \A f \in Flags :
        /\ flag[f] = "resolved" => \E d \in Moderations : Closed(d, f)
        /\ flag[f] = "removed" => flagged[f] \in Uploads /\ status[flagged[f]] = "deleted"

\* What an answered request did stays done.
LEMMA ClosedKept ==
    ASSUME HubInv, [Next]_vars, NEW d \in Moderations, NEW f \in Flags, Closed(d, f)
    PROVE  Closed(d, f)'
<1>1. /\ op'[d] = op[d] /\ mphase'[d] = mphase[d]
      /\ target'[d] = target[d] /\ about'[d] = about[d]
  <2> USE DEF Closed, HubInv, TypeOK, ModerationTypeOK
  <2>1. ASSUME NEW e \in Moderations, ModerationStep(e)
        PROVE  /\ op'[d] = op[d] /\ mphase'[d] = mphase[d]
               /\ target'[d] = target[d] /\ about'[d] = about[d]
    <3>1. e # d
        BY <2>1 DEF ModerationStep, AskApprove, AskReject, AskResolve, AskInvalid, Ask, Approve,
            ApproveFails, Lookup, LookupMisses, Purge, Remove, RemoveFails, Resolve, ResolveFails
    <3> QED
        BY <2>1, <3>1, Bystander
  <2>2. CASE Crash
    BY <2>2 DEF Crash, ModerationsLost, ModerationCalls
  <2> QED
    BY <2>1, <2>2 DEF Next, HubStep, CreateFlag, vars, moderationVars
<1>2. target[d] # None => target[d] \in Uploads
    BY DEF HubInv, TargetsKnown, KnownMaterials
<1> QED
    BY <1>1, <1>2, DeletedStays DEF Closed

\* What changes a flag that was raised: a resolve that names it, or the deletion
\* of its material.
LEMMA FlagChanges ==
    ASSUME HubInv, [Next]_vars, NEW f \in Flags, flag'[f] # flag[f]
    PROVE  \/ flag[f] = "absent" /\ flag'[f] = "open"
           \/ /\ flag'[f] = "resolved" /\ flagged'[f] = flagged[f]
              /\ \E d \in Moderations : (Resolve(d) \/ ResolveFails(d)) /\ about[d] = f
           \/ /\ flag'[f] = "removed" /\ flagged'[f] = flagged[f]
              /\ \E d \in Moderations :
                    (Remove(d) \/ RemoveFails(d)) /\ DeleteMaterial(flagged[f])
                    /\ flagged[f] \in KnownMaterials
<1> USE DEF HubInv, TypeOK, TablesTypeOK, tables
<1>1. ASSUME NEW u \in Uploads, UploadStep(u)
      PROVE  UNCHANGED flag
    BY <1>1 DEF UploadStep, Receive, Check, CheckFails, CourseRefused, CourseById, CourseByName,
                CourseFails, Put, PutFails, Create, CreateFails
<1>2. ASSUME NEW g \in Flags, CreateFlag(g)
      PROVE  flag[f] = "absent" /\ flag'[f] = "open"
    BY <1>2 DEF CreateFlag, InsertFlag
<1>3. ASSUME NEW d \in Moderations, Resolve(d) \/ ResolveFails(d)
      PROVE  flag'[f] = "resolved" /\ flagged'[f] = flagged[f] /\ about[d] = f
    BY <1>3 DEF Resolve, ResolveFails, ResolveFlag
<1>4. ASSUME NEW d \in Moderations, Remove(d) \/ RemoveFails(d)
      PROVE  /\ flag'[f] = "removed" /\ flagged'[f] = flagged[f]
             /\ DeleteMaterial(flagged[f]) /\ flagged[f] \in KnownMaterials
  <2>1. target[d] \in KnownMaterials /\ DeleteMaterial(target[d]) /\ UNCHANGED flagged
    BY <1>4 DEF Remove, RemoveFails, TargetsKnown
  <2>2. flagged[f] = target[d] /\ flag'[f] = "removed"
    BY <2>1 DEF DeleteMaterial
  <2> QED
    BY <2>1, <2>2
<1>5. ASSUME NEW d \in Moderations, ModerationStep(d)
      PROVE  Resolve(d) \/ ResolveFails(d) \/ Remove(d) \/ RemoveFails(d)
    BY <1>5 DEF ModerationStep, AskApprove, AskReject, AskResolve, AskInvalid, Ask, Approve,
        ApproveFails, Lookup, LookupMisses, Purge
<1> QED
    BY <1>1, <1>2, <1>3, <1>4, <1>5 DEF Next, HubStep, Crash, vars

\* The material of a flag is written once.
LEMMA FlagKept ==
    ASSUME HubInv, [Next]_vars, NEW f \in Flags, flag[f] # "absent"
    PROVE  flagged'[f] = flagged[f]
<1> USE DEF HubInv, TypeOK, TablesTypeOK, tables
<1>1. ASSUME NEW u \in Uploads, UploadStep(u)
      PROVE  UNCHANGED flagged
    BY <1>1 DEF UploadStep, Receive, Check, CheckFails, CourseRefused, CourseById, CourseByName,
                CourseFails, Put, PutFails, Create, CreateFails
<1>2. ASSUME NEW g \in Flags, CreateFlag(g)
      PROVE  flagged'[f] = flagged[f]
    BY <1>2 DEF CreateFlag, InsertFlag
<1>3. ASSUME NEW d \in Moderations, ModerationStep(d)
      PROVE  UNCHANGED flagged
    BY <1>3 DEF ModerationStep, AskApprove, AskReject, AskResolve, AskInvalid, Ask, Approve,
        ApproveFails, Lookup, LookupMisses, Purge, Remove, RemoveFails, Resolve, ResolveFails
<1> QED
    BY <1>1, <1>2, <1>3 DEF Next, HubStep, Crash, vars

LEMMA FlagsEndStep ==
    ASSUME "db" \notin Faults, HubInv, ResolveDeletes, FlagsEnd, [Next]_vars
    PROVE  FlagsEnd'
<1> SUFFICES ASSUME NEW f \in Flags
             PROVE  /\ flag'[f] = "resolved" => \E d \in Moderations : Closed(d, f)'
                    /\ flag'[f] = "removed" =>
                            flagged'[f] \in Uploads /\ status'[flagged'[f]] = "deleted"
    BY DEF FlagsEnd
<1>1. CASE flag'[f] = flag[f]
  <2>1. flag[f] = "removed" => flagged'[f] = flagged[f]
    BY FlagKept
  <2> QED
    BY <1>1, <2>1, ClosedKept, DeletedStays DEF FlagsEnd
<1>2. ASSUME NEW d \in Moderations, Resolve(d), about[d] = f
      PROVE  Closed(d, f)'
  <2>1. /\ op'[d] = "resolve" /\ mphase'[d] = "204" /\ about'[d] = f
        /\ target'[d] = target[d] /\ UNCHANGED status
    BY <1>2 DEF Resolve, GotoM, HubInv, TypeOK, ModerationTypeOK, TargetsKnown
  <2>2. target[d] # None => status[target[d]] = "deleted"
    BY <1>2, <2>1 DEF Resolve, ResolveDeletes
  <2> QED
    BY <2>1, <2>2 DEF Closed
<1>3. ASSUME DeleteMaterial(flagged[f]), flagged[f] \in KnownMaterials
      PROVE  flagged[f] \in Uploads /\ status'[flagged[f]] = "deleted"
    BY <1>3 DEF DeleteMaterial, KnownMaterials, HubInv, TypeOK, TablesTypeOK
<1>4. \A d \in Moderations : ~ResolveFails(d)
    BY DEF ResolveFails
<1>5. CASE flag'[f] # flag[f]
    BY <1>2, <1>3, <1>4, <1>5, FlagChanges
<1> QED
    BY <1>1, <1>5

\* While the database answers, flags and materials go together: no flag is about a
\* row that is gone, and a flag is closed only by a resolve that names it and whose
\* own deletion came first.
THEOREM FlagsAreAccounted ==
    ASSUME "db" \notin Faults
    PROVE  Spec => []FlagsAccounted
<1> DEFINE Inv == FlagsHaveMaterial /\ ResolveDeletes /\ FlagsEnd
<1>1. Init => Inv
    BY DEF Init, TablesInit, ModerationInit, FlagsHaveMaterial, ResolveDeletes, FlagsEnd
<1>2. HubInv /\ Inv /\ [Next]_vars => Inv'
    BY FlagsStep, ResolveDeletesStep, FlagsEndStep
<1>3. Inv => FlagsAccounted
    BY NoneAssumption DEF FlagsHaveMaterial, FlagsEnd, Closed, FlagsAccounted, Rows, RowStatus
<1> QED
    BY <1>1, <1>2, <1>3, HubInvariant, PTL DEF Spec

-----------------------------------------------------------------------------
(* Refused uploads *)

\* No row of courses is ever deleted, so a course id that was one stays one.
CoursesKnown == \A u \in Uploads : course[u] \in courses \cup {None}

LEMMA CoursesKnownStep ==
    ASSUME TypeOK, CoursesKnown, [Next]_vars
    PROVE  CoursesKnown'
<1> USE DEF CoursesKnown, TypeOK, TablesTypeOK, UploadTypeOK, tables
<1>1. ASSUME NEW u \in Uploads, UploadStep(u)
      PROVE  CoursesKnown'
  <2>1. CASE CourseById(u)
    BY <2>1 DEF CourseById
  <2>2. CASE CourseByName(u)
    BY <2>2 DEF CourseByName, FindOrCreate
  <2>3. CASE CourseFails(u)
    BY <2>3 DEF CourseFails, FindOrCreate
  <2>4. CASE UNCHANGED <<courses, course>>
    BY <2>4
  <2> QED
    BY <1>1, <2>1, <2>2, <2>3, <2>4 DEF UploadStep, Receive, Check, CheckFails, CourseRefused,
        Put, PutFails, Create, CreateFails
<1>2. ASSUME NEW d \in Moderations, ModerationStep(d)
      PROVE  UNCHANGED courses
    BY <1>2 DEF ModerationStep, AskApprove, AskReject, AskResolve, AskInvalid, Ask, Approve,
        ApproveFails, Lookup, LookupMisses, Purge, Remove, RemoveFails, Resolve, ResolveFails
<1> QED
    BY <1>1, <1>2 DEF Next, HubStep, Crash, CreateFlag, vars, uploadVars

LEMMA ContendedGrows == [Next]_vars => contended \subseteq contended'
<1> SUFFICES ASSUME [Next]_vars PROVE contended \subseteq contended'
    OBVIOUS
<1>1. ASSUME NEW u \in Uploads, UploadStep(u)
      PROVE  contended \subseteq contended'
    BY <1>1 DEF UploadStep, Receive, Check, CheckFails, CourseRefused, CourseById, CourseByName,
        CourseFails, Put, PutFails, Create, CreateFails
<1>2. ASSUME NEW d \in Moderations, ModerationStep(d)
      PROVE  contended \subseteq contended'
    BY <1>2 DEF ModerationStep, AskApprove, AskReject, AskResolve, AskInvalid, Ask, Approve,
        ApproveFails, Lookup, LookupMisses, Purge, Remove, RemoveFails, Resolve, ResolveFails
<1> QED
    BY <1>1, <1>2 DEF Next, HubStep, Crash, CreateFlag, vars

LEMMA RefusalStep ==
    ASSUME {"db", "store", "disk"} \cap Faults = {},
           HubInv, CoursesKnown, OnlyRacesReach500, [Next]_vars
    PROVE  OnlyRacesReach500'
<1> SUFFICES ASSUME NEW u \in Uploads, phase'[u] = "500"
             PROVE  \/ content'[u] \in contended'
                    \/ course'[u] = None
                    \/ <<title'[u], content'[u]>> \in Refused
    BY DEF OnlyRacesReach500
<1> USE DEF HubInv, TypeOK, TablesTypeOK, UploadTypeOK, tables
<1>1. contended \subseteq contended' /\ UNCHANGED content
    BY ContendedGrows, OneRowMoves
<1>2. CASE phase[u] = "500" /\ course'[u] = course[u] /\ title'[u] = title[u]
    BY <1>1, <1>2 DEF OnlyRacesReach500
<1>3. CASE UNCHANGED uploadVars
    BY <1>2, <1>3 DEF uploadVars
<1>4. CASE Crash
    BY <1>2, <1>4 DEF Crash, UploadsLost
<1>5. ASSUME NEW v \in Uploads, UploadStep(v)
      PROVE  \/ content'[u] \in contended'
             \/ course'[u] = None
             \/ <<title'[u], content'[u]>> \in Refused
  <2>1. CASE v # u
    <3>1. phase'[u] = phase[u] /\ course'[u] = course[u] /\ title'[u] = title[u]
        BY <1>5, <2>1 DEF UploadStep, Receive, Check, CheckFails, CourseRefused, CourseById,
            CourseByName, CourseFails, Validate, Put, PutFails, Create, CreateFails, Goto
    <3> QED
        BY <1>2, <3>1
  <2>2. CASE Create(u)
    <3>1. /\ phase[u] = "create" /\ course'[u] = course[u]
          /\ ~Insertable(u, course[u], title'[u])
        BY <2>2 DEF Create, Goto
    <3>2. CASE content[u] \in contended
        BY <1>1, <3>2
    <3>3. CASE content[u] \notin contended
      <4>1. ~ExistsByContentHash(content[u])
        BY <3>1, <3>3 DEF LoneUpload, Window
      <4> QED
        BY <1>1, <3>1, <4>1 DEF Insertable, CoursesKnown
    <3> QED
        BY <3>2, <3>3
  <2>3. CASE v = u /\ ~Create(u)
    BY <1>5, <2>3 DEF UploadStep, Receive, Check, CheckFails, CourseRefused, CourseById,
            CourseByName, CourseFails, Validate, Put, PutFails, CreateFails, Goto
  <2> QED
    BY <1>5, <2>1, <2>2, <2>3
<1> QED
    BY <1>3, <1>4, <1>5 DEF Next, HubStep, ModerationStep, CreateFlag, vars

\* While nothing fails, only a race over a content, an unknown course id or a
\* title and text that Postgres refuses turn an upload into a 500: the duplicate
\* check catches every duplicate that was there before.
THEOREM RacesAlone ==
    ASSUME {"db", "store", "disk"} \cap Faults = {}
    PROVE  Spec => []OnlyRacesReach500
<1>1. Init => CoursesKnown /\ OnlyRacesReach500
    BY DEF Init, UploadInit, CoursesKnown, OnlyRacesReach500
<1>2. HubInv /\ CoursesKnown /\ [Next]_vars => CoursesKnown'
    BY CoursesKnownStep DEF HubInv
<1>3. HubInv /\ CoursesKnown /\ OnlyRacesReach500 /\ [Next]_vars => OnlyRacesReach500'
    BY RefusalStep
<1> QED
    BY <1>1, <1>2, <1>3, HubInvariant, PTL DEF Spec

-----------------------------------------------------------------------------
(* Courses left behind *)

\* A course is created by a request past its check, and an upload answered 201
\* inserted its row.
CourseLeft ==
    /\ \A c \in courses :
        \E u \in Uploads :
            course[u] = c /\ phase[u] \in {"put", "create", "201", "400", "500", "lost"}
    /\ \A u \in Uploads : phase[u] = "201" => status[u] # "absent"

LEMMA CourseLeftStep ==
    ASSUME "db" \notin Faults, HubInv, CourseLeft, [Next]_vars
    PROVE  CourseLeft'
<1> DEFINE Past == {"put", "create", "201", "400", "500", "lost"}
<1> USE DEF HubInv, TypeOK, TablesTypeOK, UploadTypeOK, tables
<1>1. \A u \in Uploads : status[u] # "absent" => status'[u] # "absent"
    BY OneRowMoves DEF RowMove, RowInserted, RowApproved, RowDeleted, RowStatus
<1>2. CASE /\ courses' = courses
           /\ \A u \in Uploads : phase[u] \in Past => phase'[u] \in Past /\ course'[u] = course[u]
           /\ \A u \in Uploads : phase'[u] = "201" => phase[u] = "201"
    BY <1>1, <1>2 DEF CourseLeft
<1>3. ASSUME NEW u \in Uploads, UploadStep(u)
      PROVE  CourseLeft'
  <2>1. CASE Receive(u) \/ Check(u) \/ CheckFails(u)
    BY <1>2, <2>1 DEF Receive, Check, CheckFails, Goto
  <2>2. CASE CourseRefused(u) \/ CourseById(u)
    BY <1>2, <2>2 DEF CourseRefused, CourseById, Validate, Goto
  <2>3. CASE CourseByName(u)
    <3>1. PICK c \in Courses : courses' = courses \cup {c} /\ course' = [course EXCEPT ![u] = c]
        BY <2>3 DEF CourseByName, FindOrCreate
    <3>2. /\ phase[u] = "course" /\ phase'[u] \in {"put", "400"}
          /\ \A v \in Uploads \ {u} : phase'[v] = phase[v]
        BY <2>3 DEF CourseByName, Validate, Goto
    <3>3. course'[u] = c /\ \A v \in Uploads \ {u} : course'[v] = course[v]
        BY <3>1
    <3> QED
        BY <1>1, <3>1, <3>2, <3>3 DEF CourseLeft
  <2>4. CASE Put(u) \/ PutFails(u)
    BY <1>2, <2>4 DEF Put, PutFails, Goto
  <2>5. CASE Create(u)
    <3>1. /\ UNCHANGED <<courses, course>> /\ phase[u] = "create"
          /\ \/ phase' = [phase EXCEPT ![u] = "201"] /\ status'[u] # "absent"
             \/ phase' = [phase EXCEPT ![u] = "500"]
        BY <2>5 DEF Create, Goto, InsertMaterial
    <3> QED
        BY <1>1, <3>1 DEF CourseLeft
  <2> QED
    BY <1>3, <2>1, <2>2, <2>3, <2>4, <2>5 DEF UploadStep, CourseFails, CreateFails
<1>4. ASSUME NEW d \in Moderations, ModerationStep(d), UNCHANGED uploadVars
      PROVE  CourseLeft'
  <2>1. UNCHANGED courses
    BY <1>4 DEF ModerationStep, AskApprove, AskReject, AskResolve, AskInvalid, Ask, Approve,
        ApproveFails, Lookup, LookupMisses, Purge, Remove, RemoveFails, Resolve, ResolveFails
  <2> QED
    BY <1>2, <1>4, <2>1 DEF uploadVars
<1>5. CASE Crash
    BY <1>2, <1>5 DEF Crash, UploadsLost, UploadCalls
<1>6. CASE UNCHANGED vars
    BY <1>2, <1>6 DEF vars, uploadVars
<1>7. CASE \E f \in Flags : CreateFlag(f) /\ UNCHANGED uploadVars
    BY <1>2, <1>7 DEF CreateFlag, uploadVars
<1> QED
    BY <1>3, <1>4, <1>5, <1>6, <1>7 DEF Next, HubStep

\* While the database answers, every course without material is explained by an
\* upload that resolved it and came to nothing, was withdrawn or is under way.
THEOREM CoursesExplained ==
    ASSUME "db" \notin Faults
    PROVE  Spec => []CoursesAccounted
<1>1. Init => CourseLeft
    BY DEF Init, TablesInit, UploadInit, CourseLeft
<1>2. HubInv /\ CourseLeft /\ [Next]_vars => CourseLeft'
    BY CourseLeftStep
<1>3. HubInv /\ CourseLeft => CoursesAccounted
    BY DEF CourseLeft, CoursesAccounted, HubInv, TypeOK, TablesTypeOK, Rows
<1> QED
    BY <1>1, <1>2, <1>3, HubInvariant, PTL DEF Spec

-----------------------------------------------------------------------------
(* How far LiveIsFetchable fails *)

NoneBrokenOff == \A d \in Moderations : mphase[d] \notin {"500", "lost"}

LEMMA NoneBrokenOffStep ==
    ASSUME "db" \notin Faults, "crash" \notin Faults, NoneBrokenOff, [Next]_vars
    PROVE  NoneBrokenOff'
<1> USE DEF NoneBrokenOff
<1>1. CASE UNCHANGED mphase
    BY <1>1
<1>2. ASSUME NEW d \in Moderations, ModerationStep(d)
      PROVE  NoneBrokenOff'
  <2>1. \E p : GotoM(d, p) /\ p \notin {"500", "lost"}
    BY <1>2 DEF ModerationStep, AskApprove, AskReject, AskResolve, AskInvalid, Ask, Approve,
        ApproveFails, Lookup, LookupMisses, Purge, Remove, RemoveFails, Resolve, ResolveFails
  <2> QED
    BY <2>1 DEF GotoM
<1> QED
    BY <1>1, <1>2 DEF Next, HubStep, Crash, CreateFlag, vars, moderationVars

\* While the database answers and the process runs, a live row is without its
\* object only during its deletion, or when two requests worked on its content at
\* once: failures of the bucket alone never strip a row.
THEOREM OnlyRacesStripRows ==
    ASSUME "db" \notin Faults, "crash" \notin Faults
    PROVE  Spec => [](\A m \in Rows :
                        content[m] \in objects \cup contended \/ Deleting(m) # {})
<1>1. Init => NoneBrokenOff
    BY DEF Init, ModerationInit, NoneBrokenOff
<1>2. NoneBrokenOff /\ [Next]_vars => NoneBrokenOff'
    BY NoneBrokenOffStep
<1>3. HubInv /\ NoneBrokenOff =>
        \A m \in Rows : content[m] \in objects \cup contended \/ Deleting(m) # {}
  <2> SUFFICES ASSUME HubInv, NoneBrokenOff, NEW m \in Rows, content[m] \notin objects \cup contended
               PROVE  Deleting(m) # {}
    OBVIOUS
  <2>1. PICK d \in Moderations : target[d] = m /\ mphase[d] = "remove"
    BY DEF HubInv, Backed, HalfDone, NoneBrokenOff
  <2> QED
    BY <2>1 DEF Deleting
<1> QED
    BY <1>1, <1>2, <1>3, HubInvariant, PTL DEF Spec

=============================================================================
