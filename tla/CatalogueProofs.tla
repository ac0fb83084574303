--------------------------- MODULE CatalogueProofs ---------------------------
(***************************************************************************)
(* Proofs that the hub implements Catalogue, and of the facts about single *)
(* rows and flags that follow from the invariant of MaterialHubProofs.     *)
(***************************************************************************)
EXTENDS MaterialHubProofs

-----------------------------------------------------------------------------
(* What one step does to the materials table *)

RowInserted(m) ==
    /\ status[m] = "absent" /\ ~ExistsByContentHash(content[m])
    /\ status' = [status EXCEPT ![m] = "pending"]

RowApproved(m) == m \in Rows /\ status' = [status EXCEPT ![m] = "approved"]

RowDeleted(m) == m \in Rows /\ status' = [status EXCEPT ![m] = "deleted"]

RowMove ==
    \/ UNCHANGED status
    \/ \E m \in Uploads : RowInserted(m) \/ RowApproved(m) \/ RowDeleted(m)

LEMMA UploadMovesRow ==
    ASSUME HubInv, NEW u \in Uploads, UploadStep(u)
    PROVE  RowMove /\ UNCHANGED content
<1> USE DEF tables
<1>1. phase[u] = "create" => status[u] = "absent"
    BY DEF HubInv, RowsComeFromCreate, UploadCalls
<1>2. CASE Create(u) \/ CreateFails(u)
    BY <1>1, <1>2 DEF Create, CreateFails, Insertable, InsertMaterial, RowMove, RowInserted
<1>3. CASE ~(Create(u) \/ CreateFails(u))
    BY <1>3 DEF UploadStep, Receive, Check, CheckFails, CourseRefused, CourseById,
                CourseByName, CourseFails, Put, PutFails, RowMove
<1> QED
    BY <1>2, <1>3

LEMMA ModerationMovesRow ==
    ASSUME HubInv, NEW d \in Moderations, ModerationStep(d)
    PROVE  RowMove /\ UNCHANGED content
<1> USE DEF tables
<1>1. status \in [Uploads -> RowStatus \cup {"absent", "deleted"}]
    BY DEF HubInv, TypeOK, TablesTypeOK
<1>2. mphase[d] \in {"approve", "remove"} => target[d] \in Uploads
    BY DEF HubInv, TypeOK, ModerationTypeOK, TargetsKnown
<1>3. CASE Approve(d) \/ ApproveFails(d)
  <2>1. UNCHANGED content /\ target[d] \in Uploads
    BY <1>2, <1>3 DEF Approve, ApproveFails
  <2>2. CASE ApproveMaterial(target[d])
    BY <1>1, <2>1, <2>2 DEF ApproveMaterial, RowMove, RowApproved, Rows
  <2>3. CASE UNCHANGED status
    BY <2>1, <2>3 DEF RowMove
  <2> QED
    BY <1>3, <2>2, <2>3 DEF Approve, ApproveFails
<1>4. CASE Remove(d) \/ RemoveFails(d)
  <2>1. UNCHANGED content /\ target[d] \in Uploads
    BY <1>2, <1>4 DEF Remove, RemoveFails
  <2>2. CASE DeleteMaterial(target[d])
    BY <1>1, <2>1, <2>2 DEF DeleteMaterial, RowMove, RowDeleted, Rows
  <2>3. CASE UNCHANGED status
    BY <2>1, <2>3 DEF RowMove
  <2> QED
    BY <1>4, <2>2, <2>3 DEF Remove, RemoveFails
<1>5. CASE ~(Approve(d) \/ ApproveFails(d) \/ Remove(d) \/ RemoveFails(d))
    BY <1>5 DEF ModerationStep, AskApprove, AskReject, AskResolve, AskInvalid, Ask, Lookup,
                LookupMisses, Purge, Resolve, ResolveFails, RowMove
<1> QED
    BY <1>3, <1>4, <1>5

LEMMA OneRowMoves == HubInv /\ [Next]_vars => RowMove /\ UNCHANGED content
<1> SUFFICES ASSUME HubInv, [Next]_vars
             PROVE  RowMove /\ UNCHANGED content
    OBVIOUS
<1>1. CASE \E u \in Uploads : UploadStep(u) /\ UNCHANGED moderationVars
    BY <1>1, UploadMovesRow
<1>2. CASE \E d \in Moderations : ModerationStep(d) /\ UNCHANGED uploadVars
    BY <1>2, ModerationMovesRow
<1>3. CASE (\E f \in Flags : CreateFlag(f) /\ UNCHANGED uploadVars) \/ Crash \/ UNCHANGED vars
    BY <1>3 DEF CreateFlag, Crash, vars, tables, RowMove
<1> QED
    BY <1>1, <1>2, <1>3 DEF Next, HubStep

\* A row is inserted once, approved only while it exists, deleted once and
\* never brought back, whatever runs against the deletion.
THEOREM RowsMoveForward == Spec => StatusMoves
<1>1. HubInv /\ [Next]_vars =>
        [\A m \in Uploads :
            status'[m] # status[m] =>
                <<status[m], status'[m]>> \in
                    {<<"absent", "pending">>, <<"pending", "approved">>,
                     <<"pending", "deleted">>, <<"approved", "deleted">>}]_vars
  <2> SUFFICES ASSUME HubInv, [Next]_vars, NEW m \in Uploads, status'[m] # status[m]
               PROVE  <<status[m], status'[m]>> \in
                        {<<"absent", "pending">>, <<"pending", "approved">>,
                         <<"pending", "deleted">>, <<"approved", "deleted">>}
    OBVIOUS
  <2>1. PICK n \in Uploads : RowInserted(n) \/ RowApproved(n) \/ RowDeleted(n)
    BY OneRowMoves DEF RowMove
  <2>2. n = m /\ status \in [Uploads -> RowStatus \cup {"absent", "deleted"}]
    BY <2>1 DEF RowInserted, RowApproved, RowDeleted, HubInv, TypeOK, TablesTypeOK
  <2> QED
    BY <2>1, <2>2 DEF RowInserted, RowApproved, RowDeleted, Rows, RowStatus
<1> QED
    BY <1>1, HubInvariant, PTL DEF Spec, StatusMoves

-----------------------------------------------------------------------------
(* The refinement *)

LEMMA ShelfInit == Init => Abstract!CatalogueInit
<1> SUFFICES ASSUME Init
             PROVE  Abstract!CatalogueInit
    OBVIOUS
<1>1. Rows = {} /\ \A m \in Uploads : status[m] = "absent"
    BY DEF Init, TablesInit, Rows, RowStatus
<1> QED
    BY <1>1 DEF Abstract!CatalogueInit, Shelf, ExistsByContentHash

\* With one row to a content, that row's status says where the content stands.
LEMMA ShelfOfRow ==
    ASSUME HubInv, NEW m \in Rows
    PROVE  Shelf[content[m]] = status[m]
<1>1. m \in Uploads /\ content[m] \in Contents
    BY DEF Rows, HubInv, TypeOK, TablesTypeOK
<1>2. \A n \in Rows : content[n] = content[m] => n = m
    BY DEF HubInv, UniqueContent
<1> QED
    BY <1>1, <1>2 DEF Shelf, ExistsByContentHash, Rows, RowStatus

\* A content is absent from the shelf exactly when no row carries it.
LEMMA ShelfNone ==
    ASSUME NEW c \in Contents, ~ExistsByContentHash(c)
    PROVE  Shelf[c] = "none"
BY DEF Shelf, ExistsByContentHash, Rows

LEMMA ShelfStep == HubInv /\ [Next]_vars => [Abstract!CatalogueNext]_Shelf
<1> SUFFICES ASSUME HubInv, RowMove, UNCHANGED content
             PROVE  [Abstract!CatalogueNext]_Shelf
    BY OneRowMoves
<1>1. /\ content \in [Uploads -> Contents]
      /\ status \in [Uploads -> RowStatus \cup {"absent", "deleted"}]
    BY DEF HubInv, TypeOK, TablesTypeOK
<1>2. CASE UNCHANGED status
    BY <1>2 DEF Shelf, ExistsByContentHash, Rows
<1>3. ASSUME NEW m \in Uploads, RowInserted(m) \/ RowApproved(m) \/ RowDeleted(m)
      PROVE  Abstract!CatalogueNext \/ UNCHANGED Shelf
  <2> DEFINE c == content[m]
  <2>1. c \in Contents
    BY <1>1
  <2>2. \A n \in Uploads : n # m => status'[n] = status[n]
    BY <1>1, <1>3 DEF RowInserted, RowApproved, RowDeleted
  <2>3. \A x \in Contents : x # c => Shelf'[x] = Shelf[x]
    BY <1>1, <2>2 DEF Shelf, ExistsByContentHash, Rows
  <2>4. /\ Shelf \in [Contents -> {"none", "pending", "approved"}]
        /\ Shelf = [x \in Contents |-> Shelf[x]]
        /\ Shelf' = [x \in Contents |-> Shelf'[x]]
    BY DEF Shelf
  <2>5. \A s : Shelf'[c] = s => Shelf' = [Shelf EXCEPT ![c] = s]
    BY <2>1, <2>3, <2>4
  <2>6. CASE RowInserted(m)
    <3>1. Shelf[c] = "none"
        BY <2>1, <2>6, ShelfNone DEF RowInserted
    <3>2. m \in Rows' /\ status'[m] = "pending"
        BY <1>1, <2>6 DEF RowInserted, Rows, RowStatus
    <3>3. Shelf'[c] = "pending"
        BY <2>1, <2>2, <2>6, <3>2, UNCHANGED content
        DEF RowInserted, Shelf, ExistsByContentHash, Rows, RowStatus
    <3> QED
        BY <2>1, <2>5, <3>1, <3>3 DEF Abstract!CatalogueNext, Abstract!Submit
  <2>7. CASE RowApproved(m)
    <3>1. Shelf[c] \in {"pending", "approved"}
        BY <2>7, ShelfOfRow DEF RowApproved, Rows, RowStatus
    <3>2. m \in Rows' /\ status'[m] = "approved"
        BY <1>1, <2>7 DEF RowApproved, Rows, RowStatus
    <3>3. Shelf'[c] = "approved"
        BY <2>1, <3>2 DEF Shelf
    <3> QED
        BY <2>1, <2>4, <2>5, <3>1, <3>3 DEF Abstract!CatalogueNext, Abstract!Publish
  <2>8. CASE RowDeleted(m)
    <3>1. Shelf[c] # "none"
        BY <2>8, ShelfOfRow DEF RowDeleted, Rows, RowStatus
    <3>2. \A n \in Rows : content[n] = c => n = m
        BY <2>8 DEF RowDeleted, HubInv, UniqueContent
    <3>3. \A n \in Uploads : content[n] = c => status'[n] \notin RowStatus
        BY <1>1, <2>2, <2>8, <3>2 DEF RowDeleted, Rows, RowStatus
    <3>4. Shelf'[c] = "none"
        BY <1>1, <2>1, <3>3 DEF Shelf, ExistsByContentHash, Rows, RowStatus
    <3> QED
        BY <2>1, <2>5, <3>1, <3>4 DEF Abstract!CatalogueNext, Abstract!Withdraw
  <2> QED
    BY <1>3, <2>6, <2>7, <2>8
<1> QED
    BY <1>2, <1>3 DEF RowMove

\* Every behaviour of the hub, seen file by file, is one of the catalogue.
THEOREM HubImplementsCatalogue == Spec => ImplementsCatalogue
<1> QED
    BY ShelfInit, ShelfStep, HubInvariant, PTL DEF Spec, ImplementsCatalogue, Abstract!CatalogueSpec

=============================================================================
