----------------------------- MODULE MaterialHub -----------------------------
(***************************************************************************)
(* The hub: uploads and moderation requests served concurrently by one     *)
(* process over the tables and the bucket, one call at a time, and the     *)
(* process stopping and being started again.                               *)
(***************************************************************************)
EXTENDS UploadHandler, Moderation

vars == <<tables, contended, uploadVars, moderationVars>>

TypeOK == TablesTypeOK /\ UploadTypeOK /\ ModerationTypeOK

Init == TablesInit /\ UploadInit /\ ModerationInit

Crash ==
    /\ "crash" \in Faults
    /\ UploadsLost
    /\ ModerationsLost
    /\ UNCHANGED <<tables, contended, course, title, op, target, about>>

HubStep ==
    \/ \E u \in Uploads : UploadStep(u) /\ UNCHANGED moderationVars
    \/ \E d \in Moderations : ModerationStep(d) /\ UNCHANGED uploadVars
    \/ \E f \in Flags : CreateFlag(f) /\ UNCHANGED uploadVars

Next == HubStep \/ Crash

Spec == Init /\ [][Next]_vars

\* A request under way is a goroutine of its own, which the Go scheduler runs
\* and whose calls return or fail; nobody has to send a request.
Fairness ==
    /\ \A u \in Uploads :
        WF_vars(phase[u] \in UploadCalls /\ UploadStep(u) /\ UNCHANGED moderationVars)
    /\ \A d \in Moderations :
        WF_vars(mphase[d] \in ModerationCalls /\ ModerationStep(d) /\ UNCHANGED uploadVars)

-----------------------------------------------------------------------------
(* What the tables promise *)

\* No two rows of materials carry the same content: the duplicate check alone
\* cannot promise it, the UNIQUE constraint under the INSERT must.
UniqueContent == \A m, n \in Rows : content[m] = content[n] => m = n

\* A material is submitted, perhaps approved, and deleted, in that order and
\* once: an approval racing a deletion never brings the row back.
StatusMoves ==
    [][\A m \in Uploads :
        status'[m] # status[m] =>
            <<status[m], status'[m]>> \in
                {<<"absent", "pending">>, <<"pending", "approved">>,
                 <<"pending", "deleted">>, <<"approved", "deleted">>}]_vars

-----------------------------------------------------------------------------
(* Rows and objects, which no transaction ties together *)

\* A deletion got as far as the object and stopped before the row's DELETE was
\* known to have happened.
HalfDone(d) ==
    /\ op[d] \in {"reject", "resolve"}
    /\ mphase[d] \in {"remove", "500", "lost"}

\* A row's object is in the bucket, unless a deletion of it is half done or
\* two requests worked on the same content at once: the upload stores before
\* it inserts, and a deletion that goes through leaves no row behind.
Backed ==
    \A m \in Rows : \/ content[m] \in objects
                    \/ content[m] \in contended
                    \/ \E d \in Moderations : target[d] = m /\ HalfDone(d)

\* As long as the bucket works, an object that no row owns was left by an
\* upload that stored it and has not inserted its row, or never will.
OrphanAccounted ==
    \A c \in objects :
        \/ \E m \in Rows : content[m] = c
        \/ \E u \in Uploads : content[u] = c /\ phase[u] \in {"create", "500", "lost"}

\* The object of a live material can be fetched, once the deletions of that
\* material are over.
LiveIsFetchable ==
    \A m \in Rows : content[m] \in objects \/ Deleting(m) # {}

-----------------------------------------------------------------------------
(* What an answer promises *)

\* A reject answered 204 left no row, whatever the other requests did since.
RejectedMeansGone ==
    \A d \in Moderations : op[d] = "reject" /\ mphase[d] = "204" => target[d] \notin Rows

\* A resolve answered 204 left the flag closed or gone.
ResolvedNotOpen ==
    \A d \in Moderations : op[d] = "resolve" /\ mphase[d] = "204" => flag[about[d]] # "open"

\* A resolve that was to delete a material and is answered 204 did delete it.
ResolvedMeansGone ==
    \A d \in Moderations :
        op[d] = "resolve" /\ mphase[d] = "204" /\ target[d] # None
            => target[d] \notin Rows

\* A flag and its material go together, however flags are raised, resolved and
\* materials deleted at once: no flag is about a row that is gone, and a flag is
\* closed only by a resolve that names it and deleted its material before.  A
\* closed flag's own material is live only if that resolve named none or another,
\* which the handler does not compare.
FlagsAccounted ==
    \A f \in Flags :
        /\ flag[f] \in {"open", "resolved"} => flagged[f] \in Rows
        /\ flag[f] = "resolved" =>
            \E d \in Moderations : /\ op[d] = "resolve" /\ mphase[d] = "204"
                                   /\ about[d] = f /\ target[d] \notin Rows
        /\ flag[f] = "removed" => status[flagged[f]] = "deleted"

\* With nothing failing, an upload is refused with 500 only because another
\* upload of the same content came in between, the course id names no course,
\* or Postgres does not take its title with the extracted text.
OnlyRacesReach500 ==
    \A u \in Uploads :
        phase[u] = "500" => \/ content[u] \in contended
                            \/ course[u] = None
                            \/ <<title[u], content[u]>> \in Refused

\* The text layer of a PDF never fails an upload: where nothing else explains a
\* 500, no file could have been stored under that title.
TextNeverFailsUpload ==
    \A u \in Uploads :
        phase[u] = "500" => \/ content[u] \in contended
                            \/ course[u] = None
                            \/ \A c \in Contents : <<title[u], c>> \in Refused

\* A course that no material of the table is in was left by an upload that is
\* still under way, was refused afterwards, or whose material was deleted;
\* an upload turned away for its file leaves none.
CoursesAccounted ==
    \A c \in courses :
        \E u \in Uploads :
            /\ course[u] = c
            /\ u \in Rows \/ phase[u] \in {"put", "create", "400", "500", "lost"}
                         \/ status[u] = "deleted"

\* In the end, a row without its object is the work of two requests at once or
\* of a deletion that was broken off.
SettlesBacked ==
    <>[](\A m \in Rows :
            \/ content[m] \in objects \cup contended
            \/ \E d \in Moderations : target[d] = m /\ mphase[d] \in {"500", "lost"})

-----------------------------------------------------------------------------
(* The catalogue the hub implements *)

Shelf ==
    [c \in Contents |->
        IF \E m \in Rows : content[m] = c /\ status[m] = "approved" THEN "approved"
        ELSE IF ExistsByContentHash(c) THEN "pending"
        ELSE "none"]

Abstract == INSTANCE Catalogue WITH shelf <- Shelf

\* However requests interleave and whatever fails, each file moves on the
\* shelf as the catalogue allows: approving, deleting and re-uploading the
\* rows that carry it never publishes it unseen nor shelves it twice.
ImplementsCatalogue == Abstract!CatalogueSpec

-----------------------------------------------------------------------------
(* The inductive invariant *)

\* The row named u is inserted by the last step of the upload u.
RowsComeFromCreate ==
    \A u \in Uploads :
        phase[u] \in UploadCalls \cup {"idle"} => status[u] = "absent"

\* What a request under way was addressed to.
TargetsKnown ==
    \A d \in Moderations :
        /\ target[d] # None => target[d] \in KnownMaterials
        /\ mphase[d] \in {"approve", "lookup", "purge", "remove"} => target[d] # None
        /\ mphase[d] \in {"lookup", "purge", "remove"} => op[d] \in {"reject", "resolve"}
        /\ mphase[d] = "approve" => op[d] = "approve"
        /\ mphase[d] = "resolve" => op[d] = "resolve"
        /\ op[d] = "resolve" => about[d] \in KnownFlags

\* An upload past its check, of a content nobody else worked on meanwhile, is
\* alone with it: no row, no other upload, no deletion.
LoneUpload ==
    \A u \in Window :
        content[u] \notin contended =>
            /\ ~ExistsByContentHash(content[u])
            /\ \A v \in Window : content[v] = content[u] => v = u
            /\ \A m \in Uploads : content[m] = content[u] => Deleting(m) = {}

\* So is a deletion past its lookup, and its row is still there.
LoneDeletion ==
    \A m \in Uploads :
        content[m] \notin contended =>
            \A d \in Deleting(m) : m \in Rows /\ Deleting(m) = {d}

\* The object is stored before the row is inserted.
StoredFirst ==
    \A u \in Uploads :
        phase[u] = "create" /\ content[u] \notin contended => content[u] \in objects

\* A completed reject deleted a row that existed.
RejectDeletes ==
    \A d \in Moderations :
        op[d] = "reject" /\ mphase[d] = "204" =>
            target[d] \in Uploads /\ status[target[d]] = "deleted"

HubInv ==
    /\ TypeOK
    /\ RowsComeFromCreate
    /\ TargetsKnown
    /\ UniqueContent
    /\ LoneUpload
    /\ LoneDeletion
    /\ StoredFirst
    /\ Backed

=============================================================================
