------------------------------ MODULE Reading ------------------------------
(***************************************************************************)
(* The hub with its readers: GET /api/materials/{materialID} looks a       *)
(* material up, signs a link to its object and answers with it; the client *)
(* follows the link to the bucket later, past the hub.  A link is good for *)
(* fifteen minutes, whatever happens to the material meanwhile; one that   *)
(* expires is one never followed.                                          *)
(***************************************************************************)
EXTENDS MaterialHub

CONSTANT Readers        \* GET /api/materials/{materialID} requests

VARIABLES
    rphase,         \* per reader: next call, answer, or what the link gave
    wanted          \* the material it names

readingVars == <<rphase, wanted>>
allVars == <<vars, readingVars>>

ReaderCalls == {"read", "sign"}
ReaderAnswers == {"200", "400", "404", "500", "lost"}

ReadingTypeOK ==
    /\ rphase \in [Readers -> ReaderCalls \cup ReaderAnswers \cup {"idle", "opened", "missed"}]
    /\ wanted \in [Readers -> Uploads \cup {None}]

ReadingInit ==
    /\ Init
    /\ rphase = [r \in Readers |-> "idle"]
    /\ wanted = [r \in Readers |-> None]

GotoR(r, p) == rphase' = [rphase EXCEPT ![r] = p]

-----------------------------------------------------------------------------
\* Ids come from a listing or an answer, so the row exists or existed; one that
\* does not parse is answered 400.
AskDetail(r) ==
    /\ rphase[r] = "idle"
    /\ \/ \E m \in KnownMaterials :
            GotoR(r, "read") /\ wanted' = [wanted EXCEPT ![r] = m]
       \/ GotoR(r, "400") /\ UNCHANGED wanted

\* A row of any status; every course it may name exists.  An error of the
\* query is answered like a row that is not there.
GetByID(r) ==
    /\ rphase[r] = "read"
    /\ \/ wanted[r] \in Rows /\ GotoR(r, "sign")
       \/ wanted[r] \notin Rows /\ GotoR(r, "404")
       \/ "db" \in Faults /\ GotoR(r, "404")
    /\ UNCHANGED wanted

\* Whether the key has an object is not looked at.
PresignedGetURL(r) ==
    /\ rphase[r] = "sign"
    /\ \/ GotoR(r, "200")
       \/ "sign" \in Faults /\ GotoR(r, "500")
    /\ UNCHANGED wanted

\* The client follows the link.
Follow(r) ==
    /\ rphase[r] = "200"
    /\ GotoR(r, IF content[wanted[r]] \in objects THEN "opened" ELSE "missed")
    /\ UNCHANGED wanted

ReaderStep(r) == AskDetail(r) \/ GetByID(r) \/ PresignedGetURL(r) \/ Follow(r)

ReadersLost ==
    rphase' = [r \in Readers |-> IF rphase[r] \in ReaderCalls THEN "lost" ELSE rphase[r]]

ReadingNext ==
    \/ HubStep /\ UNCHANGED readingVars
    \/ \E r \in Readers : ReaderStep(r) /\ UNCHANGED vars
    \/ Crash /\ ReadersLost /\ UNCHANGED wanted

ReadingSpec == ReadingInit /\ [][ReadingNext]_allVars

\* Links need not be followed, and a reader's calls return like any other's.
FairReadingSpec == ReadingSpec /\ Fairness

-----------------------------------------------------------------------------
\* The client that finds nothing behind its link reads a material that was
\* deleted meanwhile, is being deleted, or that two requests raced for: with
\* two calls and no transaction between the row and the object, a link to a
\* material in good standing still leads to it.
MissExplained ==
    \A r \in Readers :
        rphase[r] = "missed" =>
            \/ status[wanted[r]] = "deleted"
            \/ content[wanted[r]] \in contended
            \/ \E d \in Moderations : target[d] = wanted[r] /\ HalfDone(d)

\* With a working bucket, the link to a deleted material is dead, although the
\* signature outlives it, unless somebody uploaded the same file again.
LinkDies ==
    [][\A r \in Readers :
        rphase'[r] = "opened" /\ rphase[r] = "200" /\ status[wanted[r]] = "deleted" =>
            \E u \in Uploads \ {wanted[r]} :
                /\ content[u] = content[wanted[r]]
                /\ phase[u] \in {"create", "201", "500", "lost"}]_allVars

=============================================================================
