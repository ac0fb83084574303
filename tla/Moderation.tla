----------------------------- MODULE Moderation -----------------------------
(***************************************************************************)
(* The moderation endpoints: approve, reject (hard delete), create a flag  *)
(* and resolve a flag, optionally hard-deleting a material first.  Reject  *)
(* and resolve share deleteMaterial: look the file key up, delete the      *)
(* object (best effort), delete the row.                                   *)
(***************************************************************************)
EXTENDS Tables

CONSTANT Moderations    \* requests to the admin routes that change state

VARIABLES
    mphase,         \* per moderation request: next call, or answer
    op,             \* which endpoint it addresses
    target,         \* the material id it names (None: no material_id given)
    about           \* the flag id it names (resolve only)

moderationVars == <<mphase, op, target, about>>

ModerationCalls == {"approve", "lookup", "purge", "remove", "resolve"}
ModerationAnswers == {"204", "400", "404", "500", "lost"}

ModerationTypeOK ==
    /\ mphase \in [Moderations ->
                    ModerationCalls \cup ModerationAnswers \cup {"idle"}]
    /\ op \in [Moderations -> {"none", "approve", "reject", "resolve"}]
    /\ target \in [Moderations -> Uploads \cup {None}]
    /\ about \in [Moderations -> Flags \cup {None}]

ModerationInit ==
    /\ mphase = [d \in Moderations |-> "idle"]
    /\ op = [d \in Moderations |-> "none"]
    /\ target = [d \in Moderations |-> None]
    /\ about = [d \in Moderations |-> None]

GotoM(d, p) == mphase' = [mphase EXCEPT ![d] = p]

\* Requests between GetFileKey and the DELETE of material m.
Deleting(m) == {d \in Moderations : target[d] = m /\ mphase[d] \in {"purge", "remove"}}

-----------------------------------------------------------------------------
\* Request d addresses endpoint o with material m and flag f.
Ask(d, o, m, f, p) ==
    /\ mphase[d] = "idle"
    /\ op' = [op EXCEPT ![d] = o]
    /\ target' = [target EXCEPT ![d] = m]
    /\ about' = [about EXCEPT ![d] = f]
    /\ GotoM(d, p)
    /\ UNCHANGED <<tables, contended>>

\* Ids come from listings, so a named row exists or existed.
AskApprove(d) == \E m \in KnownMaterials : Ask(d, "approve", m, None, "approve")
AskReject(d) == \E m \in KnownMaterials : Ask(d, "reject", m, None, "lookup")

\* Slip: the flag is closed first, and then the material deleted.
AskResolveSlip(d) ==
    \E f \in KnownFlags, m \in KnownMaterials :
        /\ mphase[d] = "idle"
        /\ op' = [op EXCEPT ![d] = "resolve"]
        /\ target' = [target EXCEPT ![d] = m]
        /\ about' = [about EXCEPT ![d] = f]
        /\ ResolveFlag(f)
        /\ GotoM(d, "lookup")
        /\ UNCHANGED <<content, status, courses, flagged, objects, contended>>

\* material_id is a query parameter of its own: the handler does not compare
\* it with the material of the flag.
AskResolve(d) ==
    \E f \in KnownFlags :
        \/ Ask(d, "resolve", None, f, "resolve")
        \/ \E m \in KnownMaterials : Ask(d, "resolve", m, f, "lookup")

\* An id that does not parse.
AskInvalid(d) == mphase[d] = "idle" /\ GotoM(d, "400")
                 /\ UNCHANGED <<tables, contended, op, target, about>>

-----------------------------------------------------------------------------
Approve(d) ==
    /\ mphase[d] = "approve"
    /\ ApproveMaterial(target[d])
    /\ GotoM(d, "204")
    /\ UNCHANGED <<content, courses, flag, flagged, objects, contended>>
    /\ UNCHANGED <<op, target, about>>

ApproveFails(d) ==
    /\ mphase[d] = "approve" /\ "db" \in Faults
    /\ ApproveMaterial(target[d]) \/ UNCHANGED status
    /\ GotoM(d, "500")
    /\ UNCHANGED <<content, courses, flag, flagged, objects, contended>>
    /\ UNCHANGED <<op, target, about>>

-----------------------------------------------------------------------------
\* deleteMaterial: GetFileKey finds the row.
Lookup(d) ==
    /\ mphase[d] = "lookup" /\ target[d] \in Rows
    /\ GotoM(d, "purge")
    /\ contended' = contended \cup
            {content[m] : m \in {n \in Rows : n = target[d] /\ Deleting(n) # {}}}
    /\ UNCHANGED <<tables, op, target, about>>

\* Slip: a reject that finds nothing succeeds.
LookupMissesSlip(d) ==
    /\ mphase[d] = "lookup"
    /\ target[d] \notin Rows \/ "db" \in Faults
    /\ GotoM(d, IF op[d] = "reject" THEN "204" ELSE "resolve")
    /\ UNCHANGED <<tables, contended, op, target, about>>

\* Slip: a resolve that finds nothing to delete leaves the flag alone.
LookupMissesEarly(d) ==
    /\ mphase[d] = "lookup"
    /\ target[d] \notin Rows \/ "db" \in Faults
    /\ GotoM(d, IF op[d] = "reject" THEN "404" ELSE "204")
    /\ UNCHANGED <<tables, contended, op, target, about>>

\* Any error of GetFileKey counts as errMaterialNotFound: reject answers 404,
\* resolve carries on with the flag.
LookupMisses(d) ==
    /\ mphase[d] = "lookup"
    /\ target[d] \notin Rows \/ "db" \in Faults
    /\ GotoM(d, IF op[d] = "reject" THEN "404" ELSE "resolve")
    /\ UNCHANGED <<tables, contended, op, target, about>>

\* Slip: the object is left to be collected some other time.
PurgeSlip(d) ==
    /\ mphase[d] = "purge"
    /\ GotoM(d, "remove")
    /\ UNCHANGED <<tables, contended, op, target, about>>

\* Slip: a resolve deletes the object and forgets the row.
PurgeOnly(d) ==
    /\ mphase[d] = "purge"
    /\ RemoveObject(content[target[d]])
    /\ GotoM(d, IF op[d] = "reject" THEN "remove" ELSE "resolve")
    /\ UNCHANGED <<content, status, courses, flag, flagged, contended>>
    /\ UNCHANGED <<op, target, about>>

\* The error of store.Delete is dropped.
Purge(d) ==
    /\ mphase[d] = "purge"
    /\ RemoveObject(content[target[d]]) \/ ("store" \in Faults /\ UNCHANGED objects)
    /\ GotoM(d, "remove")
    /\ UNCHANGED <<content, status, courses, flag, flagged, contended>>
    /\ UNCHANGED <<op, target, about>>

Remove(d) ==
    /\ mphase[d] = "remove"
    /\ DeleteMaterial(target[d])
    /\ GotoM(d, IF op[d] = "reject" THEN "204" ELSE "resolve")
    /\ UNCHANGED <<content, courses, flagged, objects, contended>>
    /\ UNCHANGED <<op, target, about>>

\* Slip: the error of the DELETE is dropped like that of store.Delete.
RemoveFailsSlip(d) ==
    /\ mphase[d] = "remove" /\ "db" \in Faults
    /\ DeleteMaterial(target[d]) \/ UNCHANGED <<status, flag>>
    /\ GotoM(d, IF op[d] = "reject" THEN "204" ELSE "resolve")
    /\ UNCHANGED <<content, courses, flagged, objects, contended>>
    /\ UNCHANGED <<op, target, about>>

\* The DELETE reports an error although it may have been committed.
RemoveFails(d) ==
    /\ mphase[d] = "remove" /\ "db" \in Faults
    /\ DeleteMaterial(target[d]) \/ UNCHANGED <<status, flag>>
    /\ GotoM(d, "500")
    /\ UNCHANGED <<content, courses, flagged, objects, contended>>
    /\ UNCHANGED <<op, target, about>>

-----------------------------------------------------------------------------
Resolve(d) ==
    /\ mphase[d] = "resolve"
    /\ ResolveFlag(about[d])
    /\ GotoM(d, "204")
    /\ UNCHANGED <<content, status, courses, flagged, objects, contended>>
    /\ UNCHANGED <<op, target, about>>

ResolveFails(d) ==
    /\ mphase[d] = "resolve" /\ "db" \in Faults
    /\ ResolveFlag(about[d]) \/ UNCHANGED flag
    /\ GotoM(d, "500")
    /\ UNCHANGED <<content, status, courses, flagged, objects, contended>>
    /\ UNCHANGED <<op, target, about>>

-----------------------------------------------------------------------------
\* POST /api/flags is one INSERT; it fails without effect when the material
\* is gone.  Whether the material is approved is not looked at.
CreateFlag(f) ==
    /\ flag[f] = "absent"
    /\ \E m \in KnownMaterials : InsertFlag(f, m)
    /\ UNCHANGED <<content, status, courses, objects, contended>>
    /\ UNCHANGED moderationVars

ModerationStep(d) ==
    \/ AskApprove(d) \/ AskReject(d) \/ AskResolve(d) \/ AskInvalid(d)
    \/ Approve(d) \/ ApproveFails(d)
    \/ Lookup(d) \/ LookupMisses(d) \/ Purge(d) \/ Remove(d) \/ RemoveFails(d)
    \/ Resolve(d) \/ ResolveFails(d)

\* The process stops: requests under way are never answered.
ModerationsLost ==
    mphase' = [d \in Moderations |->
                IF mphase[d] \in ModerationCalls THEN "lost" ELSE mphase[d]]

=============================================================================
