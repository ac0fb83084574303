------------------------------- MODULE Tables -------------------------------
(***************************************************************************)
(* The shared state of the academic resource hub: the Postgres tables      *)
(* courses, materials and flags, and the object bucket.  One operator per  *)
(* SQL statement or storage call of the repositories; the handlers of      *)
(* UploadHandler and Moderation are built from them.                       *)
(*                                                                         *)
(* A statement is atomic, a handler is not: requests interleave between    *)
(* statements, which is where the hub can go wrong.                        *)
(*                                                                         *)
(* A materials row has a fresh random id and is inserted by exactly one    *)
(* upload request, so the request itself names the row.  A file key is     *)
(* "materials/" + SHA-256 + ".pdf", so a content names its hash, its key   *)
(* and its object (hash collisions are not modelled).                      *)
(***************************************************************************)

CONSTANTS
    Uploads,        \* POST /api/materials requests, and the rows they insert
    Contents,       \* file contents
    Titles,         \* titles of uploads, none of them empty
    Refused,        \* titles and contents that no row of materials can hold
    Courses,        \* (name, branch, year, semester) tuples
    Flags,          \* POST /api/flags requests, and the rows they insert
    None,           \* an id that is in no table
    Faults          \* which calls may fail: a subset of FaultKinds

FaultKinds == {"db", "store", "disk", "sign", "crash"}

ASSUME NoneAssumption == None \notin Uploads \cup Courses \cup Flags
ASSUME RefusedAssumption == Refused \subseteq Titles \X Contents
ASSUME FaultsAssumption == Faults \subseteq FaultKinds

VARIABLES
    content,        \* the file each upload request carries, and its hash column
    status,         \* per material: no row yet, the status column, or row gone
    courses,        \* rows of the courses table
    flag,           \* per flag: no row yet, the status column, or row gone
    flagged,        \* the material_id column of a flag
    objects,        \* contents present in the bucket
    contended       \* history: contents two requests worked on at once

tables == <<content, status, courses, flag, flagged, objects>>

RowStatus == {"pending", "approved"}

\* The rows of the materials table, and the ids a client can have learnt.
Rows == {m \in Uploads : status[m] \in RowStatus}
KnownMaterials == {m \in Uploads : status[m] # "absent"}
KnownFlags == {f \in Flags : flag[f] # "absent"}

TablesTypeOK ==
    /\ content \in [Uploads -> Contents]
    /\ status \in [Uploads -> RowStatus \cup {"absent", "deleted"}]
    /\ courses \in SUBSET Courses
    /\ flag \in [Flags -> {"absent", "open", "resolved", "removed"}]
    /\ flagged \in [Flags -> Uploads \cup {None}]
    /\ objects \in SUBSET Contents
    /\ contended \in SUBSET Contents

TablesInit ==
    /\ content \in [Uploads -> Contents]
    /\ status = [m \in Uploads |-> "absent"]
    /\ courses = {}
    /\ flag = [f \in Flags |-> "absent"]
    /\ flagged = [f \in Flags |-> None]
    /\ objects = {}
    /\ contended = {}

-----------------------------------------------------------------------------
(* Slips: forms of the statements below with a bug in them.  No action uses  *)
(* them; each is put in the place of the definition it is named after to see *)
(* that a property notices.                                                  *)

\* content_hash without its UNIQUE constraint.
InsertableSlip(m, c, t) == c \in courses /\ <<t, content[m]>> \notin Refused

\* The status column defaults to 'approved'.
InsertMaterialSlip(m) == status' = [status EXCEPT ![m] = "approved"]

\* An upsert in the place of the UPDATE.
ApproveMaterialSlip(m) == status' = [status EXCEPT ![m] = "approved"]

-----------------------------------------------------------------------------
(* materials.Repository *)

\* SELECT EXISTS(SELECT 1 FROM materials WHERE content_hash = $1)
ExistsByContentHash(c) == \E m \in Rows : content[m] = c

\* The INSERT violates neither UNIQUE (content_hash) nor the course key, title
\* and extracted text are valid UTF-8 without zero bytes, and the words of both
\* fit into the search vector that the trigger makes of them.
Insertable(m, c, t) ==
    /\ ~ExistsByContentHash(content[m])
    /\ c \in courses
    /\ <<t, content[m]>> \notin Refused

InsertMaterial(m) == status' = [status EXCEPT ![m] = "pending"]

\* UPDATE ... WHERE id = $1: no effect when the row is gone.
ApproveMaterial(m) ==
    status' = [status EXCEPT ![m] = IF @ \in RowStatus THEN "approved" ELSE @]

\* DELETE ... WHERE id = $1, cascading to the flags on the material.
DeleteMaterial(m) ==
    /\ status' = [status EXCEPT ![m] = IF @ \in RowStatus THEN "deleted" ELSE @]
    /\ flag' = [f \in Flags |->
                    IF f \in KnownFlags /\ flagged[f] = m THEN "removed"
                                                          ELSE flag[f]]

(* courses.Repository *)

\* INSERT ... ON CONFLICT DO UPDATE: the row exists afterwards, only once.
FindOrCreate(c) == courses' = courses \cup {c}

(* moderation.FlagsRepository *)

\* INSERT INTO flags; the foreign key needs the material's row.
InsertFlag(f, m) ==
    /\ m \in Rows
    /\ flag' = [flag EXCEPT ![f] = "open"]
    /\ flagged' = [flagged EXCEPT ![f] = m]

\* UPDATE flags SET status = 'resolved' WHERE id = $1
ResolveFlag(f) ==
    flag' = [flag EXCEPT ![f] = IF @ = "open" THEN "resolved" ELSE @]

(* storage.Store *)

PutObject(c) == objects' = objects \cup {c}
RemoveObject(c) == objects' = objects \ {c}

=============================================================================
