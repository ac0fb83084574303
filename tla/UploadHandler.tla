---------------------------- MODULE UploadHandler ----------------------------
(***************************************************************************)
(* POST /api/materials: one request of Uploads reads its file, checks that *)
(* the content is new, resolves its course, stores the object and inserts  *)
(* the row.  Each call out of the process is a step; phase[u] is the next  *)
(* call, or the answer.  The route sits behind RequireAuth, so the claims  *)
(* are always present.                                                     *)
(***************************************************************************)
EXTENDS Tables

VARIABLES
    phase,          \* per upload: next call, or answer
    course,         \* per upload: the course id it resolved (None: unknown id)
    title           \* per upload: the title it was to be inserted with

uploadVars == <<phase, course, title>>

UploadCalls == {"check", "course", "put", "create"}
UploadAnswers == {"201", "400", "409", "500", "lost"}

UploadTypeOK ==
    /\ phase \in [Uploads -> UploadCalls \cup UploadAnswers \cup {"idle"}]
    /\ course \in [Uploads -> Courses \cup {None}]
    /\ title \in [Uploads -> Titles \cup {None}]

UploadInit ==
    /\ phase = [u \in Uploads |-> "idle"]
    /\ course = [u \in Uploads |-> None]
    /\ title = [u \in Uploads |-> None]

Goto(u, p) == phase' = [phase EXCEPT ![u] = p]

\* Requests past the duplicate check that have not inserted their row yet.
Window == {u \in Uploads : phase[u] \in {"course", "put", "create"}}

-----------------------------------------------------------------------------
\* The form is read into a temporary file and hashed; a form that cannot be
\* read, a missing file and a file without the PDF magic are answered 400.
Receive(u) ==
    /\ phase[u] = "idle"
    /\ \/ Goto(u, "check")
       \/ Goto(u, "400")
       \/ "disk" \in Faults /\ Goto(u, "500")
    /\ UNCHANGED <<tables, contended, course, title>>

\* Slip: the answer of ExistsByContentHash is not looked at.
CheckSlip(u) ==
    /\ phase[u] = "check"
    /\ Goto(u, "course")
    /\ contended' = contended \cup
            {c \in {content[u]} : \E v \in Window : content[v] = c}
    /\ UNCHANGED <<tables, course, title>>

\* Slip: the course is resolved first.
CheckLateSlip(u) ==
    /\ phase[u] = "check"
    /\ \E c \in Courses : FindOrCreate(c) /\ course' = [course EXCEPT ![u] = c]
    /\ Goto(u, IF ExistsByContentHash(content[u]) THEN "409" ELSE "course")
    /\ UNCHANGED <<content, status, flag, flagged, objects, contended, title>>

Check(u) ==
    /\ phase[u] = "check"
    /\ \/ /\ ExistsByContentHash(content[u])
          /\ Goto(u, "409")
          /\ UNCHANGED contended
       \/ /\ ~ExistsByContentHash(content[u])
          /\ Goto(u, "course")
          /\ contended' = contended \cup
                {c \in {content[u]} : \E v \in Window : content[v] = c}
    /\ UNCHANGED <<tables, course, title>>

CheckFails(u) ==
    /\ phase[u] = "check" /\ "db" \in Faults
    /\ Goto(u, "500")
    /\ UNCHANGED <<tables, contended, course, title>>

-----------------------------------------------------------------------------
\* After the course, title and type are validated without another call; a
\* course created on the way stays.
Validate(u) == Goto(u, "put") \/ Goto(u, "400")

\* resolveCourse finds the form incomplete, or FindOrCreate its name unstorable.
CourseRefused(u) ==
    /\ phase[u] = "course"
    /\ Goto(u, "400")
    /\ UNCHANGED <<tables, contended, course, title>>

\* course_id is only parsed; whether it names a course is not looked up.
CourseById(u) ==
    /\ phase[u] = "course"
    /\ \E c \in courses \cup {None} : course' = [course EXCEPT ![u] = c]
    /\ Validate(u)
    /\ UNCHANGED <<tables, contended, title>>

CourseByName(u) ==
    /\ phase[u] = "course"
    /\ \E c \in Courses : /\ FindOrCreate(c)
                          /\ course' = [course EXCEPT ![u] = c]
    /\ Validate(u)
    /\ UNCHANGED <<content, status, flag, flagged, objects, contended, title>>

\* A failing FindOrCreate is answered 400, whether or not it was applied.
CourseFails(u) ==
    /\ phase[u] = "course" /\ "db" \in Faults
    /\ \E c \in Courses : FindOrCreate(c) \/ UNCHANGED courses
    /\ Goto(u, "400")
    /\ UNCHANGED <<content, status, flag, flagged, objects, contended, course, title>>

-----------------------------------------------------------------------------
\* Slip: the error of store.Put is not looked at.
PutSlip(u) ==
    /\ phase[u] = "put"
    /\ PutObject(content[u]) \/ UNCHANGED objects
    /\ Goto(u, "create")
    /\ UNCHANGED <<content, status, courses, flag, flagged, contended, course, title>>

Put(u) ==
    /\ phase[u] = "put"
    /\ PutObject(content[u])
    /\ Goto(u, "create")
    /\ UNCHANGED <<content, status, courses, flag, flagged, contended, course, title>>

\* Put reports an error, though the object may have been stored all the same,
\* or the temporary file cannot be rewound for it.
PutFails(u) ==
    /\ phase[u] = "put"
    /\ \/ "store" \in Faults /\ (PutObject(content[u]) \/ UNCHANGED objects)
       \/ "disk" \in Faults /\ UNCHANGED objects
    /\ Goto(u, "500")
    /\ UNCHANGED <<content, status, courses, flag, flagged, contended, course, title>>

\* The request carries its title from the start and it is used here for the first
\* time, as it was sent: only that it is not blank was looked at.
Create(u) ==
    /\ phase[u] = "create"
    /\ \E t \in Titles :
        /\ title' = [title EXCEPT ![u] = t]
        /\ \/ /\ Insertable(u, course[u], t)
              /\ InsertMaterial(u)
              /\ Goto(u, "201")
           \/ /\ ~Insertable(u, course[u], t)
              /\ Goto(u, "500")
              /\ UNCHANGED status
    /\ UNCHANGED <<content, courses, flag, flagged, objects, contended, course>>

\* The INSERT reports an error although it may have been committed.
CreateFails(u) ==
    /\ phase[u] = "create" /\ "db" \in Faults
    /\ \E t \in Titles :
        /\ title' = [title EXCEPT ![u] = t]
        /\ \/ Insertable(u, course[u], t) /\ InsertMaterial(u)
           \/ UNCHANGED status
    /\ Goto(u, "500")
    /\ UNCHANGED <<content, courses, flag, flagged, objects, contended, course>>

-----------------------------------------------------------------------------
UploadStep(u) ==
    \/ Receive(u)
    \/ Check(u) \/ CheckFails(u)
    \/ CourseRefused(u) \/ CourseById(u) \/ CourseByName(u) \/ CourseFails(u)
    \/ Put(u) \/ PutFails(u)
    \/ Create(u) \/ CreateFails(u)

\* The process stops: requests under way are never answered.
UploadsLost ==
    phase' = [u \in Uploads |->
                IF phase[u] \in UploadCalls THEN "lost" ELSE phase[u]]

=============================================================================
