------------------------------- MODULE Homework -------------------------------
(***************************************************************************)
(* Assignments, the versions students hand in, and the files of a course:  *)
(* src/app/services/assignments, learning/materials.py and the templates   *)
(* of courses.py.  A row and its S3 object are written by two steps, in an *)
(* order each kind of file chooses for itself; the nightly clean-up deletes *)
(* uploads it found unattached when it began.                              *)
(***************************************************************************)
EXTENDS Integers, FiniteSets, FiniteSetsExt

CONSTANTS
  Workers,         \* request threads and the clean-up
  Mixes,           \* the sets of requests a behaviour may consist of
  Assignments, Students,
  NumFiles,        \* bound: uploads of students
  NumMaterials,    \* bound: materials of the lesson
  NumSubmissions,  \* bound: submissions
  Extensions,      \* of a template file
  None             \* no file, no student, no assignment, no template

AllOps == {"create", "upload", "submit", "review", "close", "delete", "cleanup", "leave",
           "material", "remove", "lesson", "template", "clear", "fail", "crash", "alone"}

ASSUME HomeworkAssumption ==
  /\ NumFiles \in Nat /\ NumMaterials \in Nat /\ NumSubmissions \in Nat
  /\ \A mix \in Mixes : mix \subseteq AllOps
  /\ None \notin Int \cup Students \cup Assignments \cup Extensions

Files == 1..NumFiles
Materials == 1..NumMaterials
Submissions == 1..NumSubmissions
Tries == 3
LowestOf(i, S) == i \in S /\ \A j \in S : i <= j

VARIABLES
  mix,         \* the requests of this behaviour
  enrolled,    \* students with an active enrollment in the cohort
  assignment,  \* table assignments
  submission,  \* table assignment_submissions
  file,        \* table student_files
  lesson,      \* whether the lesson stands
  material,    \* table lesson_materials: the files of the lesson
  template,    \* a template's key column of the course
  bucket,      \* S3: the objects it holds
  job          \* what each thread is doing

tables == <<enrolled, assignment, submission, file>>
content == <<lesson, material, template>>
vars == <<mix, tables, content, bucket, job>>

\* The keys of student files and materials are fresh; a template's is not.
Keys == ({"file"} \X Files) \cup ({"material"} \X Materials) \cup ({"template"} \X Extensions)
AssignmentRows == {"absent", "active", "inactive", "closed", "deleted"}
SubmissionRows == [status: {"absent", "submitted", "reviewed", "deleted"},
                   a: Assignments \cup {None}, s: Students \cup {None},
                   version: 0..NumSubmissions, file: Files \cup {None}]
FileRows == [status: {"absent", "fresh", "old", "deleted"}, s: Students \cup {None}]
Steps == {"idle", "put", "row", "unput", "version", "insert", "drop", "clean", "purge",
          "sweep", "stamp", "tidy", "unstamp"}
Idle == [op |-> "alone", step |-> "idle", a |-> None, s |-> None, f |-> None, x |-> None, n |-> 0, k |-> 0,
         seen |-> {}, left |-> {}]

-----------------------------------------------------------------------------

At(w, step) == job[w].step = step
Become(w, j) == job' = [job EXCEPT ![w] = j]
Go(w, step) == Become(w, [job[w] EXCEPT !.step = step])
Finish(w) == Become(w, Idle)

\* In an "alone" mix a request begins when the one before it has ended.
Alone == "alone" \in mix
Admitted(op) == op \in mix /\ (Alone => \A v \in Workers : At(v, "idle"))
Start(w, op, j) == At(w, "idle") /\ Admitted(op) /\ Become(w, [j EXCEPT !.op = op])
AtOnce(op) == Admitted(op) /\ UNCHANGED job

Stands(row) == row.status \in {"submitted", "reviewed"}
SubmissionsOf(a, s) ==
  {r \in Submissions : Stands(submission[r]) /\ submission[r].a = a /\ submission[r].s = s}
Attached == {submission[r].file : r \in {q \in Submissions : Stands(submission[q])}}
Kept(f) == file[f].status \in {"fresh", "old"}

-----------------------------------------------------------------------------
(* Assignments.                                                            *)

\* create
CreateAssignment(a) ==
  /\ AtOnce("create")
  /\ assignment[a] = "absent"
  /\ assignment' = [assignment EXCEPT ![a] = "active"]
  /\ UNCHANGED <<mix, enrolled, submission, file, content, bucket>>

\* update sets is_active.
UpdateAssignment(a) ==
  /\ AtOnce("close")
  /\ assignment[a] \in {"active", "inactive"}
  /\ assignment' = [assignment EXCEPT ![a] = IF @ = "active" THEN "inactive" ELSE "active"]
  /\ UNCHANGED <<mix, enrolled, submission, file, content, bucket>>

\* External: its due date passes.
PassDue(a) ==
  /\ "close" \in mix
  /\ assignment[a] = "active"
  /\ assignment' = [assignment EXCEPT ![a] = "closed"]
  /\ UNCHANGED <<mix, enrolled, submission, file, content, bucket, job>>

\* Fault: only a reviewed submission keeps its assignment.
HasSubmissions_Reviewed(a) ==
  \E r \in Submissions : submission[r].a = a /\ submission[r].status = "reviewed"

HasSubmissions(a) == \E r \in Submissions : submission[r].a = a /\ Stands(submission[r])

\* delete looks for submissions; one that has some is only deactivated.
BeginDelete(w, a) ==
  /\ assignment[a] \in {"active", "inactive", "closed"}
  /\ Start(w, "delete", [Idle EXCEPT !.step = "drop", !.a = a, !.k = IF HasSubmissions(a) THEN 1 ELSE 0])
  /\ UNCHANGED <<mix, tables, content, bucket>>

\* The row's submissions go with it (ON DELETE CASCADE), later ones too.
Delete(w) ==
  LET j == job[w] IN
  /\ At(w, "drop")
  /\ IF assignment[j.a] = "deleted" THEN UNCHANGED <<assignment, submission>>
     ELSE IF j.k = 1 THEN assignment' = [assignment EXCEPT ![j.a] = "inactive"] /\ UNCHANGED submission
     ELSE /\ assignment' = [assignment EXCEPT ![j.a] = "deleted"]
          /\ submission' = [r \in Submissions |->
               IF submission[r].a = j.a THEN [submission[r] EXCEPT !.status = "deleted"]
               ELSE submission[r]]
  /\ Finish(w)
  /\ UNCHANGED <<mix, enrolled, file, content, bucket>>

-----------------------------------------------------------------------------
(* Uploads and submissions.                                                *)

\* External: Roster cancels and restores enrollments.
Leave(s) ==
  /\ AtOnce("leave")
  /\ enrolled' = IF s \in enrolled THEN enrolled \ {s} ELSE enrolled \cup {s}
  /\ UNCHANGED <<mix, assignment, submission, file, content, bucket>>

\* Bound: a key that no upload has used.
Unused(kind, i) == <<kind, i>> \notin bucket /\ \A w \in Workers : job[w].x # <<kind, i>>

\* files.upload: the object first ...
BeginUpload(w, s) ==
  /\ \E f \in Files :
       /\ LowestOf(f, {g \in Files : file[g].status = "absent" /\ Unused("file", g)})
       /\ Start(w, "upload", [Idle EXCEPT !.step = "put", !.s = s, !.x = <<"file", f>>])
  /\ UNCHANGED <<mix, tables, content, bucket>>

\* upload_fileobj
Put(w) ==
  LET j == job[w] IN
  /\ At(w, "put")
  /\ bucket' = bucket \cup {j.x}
  /\ Go(w, IF j.op = "template" THEN "stamp" ELSE "row")
  /\ UNCHANGED <<mix, tables, content>>

\* ... then its row.
SaveFile(w) ==
  LET j == job[w] IN
  /\ At(w, "row") /\ j.op = "upload"
  /\ file' = [file EXCEPT ![j.x[2]] = [status |-> "fresh", s |-> j.s]]
  /\ Finish(w)
  /\ UNCHANGED <<mix, enrolled, assignment, submission, content, bucket>>

\* External: a day passes.
Age(f) ==
  /\ "cleanup" \in mix
  /\ file[f].status = "fresh"
  /\ file' = [file EXCEPT ![f].status = "old"]
  /\ UNCHANGED <<mix, enrolled, assignment, submission, content, bucket, job>>

\* Bound: a row is kept for every request that may insert one.
RoomLeft == Cardinality({w \in Workers : job[w].step \in {"version", "insert"}})
              < Cardinality({r \in Submissions : submission[r].status = "absent"})

\* submit up to its tries: with a link alone (f is None), or with an own file.
BeginSubmit(w, s, a, f) ==
  /\ assignment[a] = "active" /\ s \in enrolled
  /\ f # None => Kept(f) /\ file[f].s = s
  /\ RoomLeft
  /\ Start(w, "submit", [Idle EXCEPT !.step = "version", !.a = a, !.s = s, !.f = f])
  /\ UNCHANGED <<mix, tables, content, bucket>>

\* The highest version so far; k counts the tries.
Version(w) ==
  LET j == job[w] IN
  /\ At(w, "version")
  /\ Become(w, [j EXCEPT !.step = "insert", !.k = @ + 1,
       !.n = Max({submission[r].version : r \in SubmissionsOf(j.a, j.s)} \cup {0}) + 1])
  /\ UNCHANGED <<mix, tables, content, bucket>>

\* Fault: the key of versions was never created.
VersionTaken_Never(j) == FALSE

\* uq_submission_version
VersionTaken(j) == \E r \in SubmissionsOf(j.a, j.s) : submission[r].version = j.n

\* The assignment or the file is gone: the foreign key refuses the row, and the
\* request fails when it reads what it had loaded.
ParentGone(j) == assignment[j.a] = "deleted" \/ (j.f # None /\ ~Kept(j.f))

Submit(w) ==
  LET j == job[w] IN
  /\ At(w, "insert")
  /\ IF ParentGone(j) THEN Finish(w) /\ UNCHANGED submission
     ELSE IF VersionTaken(j)
       THEN /\ IF j.k < Tries THEN Go(w, "version") ELSE Finish(w)
            /\ UNCHANGED submission
       ELSE /\ \E r \in Submissions :
                 /\ LowestOf(r, {q \in Submissions : submission[q].status = "absent"})
                 /\ submission' = [submission EXCEPT ![r] =
                      [status |-> "submitted", a |-> j.a, s |-> j.s, version |-> j.n, file |-> j.f]]
            /\ Finish(w)
  /\ UNCHANGED <<mix, enrolled, assignment, file, content, bucket>>

\* review: it may be repeated, and overwrites.
Review(r) ==
  /\ AtOnce("review")
  /\ Stands(submission[r])
  /\ submission' = [submission EXCEPT ![r].status = "reviewed"]
  /\ UNCHANGED <<mix, enrolled, assignment, file, content, bucket>>

-----------------------------------------------------------------------------
(* The clean-up of uploads never attached.                                 *)

\* stale_files
Stale == {f \in Files : file[f].status = "old"} \ Attached

BeginCleanup(w) ==
  /\ Stale # {}
  /\ Start(w, "cleanup", [Idle EXCEPT !.step = "clean", !.left = Stale])
  /\ UNCHANGED <<mix, tables, content, bucket>>

\* delete_object of one file after another; one that fails keeps its row.
Clean(w, failed) ==
  LET j == job[w] IN
  /\ At(w, "clean")
  /\ failed => "fail" \in mix
  /\ \E f \in j.left :
       /\ LowestOf(f, j.left)
       /\ bucket' = IF failed THEN bucket ELSE bucket \ {<<"file", f>>}
       /\ Become(w, [j EXCEPT !.left = @ \ {f}, !.seen = IF failed THEN @ ELSE @ \cup {f},
            !.step = IF j.left = {f} THEN "purge" ELSE "clean"])
  /\ UNCHANGED <<mix, tables, content>>

\* The rows go by one commit; a submission forgets its file (ON DELETE SET NULL).
Purge(w) ==
  LET j == job[w] IN
  /\ At(w, "purge")
  /\ file' = [f \in Files |-> IF f \in j.seen THEN [file[f] EXCEPT !.status = "deleted"] ELSE file[f]]
  /\ submission' = [r \in Submissions |->
       IF submission[r].file \in j.seen THEN [submission[r] EXCEPT !.file = None] ELSE submission[r]]
  /\ Finish(w)
  /\ UNCHANGED <<mix, enrolled, assignment, content, bucket>>

-----------------------------------------------------------------------------
(* Materials of a lesson: object, then row; deleted the other way round.   *)

\* create_material up to its object
BeginMaterial(w) ==
  /\ lesson
  /\ \E i \in Materials :
       /\ LowestOf(i, {k \in Materials : material[k] = "absent" /\ Unused("material", k)})
       /\ Start(w, "material", [Idle EXCEPT !.step = "put", !.x = <<"material", i>>])
  /\ UNCHANGED <<mix, tables, content, bucket>>

\* ... and its row; refused with the lesson gone, the object is taken back.
SaveMaterial(w) ==
  LET j == job[w] IN
  /\ At(w, "row") /\ j.op = "material"
  /\ IF lesson THEN material' = [material EXCEPT ![j.x[2]] = "kept"] /\ Finish(w)
     ELSE Become(w, [j EXCEPT !.step = "sweep", !.seen = {j.x}]) /\ UNCHANGED material
  /\ UNCHANGED <<mix, tables, lesson, template, bucket>>

\* Fault: the object goes before the row.
DeleteMaterial_ObjectFirst(w, i) ==
  /\ material[i] = "kept"
  /\ Start(w, "remove", [Idle EXCEPT !.step = "unput", !.seen = {<<"material", i>>}])
  /\ bucket' = bucket \ {<<"material", i>>}
  /\ UNCHANGED <<mix, tables, content>>

\* delete_material: what is to go ...
DeleteMaterial(w, i) ==
  /\ material[i] = "kept"
  /\ Start(w, "remove", [Idle EXCEPT !.step = "unput", !.seen = {<<"material", i>>}])
  /\ UNCHANGED <<mix, tables, content, bucket>>

\* delete_lesson: ... and the same for all the lesson has.
BeginDeleteLesson(w) ==
  /\ lesson
  /\ Start(w, "lesson", [Idle EXCEPT !.step = "unput", !.seen =
       {<<"material", i>> : i \in {k \in Materials : material[k] = "kept"}}])
  /\ UNCHANGED <<mix, tables, content, bucket>>

\* The rows; materials added since go with the lesson (ON DELETE CASCADE).
DeleteRows(w) ==
  LET j == job[w] IN
  /\ At(w, "unput")
  /\ lesson' = (lesson /\ j.op # "lesson")
  /\ material' = [i \in Materials |->
       IF <<"material", i>> \in j.seen \/ (~lesson' /\ material[i] = "kept") THEN "deleted" ELSE material[i]]
  /\ Go(w, "sweep")
  /\ UNCHANGED <<mix, tables, template, bucket>>

\* delete_files: best effort.
Sweep(w, failed) ==
  /\ At(w, "sweep")
  /\ failed => "fail" \in mix
  /\ bucket' = IF failed THEN bucket ELSE bucket \ job[w].seen
  /\ Finish(w)
  /\ UNCHANGED <<mix, tables, content>>

-----------------------------------------------------------------------------
(* A template of the course: one key for each file type.                   *)

\* upload_template: the object, the row's key, and then the object before it.
BeginTemplate(w, ext) ==
  /\ Start(w, "template", [Idle EXCEPT !.step = "put", !.x = <<"template", ext>>, !.a = template])
  /\ UNCHANGED <<mix, tables, content, bucket>>

Stamp(w) ==
  LET j == job[w] IN
  /\ At(w, "stamp")
  /\ template' = j.x[2]
  /\ IF j.a \notin {None, j.x[2]}
     THEN Become(w, [j EXCEPT !.step = "sweep", !.seen = {<<"template", j.a>>}]) ELSE Finish(w)
  /\ UNCHANGED <<mix, tables, lesson, material, bucket>>

\* delete_template: the object ...
BeginClear(w) ==
  /\ template # None
  /\ Start(w, "clear", [Idle EXCEPT !.step = "tidy", !.a = template])
  /\ UNCHANGED <<mix, tables, content, bucket>>

ClearObject(w) ==
  /\ At(w, "tidy")
  /\ bucket' = bucket \ {<<"template", job[w].a>>}
  /\ Go(w, "unstamp")
  /\ UNCHANGED <<mix, tables, content>>

\* ... and then the row.
ClearRow(w) ==
  /\ At(w, "unstamp")
  /\ template' = None
  /\ Finish(w)
  /\ UNCHANGED <<mix, tables, lesson, material, bucket>>

-----------------------------------------------------------------------------

\* S3StorageError ends a request that has written nothing yet.
Fail(w) ==
  /\ "fail" \in mix
  /\ job[w].step \in {"put", "tidy"}
  /\ Finish(w)
  /\ UNCHANGED <<mix, tables, content, bucket>>

\* A worker dies: what it has not committed is gone, what it put in S3 is not.
Crash(w) ==
  /\ "crash" \in mix
  /\ ~At(w, "idle")
  /\ Finish(w)
  /\ UNCHANGED <<mix, tables, content, bucket>>

Init ==
  /\ mix \in Mixes
  /\ enrolled = Students
  /\ assignment = [a \in Assignments |-> IF "create" \in mix THEN "absent" ELSE "active"]
  /\ submission = [r \in Submissions |->
       [status |-> "absent", a |-> None, s |-> None, version |-> 0, file |-> None]]
  /\ file = [f \in Files |-> [status |-> "absent", s |-> None]]
  /\ lesson = TRUE
  /\ material = [i \in Materials |-> "absent"]
  /\ template = None
  /\ bucket = {}
  /\ job = [w \in Workers |-> Idle]

Next ==
  \/ \E a \in Assignments : CreateAssignment(a) \/ UpdateAssignment(a) \/ PassDue(a)
  \/ \E s \in Students : Leave(s)
  \/ \E f \in Files : Age(f)
  \/ \E r \in Submissions : Review(r)
  \/ \E w \in Workers, a \in Assignments :
       \/ BeginDelete(w, a)
       \/ \E s \in Students, f \in Files \cup {None} : BeginSubmit(w, s, a, f)
  \/ \E w \in Workers, s \in Students : BeginUpload(w, s)
  \/ \E w \in Workers, i \in Materials : DeleteMaterial(w, i)
  \/ \E w \in Workers, ext \in Extensions : BeginTemplate(w, ext)
  \/ \E w \in Workers, failed \in BOOLEAN : Clean(w, failed) \/ Sweep(w, failed)
  \/ \E w \in Workers :
       \/ Delete(w) \/ Put(w) \/ SaveFile(w) \/ Version(w) \/ Submit(w)
       \/ BeginCleanup(w) \/ Purge(w)
       \/ BeginMaterial(w) \/ SaveMaterial(w) \/ BeginDeleteLesson(w) \/ DeleteRows(w)
       \/ Stamp(w) \/ BeginClear(w) \/ ClearObject(w) \/ ClearRow(w) \/ Fail(w) \/ Crash(w)

Spec == Init /\ [][Next]_vars

-----------------------------------------------------------------------------
(* Properties.                                                             *)

TypeOK ==
  /\ mix \in Mixes /\ enrolled \subseteq Students /\ lesson \in BOOLEAN
  /\ assignment \in [Assignments -> AssignmentRows]
  /\ submission \in [Submissions -> SubmissionRows]
  /\ file \in [Files -> FileRows]
  /\ material \in [Materials -> {"absent", "kept", "deleted"}]
  /\ template \in Extensions \cup {None} /\ bucket \subseteq Keys
  /\ \A w \in Workers : job[w].op \in AllOps /\ job[w].step \in Steps

\* models/assignment.py: submissions are versions 1, 2, ... of a student's answer,
\* with no number twice and none left out, though two may be handed in at once.
VersionsInOrder ==
  \A a \in Assignments, s \in Students :
    LET mine == SubmissionsOf(a, s) IN
    {submission[r].version : r \in mine} = 1..Cardinality(mine)

\* No material ever points at an object that is not there, through overlaps,
\* failures of S3 and crashes; nor, one request at a time and none dying, does the
\* template of a course or the file of a submission.
FilesAreThere ==
  /\ \A i \in Materials : material[i] = "kept" => <<"material", i>> \in bucket
  /\ Alone /\ "crash" \notin mix =>
       /\ template # None /\ (\A w \in Workers : At(w, "idle")) => <<"template", template>> \in bucket
       /\ \A r \in Submissions :
            Stands(submission[r]) /\ submission[r].file # None => <<"file", submission[r].file>> \in bucket

\* authoring.delete: homework is never thrown away.  What was handed in stays,
\* with its version and its file, one request at a time; with more of them it
\* does as long as nobody deletes assignments or uploads.
HomeworkKept ==
  [][Alone \/ mix \cap {"delete", "cleanup"} = {} =>
       \A r \in Submissions : Stands(submission[r]) =>
         /\ Stands(submission'[r])
         /\ submission'[r] = [submission[r] EXCEPT !.status = submission'[r].status]
         /\ submission[r].status = "reviewed" => submission'[r].status = "reviewed"]_vars
=============================================================================
