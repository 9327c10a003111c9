---------------------------- MODULE HomeworkProofs ----------------------------
(***************************************************************************)
(* What holds of Homework for any number of assignments, students, files,  *)
(* versions and threads.                                                   *)
(***************************************************************************)
EXTENDS Homework, FiniteSetTheorems, TLAPS

-----------------------------------------------------------------------------
(* The shape of tables and requests.                                       *)

StudentFiles == {"file"} \X Files
MaterialKeys == {"material"} \X Materials
TemplateKeys == {"template"} \X Extensions

Jobs == [op: AllOps, step: Steps, a: Assignments \cup Extensions \cup {None}, s: Students \cup {None},
         f: Files \cup {None}, x: Keys \cup {None}, n: Nat, k: Nat,
         seen: SUBSET (Files \cup Keys), left: SUBSET Files]

\* Without a bound on versions: that is a consequence of their order.
SubmissionShape == [status: {"absent", "submitted", "reviewed", "deleted"},
                    a: Assignments \cup {None}, s: Students \cup {None},
                    version: Nat, file: Files \cup {None}]

Tables ==
  /\ mix \in Mixes /\ enrolled \subseteq Students /\ lesson \in BOOLEAN
  /\ assignment \in [Assignments -> AssignmentRows]
  /\ submission \in [Submissions -> SubmissionShape]
  /\ file \in [Files -> FileRows]
  /\ material \in [Materials -> {"absent", "kept", "deleted"}]
  /\ template \in Extensions \cup {None} /\ bucket \subseteq Keys
  /\ job \in [Workers -> Jobs]

\* What a request carries at each of its steps.
JobOK(j) ==
  /\ j.step \in {"put", "row"} =>
       \/ j.op = "upload" /\ j.s \in Students /\ j.x \in StudentFiles
       \/ j.op = "material" /\ j.x \in MaterialKeys
       \/ j.op = "template" /\ j.step = "put" /\ j.a \in Extensions \cup {None} /\ j.x \in TemplateKeys
  /\ j.step = "stamp" => j.op = "template" /\ j.a \in Extensions \cup {None} /\ j.x \in TemplateKeys
  /\ j.step \in {"version", "insert"} => j.a \in Assignments /\ j.s \in Students
  /\ j.step = "insert" => j.n >= 1
  /\ j.step = "drop" => j.op = "delete" /\ j.a \in Assignments
  /\ j.step \in {"clean", "purge"} => j.op = "cleanup" /\ j.seen \subseteq Files
  /\ j.step = "unput" => j.op \in {"remove", "lesson"} /\ j.seen \subseteq MaterialKeys
  /\ j.step = "sweep" =>
       \/ j.op \in {"remove", "lesson"} /\ j.seen \subseteq MaterialKeys
       \/ j.op = "material" /\ j.x \in MaterialKeys /\ j.seen = {j.x}
       \/ j.op = "template" /\ j.seen \subseteq TemplateKeys
  /\ j.step \in {"tidy", "unstamp"} => j.a \in Extensions

JobsOK == \A w \in Workers : JobOK(job[w])

Shape == Tables /\ JobsOK

LEMMA KindsOfKeys ==
  /\ Keys = StudentFiles \cup MaterialKeys \cup TemplateKeys
  /\ \A x \in StudentFiles : x \notin MaterialKeys /\ x \notin TemplateKeys /\ x[2] \in Files /\ x = <<"file", x[2]>>
  /\ \A x \in MaterialKeys : x \notin TemplateKeys /\ x[2] \in Materials /\ x = <<"material", x[2]>>
  /\ \A x \in TemplateKeys : x[2] \in Extensions /\ x = <<"template", x[2]>>
BY DEF Keys, StudentFiles, MaterialKeys, TemplateKeys

\* The steps of Next: those of one thread, and those served at once.
Touches(w) ==
  \/ \E a \in Assignments :
       BeginDelete(w, a) \/ \E s \in Students, f \in Files \cup {None} : BeginSubmit(w, s, a, f)
  \/ \E s \in Students : BeginUpload(w, s)
  \/ \E i \in Materials : DeleteMaterial(w, i)
  \/ \E ext \in Extensions : BeginTemplate(w, ext)
  \/ \E failed \in BOOLEAN : Clean(w, failed) \/ Sweep(w, failed)
  \/ Delete(w) \/ Put(w) \/ SaveFile(w) \/ Version(w) \/ Submit(w) \/ BeginCleanup(w) \/ Purge(w)
  \/ BeginMaterial(w) \/ SaveMaterial(w) \/ BeginDeleteLesson(w) \/ DeleteRows(w)
  \/ Stamp(w) \/ BeginClear(w) \/ ClearObject(w) \/ ClearRow(w) \/ Fail(w) \/ Crash(w)

Elsewhere ==
  \/ \E a \in Assignments : CreateAssignment(a) \/ UpdateAssignment(a) \/ PassDue(a)
  \/ \E s \in Students : Leave(s)
  \/ \E f \in Files : Age(f)
  \/ \E r \in Submissions : Review(r)

LEMMA WhoSteps == [Next]_vars => (\E w \in Workers : Touches(w)) \/ Elsewhere \/ UNCHANGED vars
BY DEF Next, Touches, Elsewhere

LEMMA IdleIsShaped == Idle \in Jobs /\ JobOK(Idle)
BY DEF Idle, Jobs, JobOK, Steps, AllOps

LEMMA ShapeInit == Init => Shape
<1> SUFFICES ASSUME Init PROVE Shape
  OBVIOUS
<1>1. job \in [Workers -> Jobs] /\ JobsOK
  BY IdleIsShaped DEF Init, JobsOK
<1>2. submission \in [Submissions -> SubmissionShape]
  BY DEF Init, SubmissionShape
<1>3. file \in [Files -> FileRows] /\ assignment \in [Assignments -> AssignmentRows]
  BY DEF Init, FileRows, AssignmentRows
<1> QED
  BY <1>1, <1>2, <1>3 DEF Init, Shape, Tables

\* A request that moves on keeps the others as they are.
LEMMA Moved ==
  ASSUME Tables, NEW w \in Workers
  PROVE  /\ \A j : Become(w, j) => job'[w] = j /\ \A v \in Workers \ {w} : job'[v] = job[v]
         /\ Finish(w) => job'[w] = Idle /\ \A v \in Workers \ {w} : job'[v] = job[v]
         /\ \A step : Go(w, step) =>
              job'[w] = [job[w] EXCEPT !.step = step] /\ \A v \in Workers \ {w} : job'[v] = job[v]
         /\ \A op, j : Start(w, op, j) =>
              job'[w] = [j EXCEPT !.op = op] /\ \A v \in Workers \ {w} : job'[v] = job[v]
BY DEF Become, Finish, Go, Start, Tables

LEMMA JobsKept ==
  ASSUME Shape, NEW w \in Workers
  PROVE  /\ \A j \in Jobs : JobOK(j) /\ Become(w, j) => JobsOK' /\ job' \in [Workers -> Jobs]
         /\ Finish(w) => JobsOK' /\ job' \in [Workers -> Jobs]
         /\ \A step \in Steps : Go(w, step) /\ JobOK([job[w] EXCEPT !.step = step]) =>
              JobsOK' /\ job' \in [Workers -> Jobs]
         /\ \A op \in AllOps, j \in Jobs : Start(w, op, j) /\ JobOK([j EXCEPT !.op = op]) =>
              JobsOK' /\ job' \in [Workers -> Jobs]
<1>0. job \in [Workers -> Jobs] /\ job[w] \in Jobs
  BY DEF Shape, Tables
<1>1. ASSUME NEW j \in Jobs, JobOK(j), Become(w, j) PROVE JobsOK' /\ job' \in [Workers -> Jobs]
  <2>1. job' \in [Workers -> Jobs]
    BY <1>0, <1>1 DEF Become
  <2>2. \A v \in Workers : JobOK(job'[v])
    BY <1>1, Moved DEF Shape, JobsOK
  <2> QED
    BY <2>1, <2>2 DEF JobsOK
<1>2. \A step \in Steps : [job[w] EXCEPT !.step = step] \in Jobs
  BY <1>0 DEF Jobs
<1>3. \A op \in AllOps, j \in Jobs : [j EXCEPT !.op = op] \in Jobs
  BY DEF Jobs
<1> QED
  BY <1>1, <1>2, <1>3, IdleIsShaped DEF Finish, Go, Start

\* Assignments.
LEMMA AssignmentShape ==
  ASSUME Shape,
         \/ \E a \in Assignments : CreateAssignment(a) \/ UpdateAssignment(a) \/ PassDue(a)
         \/ \E s \in Students : Leave(s)
         \/ \E f \in Files : Age(f)
         \/ \E r \in Submissions : Review(r)
  PROVE  Shape'
<1>0. /\ assignment \in [Assignments -> AssignmentRows] /\ submission \in [Submissions -> SubmissionShape]
      /\ file \in [Files -> FileRows] /\ enrolled \subseteq Students
  BY DEF Shape, Tables
<1>1. UNCHANGED <<mix, content, bucket, job>> /\ JobsOK'
  BY DEF CreateAssignment, UpdateAssignment, PassDue, Leave, Age, Review, AtOnce, Shape, JobsOK
<1>2. assignment' \in [Assignments -> AssignmentRows]
  BY <1>0 DEF CreateAssignment, UpdateAssignment, PassDue, Leave, Age, Review, AssignmentRows
<1>3. submission' \in [Submissions -> SubmissionShape]
  BY <1>0 DEF CreateAssignment, UpdateAssignment, PassDue, Leave, Age, Review, SubmissionShape
<1>4. file' \in [Files -> FileRows] /\ enrolled' \subseteq Students
  BY <1>0 DEF CreateAssignment, UpdateAssignment, PassDue, Leave, Age, Review, FileRows
<1> QED
  BY <1>1, <1>2, <1>3, <1>4 DEF Shape, Tables, content

LEMMA DeletionShape ==
  ASSUME Shape, NEW w \in Workers, Delete(w) \/ \E a \in Assignments : BeginDelete(w, a)
  PROVE  Shape'
<1>0. /\ assignment \in [Assignments -> AssignmentRows] /\ submission \in [Submissions -> SubmissionShape]
      /\ job[w] \in Jobs /\ JobOK(job[w])
  BY DEF Shape, Tables, JobsOK
<1>1. ASSUME NEW a \in Assignments, BeginDelete(w, a) PROVE Shape'
  <2>1. PICK k \in Nat : Start(w, "delete", [Idle EXCEPT !.step = "drop", !.a = a, !.k = k])
    BY <1>1 DEF BeginDelete
  <2> DEFINE j == [Idle EXCEPT !.step = "drop", !.a = a, !.k = k]
  <2>2. j \in Jobs
    BY IdleIsShaped DEF Idle, Jobs, Steps
  <2>3. JobOK([j EXCEPT !.op = "delete"])
    BY DEF Idle, JobOK
  <2>4. JobsOK' /\ job' \in [Workers -> Jobs]
    BY <2>1, <2>2, <2>3, JobsKept DEF AllOps
  <2> QED
    BY <1>1, <2>4 DEF BeginDelete, Shape, Tables, tables, content
<1>2. CASE Delete(w)
  <2>1. job[w].a \in Assignments
    BY <1>0, <1>2 DEF Delete, At, JobOK
  <2>2. assignment' \in [Assignments -> AssignmentRows]
    BY <1>0, <1>2, <2>1 DEF Delete, AssignmentRows
  <2>3. submission' \in [Submissions -> SubmissionShape]
    BY <1>0, <1>2 DEF Delete, SubmissionShape
  <2>4. JobsOK' /\ job' \in [Workers -> Jobs]
    BY <1>2, JobsKept DEF Delete
  <2> QED
    BY <1>2, <2>2, <2>3, <2>4 DEF Delete, Shape, Tables, content
<1> QED
  BY <1>1, <1>2

\* Uploads, of students and of teachers.
LEMMA UploadShape ==
  ASSUME Shape, NEW w \in Workers,
         \/ \E s \in Students : BeginUpload(w, s)
         \/ BeginMaterial(w) \/ Put(w) \/ SaveFile(w) \/ SaveMaterial(w)
         \/ \E ext \in Extensions : BeginTemplate(w, ext)
         \/ Stamp(w)
  PROVE  Shape'
<1>0. /\ file \in [Files -> FileRows] /\ material \in [Materials -> {"absent", "kept", "deleted"}]
      /\ template \in Extensions \cup {None} /\ bucket \subseteq Keys
      /\ job[w] \in Jobs /\ JobOK(job[w])
  BY DEF Shape, Tables, JobsOK
<1>1. ASSUME NEW s \in Students, BeginUpload(w, s) PROVE Shape'
  <2>1. PICK f \in Files : Start(w, "upload", [Idle EXCEPT !.step = "put", !.s = s, !.x = <<"file", f>>])
    BY <1>1 DEF BeginUpload
  <2> DEFINE j == [Idle EXCEPT !.step = "put", !.s = s, !.x = <<"file", f>>]
  <2>2. <<"file", f>> \in StudentFiles /\ <<"file", f>> \in Keys
    BY DEF StudentFiles, Keys
  <2>3. j \in Jobs /\ JobOK([j EXCEPT !.op = "upload"])
    BY <2>2 DEF Idle, Jobs, JobOK, Steps, AllOps
  <2>4. JobsOK' /\ job' \in [Workers -> Jobs]
    BY <2>1, <2>3, JobsKept DEF AllOps
  <2> QED
    BY <1>1, <2>4 DEF BeginUpload, Shape, Tables, tables, content
<1>2. CASE BeginMaterial(w)
  <2>1. PICK i \in Materials : Start(w, "material", [Idle EXCEPT !.step = "put", !.x = <<"material", i>>])
    BY <1>2 DEF BeginMaterial
  <2> DEFINE j == [Idle EXCEPT !.step = "put", !.x = <<"material", i>>]
  <2>2. <<"material", i>> \in MaterialKeys /\ <<"material", i>> \in Keys
    BY DEF MaterialKeys, Keys
  <2>3. j \in Jobs /\ JobOK([j EXCEPT !.op = "material"])
    BY <2>2 DEF Idle, Jobs, JobOK, Steps, AllOps
  <2>4. JobsOK' /\ job' \in [Workers -> Jobs]
    BY <2>1, <2>3, JobsKept DEF AllOps
  <2> QED
    BY <1>2, <2>4 DEF BeginMaterial, Shape, Tables, tables, content
<1>3. ASSUME NEW ext \in Extensions, BeginTemplate(w, ext) PROVE Shape'
  <2> DEFINE j == [Idle EXCEPT !.step = "put", !.x = <<"template", ext>>, !.a = template]
  <2>2. <<"template", ext>> \in TemplateKeys /\ <<"template", ext>> \in Keys
    BY DEF TemplateKeys, Keys
  <2>3. j \in Jobs
    BY <1>0, <2>2, IdleIsShaped DEF Idle, Jobs, Steps
  <2>4. JobOK([j EXCEPT !.op = "template"])
    BY <1>0, <2>2 DEF Idle, JobOK
  <2>5. JobsOK' /\ job' \in [Workers -> Jobs]
    BY <1>3, <2>3, <2>4, JobsKept DEF BeginTemplate, AllOps
  <2> QED
    BY <1>3, <2>5 DEF BeginTemplate, Shape, Tables, tables, content
<1>4. CASE Put(w)
  <2>1. job[w].x \in Keys
    BY <1>0, <1>4, KindsOfKeys DEF Put, At, JobOK
  <2>2. bucket' \subseteq Keys
    BY <1>0, <1>4, <2>1 DEF Put
  <2>3. PICK step \in {"stamp", "row"} :
          Go(w, step) /\ step = IF job[w].op = "template" THEN "stamp" ELSE "row"
    BY <1>4 DEF Put
  <2>4. JobOK([job[w] EXCEPT !.step = step])
    BY <1>0, <1>4, <2>3 DEF Put, At, Jobs, JobOK
  <2>5. JobsOK' /\ job' \in [Workers -> Jobs]
    BY <2>3, <2>4, JobsKept DEF Steps
  <2> QED
    BY <1>4, <2>2, <2>5 DEF Put, Shape, Tables, tables, content
<1>5. CASE SaveFile(w)
  <2>1. job[w].x[2] \in Files /\ job[w].s \in Students
    BY <1>0, <1>5, KindsOfKeys DEF SaveFile, At, JobOK
  <2>2. file' \in [Files -> FileRows]
    BY <1>0, <1>5, <2>1 DEF SaveFile, FileRows
  <2>3. JobsOK' /\ job' \in [Workers -> Jobs]
    BY <1>5, JobsKept DEF SaveFile
  <2> QED
    BY <1>5, <2>2, <2>3 DEF SaveFile, Shape, Tables, content
<1>6. CASE SaveMaterial(w)
  <2>1. job[w].x \in MaterialKeys /\ job[w].x[2] \in Materials /\ job[w].op = "material"
    BY <1>0, <1>6, KindsOfKeys DEF SaveMaterial, At, JobOK
  <2>2. material' \in [Materials -> {"absent", "kept", "deleted"}]
    BY <1>0, <1>6, <2>1 DEF SaveMaterial
  <2> DEFINE j == [job[w] EXCEPT !.step = "sweep", !.seen = {job[w].x}]
  <2>3. j \in Jobs /\ JobOK(j)
    <3>1. j \in Jobs
      BY <1>0, <2>1, KindsOfKeys DEF Jobs, Steps
    <3>2. j.step = "sweep" /\ j.op = "material" /\ j.x = job[w].x /\ j.seen = {job[w].x}
      BY <1>0, <2>1 DEF Jobs
    <3> HIDE DEF j
    <3> QED
      BY <2>1, <3>1, <3>2 DEF JobOK
  <2>4. JobsOK' /\ job' \in [Workers -> Jobs]
    BY <1>6, <2>3, JobsKept DEF SaveMaterial
  <2> QED
    BY <1>6, <2>2, <2>4 DEF SaveMaterial, Shape, Tables, tables, content
<1>7. CASE Stamp(w)
  <2>1. job[w].x[2] \in Extensions /\ job[w].op = "template" /\ job[w].a \in Extensions \cup {None}
    BY <1>0, <1>7, KindsOfKeys DEF Stamp, At, JobOK
  <2>2. template' \in Extensions
    BY <1>7, <2>1 DEF Stamp
  <2> DEFINE j == [job[w] EXCEPT !.step = "sweep", !.seen = {<<"template", job[w].a>>}]
  <2>3. ASSUME job[w].a # None PROVE j \in Jobs /\ JobOK(j)
    <3>1. {<<"template", job[w].a>>} \subseteq TemplateKeys /\ {<<"template", job[w].a>>} \subseteq Keys
      BY <2>1, <2>3 DEF TemplateKeys, Keys
    <3>2. j \in Jobs
      BY <1>0, <2>1, <3>1 DEF Jobs, Steps
    <3>3. j.step = "sweep" /\ j.op = "template" /\ j.seen = {<<"template", job[w].a>>}
      BY <1>0, <2>1 DEF Jobs
    <3> HIDE DEF j
    <3> QED
      BY <3>1, <3>2, <3>3 DEF JobOK
  <2>4. JobsOK' /\ job' \in [Workers -> Jobs]
    BY <1>7, <2>3, JobsKept DEF Stamp
  <2> QED
    BY <1>7, <2>2, <2>4 DEF Stamp, Shape, Tables, tables, content
<1> QED
  BY <1>1, <1>2, <1>3, <1>4, <1>5, <1>6, <1>7

LEMMA OwnSubmissions ==
  ASSUME NEW a, NEW s
  PROVE  IsFiniteSet(SubmissionsOf(a, s)) /\ Cardinality(SubmissionsOf(a, s)) \in 0..NumSubmissions
<1>1. IsFiniteSet(Submissions) /\ Cardinality(Submissions) = NumSubmissions
  BY HomeworkAssumption, FS_Interval DEF Submissions
<1>2. SubmissionsOf(a, s) \in SUBSET Submissions
  BY DEF SubmissionsOf
<1>3. IsFiniteSet(SubmissionsOf(a, s)) /\ Cardinality(SubmissionsOf(a, s)) <= NumSubmissions
  BY <1>1, <1>2, FS_Subset
<1> QED
  BY <1>3, FS_CardinalityType, HomeworkAssumption

\* While versions are in order the highest of them is their number.
LEMMA HighestVersion ==
  ASSUME VersionsInOrder, NEW a \in Assignments, NEW s \in Students
  PROVE  Max({submission[r].version : r \in SubmissionsOf(a, s)} \cup {0}) = Cardinality(SubmissionsOf(a, s))
<1> DEFINE c == Cardinality(SubmissionsOf(a, s))
           versions == {submission[r].version : r \in SubmissionsOf(a, s)} \cup {0}
<1>1. c \in Nat
  BY OwnSubmissions
<1>2. {submission[r].version : r \in SubmissionsOf(a, s)} = 1..c
  BY DEF VersionsInOrder
<1>3. versions = 0..c
  BY <1>1, <1>2
<1> HIDE DEF c, versions
<1>4. c \in versions /\ \A n \in versions : c >= n /\ n \in Nat
  BY <1>1, <1>3
<1>5. Max(versions) \in versions /\ \A n \in versions : Max(versions) >= n
  BY <1>4 DEF Max
<1>6. Max(versions) = c
  <2>1. Max(versions) >= c /\ c >= Max(versions) /\ Max(versions) \in Nat
    BY <1>4, <1>5
  <2> QED
    BY <1>1, <2>1
<1> QED
  BY <1>6 DEF c, versions

\* Submissions.
LEMMA SubmissionsShape ==
  ASSUME Shape, VersionsInOrder, NEW w \in Workers,
         \/ \E s \in Students, a \in Assignments, f \in Files \cup {None} : BeginSubmit(w, s, a, f)
         \/ Version(w) \/ Submit(w)
  PROVE  Shape'
<1>0. submission \in [Submissions -> SubmissionShape] /\ job[w] \in Jobs /\ JobOK(job[w])
  BY DEF Shape, Tables, JobsOK
<1>1. ASSUME NEW s \in Students, NEW a \in Assignments, NEW f \in Files \cup {None}, BeginSubmit(w, s, a, f)
      PROVE  Shape'
  <2> DEFINE j == [Idle EXCEPT !.step = "version", !.a = a, !.s = s, !.f = f]
  <2>1. j \in Jobs
    BY IdleIsShaped DEF Idle, Jobs, Steps
  <2>2. JobOK([j EXCEPT !.op = "submit"])
    BY DEF Idle, JobOK
  <2>3. JobsOK' /\ job' \in [Workers -> Jobs]
    BY <1>1, <2>1, <2>2, JobsKept DEF BeginSubmit, AllOps
  <2> QED
    BY <1>1, <2>3 DEF BeginSubmit, Shape, Tables, tables, content
<1>2. CASE Version(w)
  <2> DEFINE n == Max({submission[r].version : r \in SubmissionsOf(job[w].a, job[w].s)} \cup {0}) + 1
             j == [job[w] EXCEPT !.step = "insert", !.k = job[w].k + 1, !.n = n]
  <2>1. job[w].step = "version" /\ job[w].a \in Assignments /\ job[w].s \in Students
    BY <1>0, <1>2 DEF Version, At, JobOK
  <2>2. n \in Nat /\ n >= 1
    BY <2>1, HighestVersion, OwnSubmissions
  <2>3. Become(w, j)
    BY <1>2 DEF Version
  <2> HIDE DEF n
  <2>4. j \in Jobs
    <3>1. job[w].k + 1 \in Nat
      BY <1>0 DEF Jobs
    <3> QED
      BY <1>0, <2>2, <3>1 DEF Jobs, Steps
  <2>5. JobOK(j)
    BY <1>0, <2>1, <2>2 DEF Jobs, JobOK
  <2>6. JobsOK' /\ job' \in [Workers -> Jobs]
    BY <2>3, <2>4, <2>5, JobsKept
  <2> QED
    BY <1>2, <2>6 DEF Version, Shape, Tables, tables, content
<1>3. CASE Submit(w)
  <2>1. job[w].step = "insert" /\ job[w].a \in Assignments /\ job[w].s \in Students
    BY <1>0, <1>3 DEF Submit, At, JobOK
  <2>2. [status |-> "submitted", a |-> job[w].a, s |-> job[w].s, version |-> job[w].n, file |-> job[w].f]
          \in SubmissionShape
    BY <1>0, <2>1 DEF Jobs, SubmissionShape
  <2>3. submission' \in [Submissions -> SubmissionShape]
    BY <1>0, <1>3, <2>2 DEF Submit
  <2>4. JobOK([job[w] EXCEPT !.step = "version"])
    BY <1>0, <2>1 DEF Jobs, JobOK
  <2>5. JobsOK' /\ job' \in [Workers -> Jobs]
    BY <1>3, <2>4, JobsKept DEF Submit, Steps
  <2> QED
    BY <1>3, <2>3, <2>5 DEF Submit, Shape, Tables, content
<1> QED
  BY <1>1, <1>2, <1>3

\* Whatever goes away, and requests that end.
LEMMA RemovalShape ==
  ASSUME Shape, NEW w \in Workers,
         \/ BeginCleanup(w) \/ Purge(w)
         \/ \E failed \in BOOLEAN : Clean(w, failed) \/ Sweep(w, failed)
         \/ \E i \in Materials : DeleteMaterial(w, i)
         \/ BeginDeleteLesson(w) \/ DeleteRows(w)
         \/ BeginClear(w) \/ ClearObject(w) \/ ClearRow(w) \/ Fail(w) \/ Crash(w)
  PROVE  Shape'
<1>0. /\ submission \in [Submissions -> SubmissionShape] /\ file \in [Files -> FileRows]
      /\ material \in [Materials -> {"absent", "kept", "deleted"}]
      /\ template \in Extensions \cup {None} /\ bucket \subseteq Keys
      /\ job[w] \in Jobs /\ JobOK(job[w])
  BY DEF Shape, Tables, JobsOK
<1>1. CASE BeginCleanup(w)
  <2> DEFINE j == [Idle EXCEPT !.step = "clean", !.left = Stale]
  <2>1. j \in Jobs
    BY IdleIsShaped DEF Idle, Jobs, Steps, Stale
  <2>2. JobOK([j EXCEPT !.op = "cleanup"])
    BY DEF Idle, JobOK
  <2>3. JobsOK' /\ job' \in [Workers -> Jobs]
    BY <1>1, <2>1, <2>2, JobsKept DEF BeginCleanup, AllOps
  <2> QED
    BY <1>1, <2>3 DEF BeginCleanup, Shape, Tables, tables, content
<1>2. ASSUME NEW failed \in BOOLEAN, Clean(w, failed) PROVE Shape'
  <2>1. PICK f \in Files, step \in {"purge", "clean"}, seen \in SUBSET (Files \cup Keys) :
          /\ seen \in {job[w].seen, job[w].seen \cup {f}}
          /\ Become(w, [job[w] EXCEPT !.left = job[w].left \ {f}, !.seen = seen, !.step = step])
    BY <1>0, <1>2 DEF Clean, Jobs
  <2>2. job[w].op = "cleanup" /\ seen \subseteq Files /\ job[w].left \ {f} \subseteq Files
    BY <1>0, <1>2, <2>1 DEF Clean, At, JobOK, Jobs
  <2> DEFINE left == job[w].left \ {f}
             j == [job[w] EXCEPT !.left = left, !.seen = seen, !.step = step]
  <2> HIDE DEF left
  <2>3. j \in Jobs
    <3>1. left \in SUBSET Files /\ seen \in SUBSET (Files \cup Keys)
      BY <2>2 DEF left
    <3> QED
      BY <1>0, <3>1 DEF Jobs, Steps
  <2>4. JobOK(j)
    BY <1>0, <2>2 DEF Jobs, JobOK
  <2>5. JobsOK' /\ job' \in [Workers -> Jobs]
    BY <2>1, <2>3, <2>4, JobsKept DEF left
  <2>6. bucket' \subseteq Keys
    BY <1>0, <1>2 DEF Clean
  <2> QED
    BY <1>2, <2>5, <2>6 DEF Clean, Shape, Tables, tables, content
<1>3. CASE Purge(w)
  <2>1. submission' \in [Submissions -> SubmissionShape] /\ file' \in [Files -> FileRows]
    BY <1>0, <1>3 DEF Purge, SubmissionShape, FileRows
  <2>2. JobsOK' /\ job' \in [Workers -> Jobs]
    BY <1>3, JobsKept DEF Purge
  <2> QED
    BY <1>3, <2>1, <2>2 DEF Purge, Shape, Tables, content
<1>4. CASE (\E i \in Materials : DeleteMaterial(w, i)) \/ BeginDeleteLesson(w)
  <2>1. PICK op \in {"remove", "lesson"}, gone \in SUBSET MaterialKeys :
          Start(w, op, [Idle EXCEPT !.step = "unput", !.seen = gone])
    <3>1. \A i \in Materials : {<<"material", i>>} \in SUBSET MaterialKeys
      BY DEF MaterialKeys
    <3>2. {<<"material", i>> : i \in {k \in Materials : material[k] = "kept"}} \in SUBSET MaterialKeys
      BY DEF MaterialKeys
    <3> QED
      BY <1>4, <3>1, <3>2 DEF DeleteMaterial, BeginDeleteLesson
  <2> DEFINE j == [Idle EXCEPT !.step = "unput", !.seen = gone]
  <2>2. j \in Jobs
    BY IdleIsShaped, KindsOfKeys DEF Idle, Jobs, Steps
  <2>3. JobOK([j EXCEPT !.op = op])
    BY DEF Idle, JobOK
  <2>4. JobsOK' /\ job' \in [Workers -> Jobs]
    BY <2>1, <2>2, <2>3, JobsKept DEF AllOps
  <2> QED
    BY <1>4, <2>4 DEF DeleteMaterial, BeginDeleteLesson, Shape, Tables, tables, content
<1>5. CASE DeleteRows(w)
  <2>1. job[w].step = "unput" /\ JobOK([job[w] EXCEPT !.step = "sweep"])
    BY <1>0, <1>5 DEF DeleteRows, At, Jobs, JobOK
  <2>2. JobsOK' /\ job' \in [Workers -> Jobs]
    BY <1>5, <2>1, JobsKept DEF DeleteRows, Steps
  <2>3. material' \in [Materials -> {"absent", "kept", "deleted"}] /\ lesson' \in BOOLEAN
    BY <1>0, <1>5 DEF DeleteRows
  <2> QED
    BY <1>5, <2>2, <2>3 DEF DeleteRows, Shape, Tables, tables
<1>6. ASSUME NEW failed \in BOOLEAN, Sweep(w, failed) PROVE Shape'
  <2>1. JobsOK' /\ job' \in [Workers -> Jobs]
    BY <1>6, JobsKept DEF Sweep
  <2>2. bucket' \subseteq Keys
    BY <1>0, <1>6 DEF Sweep
  <2> QED
    BY <1>6, <2>1, <2>2 DEF Sweep, Shape, Tables, tables, content
<1>7. CASE BeginClear(w)
  <2> DEFINE j == [Idle EXCEPT !.step = "tidy", !.a = template]
  <2>1. template \in Extensions
    BY <1>0, <1>7 DEF BeginClear
  <2>2. j \in Jobs
    BY <2>1, IdleIsShaped DEF Idle, Jobs, Steps
  <2>3. JobOK([j EXCEPT !.op = "clear"])
    BY <2>1 DEF Idle, JobOK
  <2>4. JobsOK' /\ job' \in [Workers -> Jobs]
    BY <1>7, <2>2, <2>3, JobsKept DEF BeginClear, AllOps
  <2> QED
    BY <1>7, <2>4 DEF BeginClear, Shape, Tables, tables, content
<1>8. CASE ClearObject(w)
  <2>1. job[w].step = "tidy" /\ JobOK([job[w] EXCEPT !.step = "unstamp"])
    BY <1>0, <1>8 DEF ClearObject, At, Jobs, JobOK
  <2>2. JobsOK' /\ job' \in [Workers -> Jobs]
    BY <1>8, <2>1, JobsKept DEF ClearObject, Steps
  <2>3. bucket' \subseteq Keys
    BY <1>0, <1>8 DEF ClearObject
  <2> QED
    BY <1>8, <2>2, <2>3 DEF ClearObject, Shape, Tables, tables, content
<1>9. CASE ClearRow(w) \/ Fail(w) \/ Crash(w)
  <2>1. JobsOK' /\ job' \in [Workers -> Jobs]
    BY <1>9, JobsKept DEF ClearRow, Fail, Crash
  <2>2. template' \in Extensions \cup {None} /\ UNCHANGED <<mix, tables, lesson, material, bucket>>
    BY <1>0, <1>9 DEF ClearRow, Fail, Crash, content
  <2> QED
    BY <2>1, <2>2 DEF Shape, Tables, tables
<1> QED
  BY <1>1, <1>2, <1>3, <1>4, <1>5, <1>6, <1>7, <1>8, <1>9

LEMMA ShapeNext == Shape /\ VersionsInOrder /\ [Next]_vars => Shape'
<1> SUFFICES ASSUME Shape, VersionsInOrder, [Next]_vars PROVE Shape'
  OBVIOUS
<1>1. ASSUME NEW w \in Workers, Touches(w) PROVE Shape'
  BY <1>1, DeletionShape, UploadShape, SubmissionsShape, RemovalShape DEF Touches
<1>2. CASE Elsewhere
  BY <1>2, AssignmentShape DEF Elsewhere
<1>3. CASE UNCHANGED vars
  BY <1>3 DEF vars, tables, content, Shape, Tables, JobsOK
<1> QED
  BY <1>1, <1>2, <1>3, WhoSteps

-----------------------------------------------------------------------------
(* Versions.                                                               *)

\* A request about to insert has a number that is not past the next one.
NumbersOK ==
  \A w \in Workers : At(w, "insert") /\ assignment[job[w].a] # "deleted" =>
    job[w].n <= Cardinality(SubmissionsOf(job[w].a, job[w].s)) + 1

Versions == VersionsInOrder /\ NumbersOK

LEMMA VersionsInit == Init => Versions
<1> SUFFICES ASSUME Init PROVE Versions
  OBVIOUS
<1>1. \A a, s : SubmissionsOf(a, s) = {}
  BY DEF Init, SubmissionsOf, Stands
<1>2. NumbersOK
  BY DEF Init, NumbersOK, At, Idle
<1>3. VersionsInOrder
  BY <1>1, FS_EmptySet DEF VersionsInOrder
<1> QED
  BY <1>2, <1>3 DEF Versions

LEMMA OthersWait ==
  ASSUME Tables, NEW w \in Workers, Touches(w)
  PROVE  UNCHANGED mix /\ \A v \in Workers \ {w} : job'[v] = job[v]
<1>1. UNCHANGED mix
  BY DEF Touches, BeginDelete, BeginSubmit, BeginUpload, DeleteMaterial, BeginTemplate, Clean, Sweep, Delete, Put,
     SaveFile, Version, Submit, BeginCleanup, Purge, BeginMaterial, SaveMaterial, BeginDeleteLesson, DeleteRows,
     Stamp, BeginClear, ClearObject, ClearRow, Fail, Crash
<1>2. (\E j : Become(w, j)) \/ Finish(w) \/ (\E step : Go(w, step)) \/ (\E op, j : Start(w, op, j))
  BY DEF Touches, BeginDelete, BeginSubmit, BeginUpload, DeleteMaterial, BeginTemplate, Clean, Sweep, Delete, Put,
     SaveFile, Version, Submit, BeginCleanup, Purge, BeginMaterial, SaveMaterial, BeginDeleteLesson, DeleteRows,
     Stamp, BeginClear, ClearObject, ClearRow, Fail, Crash
<1> QED
  BY <1>1, <1>2, Moved

\* The step a request is at when it begins, and the one it goes on to.
LEMMA NextStep ==
  ASSUME Shape, NEW w \in Workers, Touches(w)
  PROVE  /\ job'[w].step = "insert" => Version(w)
         /\ job'[w].step = "put" => \/ \E s \in Students : BeginUpload(w, s)
                                    \/ BeginMaterial(w)
                                    \/ \E ext \in Extensions : BeginTemplate(w, ext)
         /\ job'[w].step \in {"row", "stamp"} => Put(w)
         /\ job'[w].step = "drop" => \E a \in Assignments : BeginDelete(w, a)
         /\ job'[w].step = "clean" => BeginCleanup(w) \/ \E failed \in BOOLEAN : Clean(w, failed)
         /\ job'[w].step = "purge" => \E failed \in BOOLEAN : Clean(w, failed)
         /\ job'[w].step = "unput" => (\E i \in Materials : DeleteMaterial(w, i)) \/ BeginDeleteLesson(w)
         /\ job'[w].step = "sweep" => SaveMaterial(w) \/ DeleteRows(w) \/ Stamp(w)
         /\ job'[w].step = "unstamp" => ClearObject(w)
<1>0. job \in [Workers -> Jobs] /\ job[w] \in Jobs
  BY DEF Shape, Tables
<1>1. CASE Finish(w)
  BY <1>0, <1>1 DEF Finish, Become, Idle
<1>2. ASSUME NEW step \in {"stamp", "row", "version", "sweep", "unstamp"}, Go(w, step)
      PROVE  job'[w].step = step
  BY <1>0, <1>2 DEF Go, Become, Jobs
<1>3. CASE \E a \in Assignments : BeginDelete(w, a)
  <2>1. \E a, k : Start(w, "delete", [Idle EXCEPT !.step = "drop", !.a = a, !.k = k])
    BY <1>3 DEF BeginDelete
  <2>2. job'[w].step = "drop"
    BY <1>0, <2>1 DEF Start, Become, Idle
  <2> QED
    BY <1>3, <2>2
<1>4. CASE \E s \in Students, a \in Assignments, f \in Files \cup {None} : BeginSubmit(w, s, a, f)
  <2>1. job'[w].step = "version"
    BY <1>0, <1>4 DEF BeginSubmit, Start, Become, Idle
  <2> QED
    BY <2>1
<1>5. CASE (\E s \in Students : BeginUpload(w, s)) \/ BeginMaterial(w) \/ \E ext \in Extensions : BeginTemplate(w, ext)
  <2>1. job'[w].step = "put"
    <3>1. ASSUME NEW s \in Students, BeginUpload(w, s) PROVE job'[w].step = "put"
      <4>1. PICK f : Start(w, "upload", [Idle EXCEPT !.step = "put", !.s = s, !.x = <<"file", f>>])
        BY <3>1 DEF BeginUpload
      <4> QED
        BY <1>0, <4>1 DEF Start, Become, Idle
    <3>2. CASE BeginMaterial(w)
      <4>1. PICK i : Start(w, "material", [Idle EXCEPT !.step = "put", !.x = <<"material", i>>])
        BY <3>2 DEF BeginMaterial
      <4> QED
        BY <1>0, <4>1 DEF Start, Become, Idle
    <3>3. ASSUME NEW ext \in Extensions, BeginTemplate(w, ext) PROVE job'[w].step = "put"
      <4>1. Start(w, "template", [Idle EXCEPT !.step = "put", !.x = <<"template", ext>>, !.a = template])
        BY <3>3 DEF BeginTemplate
      <4> QED
        BY <1>0, <4>1 DEF Start, Become, Idle
    <3> QED
      BY <1>5, <3>1, <3>2, <3>3
  <2> QED
    BY <1>5, <2>1
<1>6. CASE (\E i \in Materials : DeleteMaterial(w, i)) \/ BeginDeleteLesson(w)
  <2>1. \E op, gone : Start(w, op, [Idle EXCEPT !.step = "unput", !.seen = gone])
    BY <1>6 DEF DeleteMaterial, BeginDeleteLesson
  <2>2. job'[w].step = "unput"
    BY <1>0, <2>1 DEF Start, Become, Idle
  <2> QED
    BY <1>6, <2>2
<1>7. CASE BeginCleanup(w)
  <2>1. job'[w].step = "clean"
    BY <1>0, <1>7 DEF BeginCleanup, Start, Become, Idle
  <2> QED
    BY <1>7, <2>1
<1>8. CASE BeginClear(w)
  <2>1. job'[w].step = "tidy"
    BY <1>0, <1>8 DEF BeginClear, Start, Become, Idle
  <2> QED
    BY <2>1
<1>9. ASSUME NEW failed \in BOOLEAN, Clean(w, failed) PROVE job'[w].step \in {"purge", "clean"}
  <2>1. \E left, seen, step : /\ step \in {"purge", "clean"}
                              /\ Become(w, [job[w] EXCEPT !.left = left, !.seen = seen, !.step = step])
    BY <1>9 DEF Clean
  <2> QED
    BY <1>0, <2>1 DEF Become, Jobs
<1>10. CASE (SaveMaterial(w) \/ Stamp(w)) /\ ~Finish(w)
  <2>1. \E gone : Become(w, [job[w] EXCEPT !.step = "sweep", !.seen = gone])
    BY <1>10 DEF SaveMaterial, Stamp
  <2>2. job'[w].step = "sweep"
    BY <1>0, <2>1 DEF Become, Jobs
  <2> QED
    BY <1>10, <2>2
<1>11. CASE Version(w)
  <2>1. \E k, n : Become(w, [job[w] EXCEPT !.step = "insert", !.k = k, !.n = n])
    BY <1>11 DEF Version
  <2>2. job'[w].step = "insert"
    BY <1>0, <2>1 DEF Become, Jobs
  <2> QED
    BY <1>11, <2>2
<1>12. CASE Put(w) \/ Submit(w) \/ DeleteRows(w) \/ ClearObject(w)
  BY <1>1, <1>2, <1>12 DEF Put, Submit, DeleteRows, ClearObject
<1>13. CASE Delete(w) \/ SaveFile(w) \/ Purge(w) \/ ClearRow(w) \/ Fail(w) \/ Crash(w)
            \/ \E failed \in BOOLEAN : Sweep(w, failed)
  BY <1>1, <1>13 DEF Delete, SaveFile, Purge, ClearRow, Fail, Crash, Sweep
<1> QED
  BY <1>1, <1>3, <1>4, <1>5, <1>6, <1>7, <1>8, <1>9, <1>10, <1>11, <1>12, <1>13 DEF Touches

\* Steps that leave the submissions of a student what they are.
LEMMA VersionsStay ==
  ASSUME Shape, Versions,
         \A r \in Submissions :
           /\ Stands(submission'[r]) <=> Stands(submission[r])
           /\ Stands(submission[r]) => /\ submission'[r].a = submission[r].a
                                       /\ submission'[r].s = submission[r].s
                                       /\ submission'[r].version = submission[r].version,
         \A a \in Assignments : assignment[a] = "deleted" => assignment'[a] = "deleted",
         \A w \in Workers : ~At(w, "insert")' \/ job'[w] = job[w]
  PROVE  Versions'
<1>1. \A a, s : /\ SubmissionsOf(a, s)' = SubmissionsOf(a, s)
                /\ \A r \in SubmissionsOf(a, s) : submission'[r].version = submission[r].version
  BY DEF SubmissionsOf
<1>2. \A a, s : {submission[r].version : r \in SubmissionsOf(a, s)}' = {submission[r].version : r \in SubmissionsOf(a, s)}
  BY <1>1
<1>3. VersionsInOrder'
  BY <1>1, <1>2 DEF Versions, VersionsInOrder
<1>4. NumbersOK'
  <2> SUFFICES ASSUME NEW v \in Workers, At(v, "insert")', assignment'[job'[v].a] # "deleted"
               PROVE  job'[v].n <= Cardinality(SubmissionsOf(job[v].a, job[v].s)') + 1
    BY DEF NumbersOK
  <2>1. PICK a, s : a \in Assignments /\ job[v].a = a /\ job[v].s = s /\ job'[v] = job[v]
    BY DEF At, Shape, JobsOK, JobOK
  <2>2. SubmissionsOf(job[v].a, job[v].s)' = SubmissionsOf(a, s)
    BY <1>1, <2>1 DEF SubmissionsOf
  <2> QED
    BY <2>1, <2>2 DEF Versions, NumbersOK, At
<1> QED
  BY <1>3, <1>4 DEF Versions

\* The number a request takes is the next.
LEMMA VersionsCounted ==
  ASSUME Shape, Versions, NEW w \in Workers, Version(w)
  PROVE  Versions'
<1>0. job \in [Workers -> Jobs] /\ job[w] \in Jobs /\ JobOK(job[w])
  BY DEF Shape, Tables, JobsOK
<1> DEFINE n == Max({submission[r].version : r \in SubmissionsOf(job[w].a, job[w].s)} \cup {0}) + 1
<1>1. job[w].a \in Assignments /\ job[w].s \in Students
  BY <1>0 DEF Version, At, JobOK
<1>2. n = Cardinality(SubmissionsOf(job[w].a, job[w].s)) + 1
  BY <1>1, HighestVersion DEF Versions
<1>3. Become(w, [job[w] EXCEPT !.step = "insert", !.k = job[w].k + 1, !.n = n])
  BY DEF Version
<1> HIDE DEF n
<1>4. /\ job'[w].a = job[w].a /\ job'[w].s = job[w].s /\ job'[w].n = n
      /\ \A v \in Workers \ {w} : job'[v] = job[v]
  BY <1>0, <1>3 DEF Become, Jobs
<1>5. UNCHANGED <<submission, assignment>>
  BY DEF Version, tables
<1>6. \A a, s : SubmissionsOf(a, s)' = SubmissionsOf(a, s)
  BY <1>5 DEF SubmissionsOf
<1>7. VersionsInOrder'
  BY <1>5, <1>6 DEF Versions, VersionsInOrder
<1>8. ASSUME NEW v \in Workers, At(v, "insert")', assignment'[job'[v].a] # "deleted"
      PROVE  job'[v].n <= Cardinality(SubmissionsOf(job[v].a, job[v].s)') + 1
  <2>1. SubmissionsOf(job[v].a, job[v].s)' = SubmissionsOf(job'[v].a, job'[v].s)
    BY <1>5 DEF SubmissionsOf
  <2>2. CASE v = w
    <3>1. Cardinality(SubmissionsOf(job[w].a, job[w].s)) \in Nat
      BY OwnSubmissions
    <3> QED
      BY <1>2, <1>4, <2>1, <2>2, <3>1
  <2>3. CASE v # w
    BY <1>4, <1>5, <1>8, <2>1, <2>3 DEF Versions, NumbersOK, At
  <2> QED
    BY <2>2, <2>3
<1>9. NumbersOK'
  BY <1>8 DEF NumbersOK
<1> QED
  BY <1>7, <1>9 DEF Versions

\* With the number that is inserted the versions are in order again.
LEMMA VersionsInserted ==
  ASSUME Shape, Versions, NEW w \in Workers, Submit(w), ~UNCHANGED submission
  PROVE  Versions'
<1>0. /\ job[w] \in Jobs /\ JobOK(job[w]) /\ submission \in [Submissions -> SubmissionShape]
  BY DEF Shape, Tables, JobsOK
<1>1. PICK b \in Assignments, t \in Students, n \in Nat :
        job[w].step = "insert" /\ job[w].a = b /\ job[w].s = t /\ job[w].n = n /\ n >= 1
  BY <1>0 DEF Submit, At, JobOK, Jobs
<1>2. /\ assignment[b] # "deleted" /\ ~VersionTaken(job[w]) /\ UNCHANGED assignment
      /\ Finish(w)
  BY <1>1 DEF Submit, ParentGone
<1>3. PICK q \in Submissions :
        /\ submission[q].status = "absent"
        /\ submission' = [submission EXCEPT ![q] =
             [status |-> "submitted", a |-> b, s |-> t, version |-> n, file |-> job[w].f]]
  BY <1>1, <1>2 DEF Submit, LowestOf
<1>4. /\ Stands(submission'[q]) /\ submission'[q].a = b /\ submission'[q].s = t /\ submission'[q].version = n
      /\ ~Stands(submission[q])
      /\ \A r \in Submissions \ {q} : submission'[r] = submission[r]
  BY <1>0, <1>3 DEF Stands
<1>5. n <= Cardinality(SubmissionsOf(b, t)) + 1
  BY <1>1, <1>2 DEF Versions, NumbersOK, At
<1>6. n \notin {submission[r].version : r \in SubmissionsOf(b, t)}
  BY <1>1, <1>2 DEF VersionTaken
<1>7. \A a, s : a # b \/ s # t => SubmissionsOf(a, s)' = SubmissionsOf(a, s)
  BY <1>4 DEF SubmissionsOf
<1>8. SubmissionsOf(b, t)' = SubmissionsOf(b, t) \cup {q} /\ q \notin SubmissionsOf(b, t)
  BY <1>4 DEF SubmissionsOf
<1> DEFINE c == Cardinality(SubmissionsOf(b, t))
<1>9. c \in Nat /\ Cardinality(SubmissionsOf(b, t)') = c + 1
  <2>1. c \in Nat /\ IsFiniteSet(SubmissionsOf(b, t))
    BY OwnSubmissions
  <2>2. Cardinality(SubmissionsOf(b, t) \cup {q}) = c + 1
    BY <1>8, <2>1, FS_AddElement
  <2> QED
    BY <1>8, <2>1, <2>2
<1>10. {submission[r].version : r \in SubmissionsOf(b, t)} = 1..c
  BY <1>1 DEF Versions, VersionsInOrder
<1> HIDE DEF c
<1>11. n = c + 1
  BY <1>1, <1>5, <1>6, <1>9, <1>10 DEF c
<1>12. VersionsInOrder'
  <2> SUFFICES ASSUME NEW a \in Assignments, NEW s \in Students
               PROVE  {submission'[r].version : r \in SubmissionsOf(a, s)'} = 1..Cardinality(SubmissionsOf(a, s)')
    BY DEF VersionsInOrder
  <2>1. CASE a = b /\ s = t
    <3>1. {submission'[r].version : r \in SubmissionsOf(b, t)'} =
            {submission[r].version : r \in SubmissionsOf(b, t)} \cup {n}
      BY <1>4, <1>8 DEF SubmissionsOf
    <3>2. (1..c) \cup {c + 1} = 1..(c + 1)
      BY <1>9
    <3> QED
      BY <1>9, <1>10, <1>11, <2>1, <3>1, <3>2
  <2>2. CASE a # b \/ s # t
    <3>1. SubmissionsOf(a, s)' = SubmissionsOf(a, s) /\ q \notin SubmissionsOf(a, s)
      BY <1>4, <1>7, <2>2 DEF SubmissionsOf
    <3>2. \A r \in SubmissionsOf(a, s) : submission'[r].version = submission[r].version
      BY <1>4, <3>1 DEF SubmissionsOf
    <3> QED
      BY <3>1, <3>2 DEF Versions, VersionsInOrder
  <2> QED
    BY <2>1, <2>2
<1>13. \A a, s : /\ Cardinality(SubmissionsOf(a, s)) \in Nat /\ Cardinality(SubmissionsOf(a, s)') \in Nat
                 /\ Cardinality(SubmissionsOf(a, s)) <= Cardinality(SubmissionsOf(a, s)')
  <2> SUFFICES ASSUME NEW a, NEW s
               PROVE  /\ Cardinality(SubmissionsOf(a, s)) \in Nat /\ Cardinality(SubmissionsOf(a, s)') \in Nat
                      /\ Cardinality(SubmissionsOf(a, s)) <= Cardinality(SubmissionsOf(a, s)')
    OBVIOUS
  <2>1. Cardinality(SubmissionsOf(a, s)) \in Nat
    BY OwnSubmissions
  <2> QED
    BY <1>7, <1>9, <2>1 DEF c
<1>14. NumbersOK'
  <2> SUFFICES ASSUME NEW v \in Workers, At(v, "insert")', assignment'[job'[v].a] # "deleted"
               PROVE  job'[v].n <= Cardinality(SubmissionsOf(job[v].a, job[v].s)') + 1
    BY DEF NumbersOK
  <2>1. v # w /\ job'[v] = job[v]
    BY <1>2, Moved DEF Shape, At, Idle
  <2>2. PICK m \in Nat : job[v].n = m
    <3>1. job[v] \in Jobs
      BY DEF Shape, Tables
    <3>2. job[v].n \in Nat
      BY <3>1 DEF Jobs
    <3> QED
      BY <3>2
  <2>3. PICK a : job[v].a = a
    OBVIOUS
  <2>4. PICK s : job[v].s = s
    OBVIOUS
  <2>5. m <= Cardinality(SubmissionsOf(a, s)) + 1
    BY <1>2, <2>1, <2>2, <2>3, <2>4 DEF Versions, NumbersOK, At
  <2>6. SubmissionsOf(job[v].a, job[v].s)' = SubmissionsOf(a, s)' /\ job'[v].n = m
    BY <2>1, <2>2, <2>3, <2>4 DEF SubmissionsOf
  <2>7. m <= Cardinality(SubmissionsOf(a, s)') + 1
    BY <1>13, <2>5
  <2> QED
    BY <2>6, <2>7
<1> QED
  BY <1>12, <1>14 DEF Versions

\* With an assignment all its versions go, and nothing more is inserted for it.
LEMMA VersionsDeleted ==
  ASSUME Shape, Versions, NEW w \in Workers, Delete(w)
  PROVE  Versions'
<1>0. /\ job[w] \in Jobs /\ JobOK(job[w]) /\ submission \in [Submissions -> SubmissionShape]
      /\ assignment \in [Assignments -> AssignmentRows]
  BY DEF Shape, Tables, JobsOK
<1>1. PICK b \in Assignments : job[w].a = b
  BY <1>0 DEF Delete, At, JobOK
<1>2. job'[w] = Idle /\ \A v \in Workers \ {w} : job'[v] = job[v]
  BY Moved DEF Delete, Shape
<1>3. \A v \in Workers : ~At(v, "insert")' \/ job'[v] = job[v]
  BY <1>2 DEF At, Idle
<1>4. \A a \in Assignments : assignment[a] = "deleted" => assignment'[a] = "deleted"
  BY <1>0, <1>1 DEF Delete
<1>5. CASE UNCHANGED submission
  BY <1>3, <1>4, <1>5, VersionsStay
<1>6. CASE ~UNCHANGED submission
  <2>1. /\ assignment'[b] = "deleted"
        /\ \A r \in Submissions : submission'[r] =
             IF submission[r].a = b THEN [submission[r] EXCEPT !.status = "deleted"] ELSE submission[r]
    BY <1>0, <1>1, <1>6 DEF Delete
  <2>2. \A r \in Submissions : submission[r].a = b => submission'[r].a = b /\ ~Stands(submission'[r])
    BY <1>0, <2>1 DEF Stands, SubmissionShape
  <2>3. \A s : SubmissionsOf(b, s)' = {}
    BY <2>1, <2>2 DEF SubmissionsOf
  <2>4. \A a, s : a # b => SubmissionsOf(a, s)' = SubmissionsOf(a, s)
    BY <2>1, <2>2 DEF SubmissionsOf
  <2>5. VersionsInOrder'
    <3> SUFFICES ASSUME NEW a \in Assignments, NEW s \in Students
                 PROVE  {submission'[r].version : r \in SubmissionsOf(a, s)'} = 1..Cardinality(SubmissionsOf(a, s)')
      BY DEF VersionsInOrder
    <3>1. CASE a = b
      BY <2>3, <3>1, FS_EmptySet
    <3>2. CASE a # b
      <4>1. \A r \in SubmissionsOf(a, s) : submission'[r] = submission[r]
        BY <2>1, <3>2 DEF SubmissionsOf
      <4> QED
        BY <2>4, <3>2, <4>1 DEF Versions, VersionsInOrder
    <3> QED
      BY <3>1, <3>2
  <2>6. NumbersOK'
    <3> SUFFICES ASSUME NEW v \in Workers, At(v, "insert")', assignment'[job'[v].a] # "deleted"
                 PROVE  job'[v].n <= Cardinality(SubmissionsOf(job[v].a, job[v].s)') + 1
      BY DEF NumbersOK
    <3>1. PICK a, s : a \in Assignments /\ job[v].a = a /\ job[v].s = s /\ job'[v] = job[v]
      BY <1>3 DEF At, Shape, JobsOK, JobOK
    <3>2. a # b /\ assignment[a] # "deleted"
      BY <1>4, <2>1, <3>1
    <3>3. SubmissionsOf(job[v].a, job[v].s)' = SubmissionsOf(a, s)
      BY <2>4, <3>1, <3>2 DEF SubmissionsOf
    <3> QED
      BY <3>1, <3>2, <3>3 DEF Versions, NumbersOK, At
  <2> QED
    BY <2>5, <2>6 DEF Versions
<1> QED
  BY <1>5, <1>6

LEMMA VersionsNext == Shape /\ Versions /\ [Next]_vars => Versions'
<1> SUFFICES ASSUME Shape, Versions, [Next]_vars PROVE Versions'
  OBVIOUS
<1>1. ASSUME NEW w \in Workers, Touches(w), ~Delete(w), ~Version(w) PROVE Versions'
  <2>1. \A v \in Workers : ~At(v, "insert")' \/ job'[v] = job[v]
    BY <1>1, NextStep, OthersWait DEF Shape, At
  <2>2. CASE Purge(w)
    <3>1. UNCHANGED assignment
      BY <2>2 DEF Purge
    <3>2. \A r \in Submissions : submission'[r] \in {submission[r], [submission[r] EXCEPT !.file = None]}
      BY <2>2 DEF Purge
    <3>3. \A r \in Submissions :
            /\ submission'[r].status = submission[r].status /\ submission'[r].a = submission[r].a
            /\ submission'[r].s = submission[r].s /\ submission'[r].version = submission[r].version
      BY <3>2 DEF Shape, Tables, SubmissionShape
    <3> QED
      BY <2>1, <3>1, <3>3, VersionsStay DEF Stands
  <2>3. CASE Submit(w) /\ ~UNCHANGED submission
    BY <2>3, VersionsInserted
  <2>4. CASE UNCHANGED <<submission, assignment>>
    BY <2>1, <2>4, VersionsStay
  <2>5. Purge(w) \/ (Submit(w) /\ ~UNCHANGED submission) \/ UNCHANGED <<submission, assignment>>
    BY <1>1 DEF Touches, BeginDelete, BeginSubmit, BeginUpload, DeleteMaterial, BeginTemplate, Clean, Sweep, Put,
       SaveFile, Submit, BeginCleanup, BeginMaterial, SaveMaterial, BeginDeleteLesson, DeleteRows,
       Stamp, BeginClear, ClearObject, ClearRow, Fail, Crash, tables
  <2> QED
    BY <2>2, <2>3, <2>4, <2>5
<1>2. ASSUME NEW w \in Workers, Delete(w) \/ Version(w) PROVE Versions'
  BY <1>2, VersionsDeleted, VersionsCounted
<1>3. CASE Elsewhere
  <2>1. UNCHANGED job
    BY <1>3 DEF Elsewhere, CreateAssignment, UpdateAssignment, PassDue, Leave, Age, Review, AtOnce
  <2>2. \A a \in Assignments : assignment[a] = "deleted" => assignment'[a] = "deleted"
    <3>1. assignment \in [Assignments -> AssignmentRows]
      BY DEF Shape, Tables
    <3> QED
      BY <1>3, <3>1 DEF Elsewhere, CreateAssignment, UpdateAssignment, PassDue, Leave, Age, Review
  <2>3. \A r \in Submissions :
          \/ submission'[r] = submission[r]
          \/ Stands(submission[r]) /\ submission'[r] = [submission[r] EXCEPT !.status = "reviewed"]
    BY <1>3 DEF Elsewhere, CreateAssignment, UpdateAssignment, PassDue, Leave, Age, Review, Shape, Tables
  <2>4. \A r \in Submissions :
          /\ Stands(submission'[r]) <=> Stands(submission[r])
          /\ submission'[r].a = submission[r].a
          /\ submission'[r].s = submission[r].s /\ submission'[r].version = submission[r].version
    BY <2>3 DEF Shape, Tables, SubmissionShape, Stands
  <2> QED
    BY <2>1, <2>2, <2>4, VersionsStay
<1>4. CASE UNCHANGED vars
  BY <1>4, VersionsStay DEF vars, tables
<1> QED
  BY <1>1, <1>2, <1>3, <1>4, WhoSteps

Invariance == Shape /\ Versions

LEMMA InvarianceInit == Init => Invariance
BY ShapeInit, VersionsInit DEF Invariance

LEMMA InvarianceNext == Invariance /\ [Next]_vars => Invariance'
BY ShapeNext, VersionsNext DEF Invariance, Versions

\* The versions a student hands in for an assignment are numbered 1, 2, ... with
\* none twice and none left out, however many are handed in at once: the key
\* uq_submission_version refuses a number taken meanwhile, and the next try
\* counts again (assignments/student.py, submit).
THEOREM VersionsInOrderAlways == Spec => []VersionsInOrder
<1>1. Invariance => VersionsInOrder
  BY DEF Invariance, Versions
<1> QED
  BY <1>1, InvarianceInit, InvarianceNext, PTL DEF Spec

LEMMA RowsKeepNumbers ==
  ASSUME Invariance, [Next]_vars, NEW r \in Submissions
  PROVE  \/ submission'[r].version = submission[r].version
         \/ /\ Stands(submission'[r]) /\ submission'[r].a \in Assignments /\ submission'[r].s \in Students
<1>0. submission \in [Submissions -> SubmissionShape]
  BY DEF Invariance, Shape, Tables
<1>1. ASSUME NEW w \in Workers, Submit(w), ~UNCHANGED submission
      PROVE  \/ submission'[r].version = submission[r].version
             \/ Stands(submission'[r]) /\ submission'[r].a \in Assignments /\ submission'[r].s \in Students
  <2>1. job[w].a \in Assignments /\ job[w].s \in Students
    BY <1>1 DEF Submit, At, Invariance, Shape, JobsOK, JobOK
  <2>2. \E q \in Submissions : submission' = [submission EXCEPT ![q] =
          [status |-> "submitted", a |-> job[w].a, s |-> job[w].s, version |-> job[w].n, file |-> job[w].f]]
    BY <1>1 DEF Submit
  <2> QED
    BY <1>0, <2>1, <2>2 DEF Stands
<1>2. ASSUME NEW w \in Workers, Delete(w) \/ Purge(w) PROVE submission'[r].version = submission[r].version
  BY <1>0, <1>2 DEF Delete, Purge, SubmissionShape
<1>3. ASSUME NEW q \in Submissions, Review(q) PROVE submission'[r].version = submission[r].version
  BY <1>0, <1>3 DEF Review, SubmissionShape
<1>4. \/ UNCHANGED submission
      \/ \E w \in Workers : Delete(w) \/ Purge(w) \/ (Submit(w) /\ ~UNCHANGED submission)
      \/ \E q \in Submissions : Review(q)
  BY DEF Next, CreateAssignment, UpdateAssignment, PassDue, Leave, Age, BeginDelete, BeginSubmit, BeginUpload,
     DeleteMaterial, BeginTemplate, Clean, Sweep, Put, SaveFile, Version, BeginCleanup, BeginMaterial, SaveMaterial,
     BeginDeleteLesson, DeleteRows, Stamp, BeginClear, ClearObject, ClearRow, Fail, Crash, tables, vars
<1> QED
  BY <1>1, <1>2, <1>3, <1>4

LEMMA NumbersBounded ==
  ASSUME Invariance, Invariance', TypeOK, [Next]_vars
  PROVE  submission' \in [Submissions -> SubmissionRows]
<1>1. \A r \in Submissions : submission[r].version \in 0..NumSubmissions
  BY DEF TypeOK, SubmissionRows
<1>2. ASSUME NEW r \in Submissions PROVE submission'[r].version \in 0..NumSubmissions
  <2>1. CASE submission'[r].version = submission[r].version
    BY <1>1, <2>1
  <2>2. ASSUME Stands(submission'[r]), NEW a \in Assignments, NEW s \in Students,
               submission'[r].a = a, submission'[r].s = s
        PROVE  submission'[r].version \in 0..NumSubmissions
    <3>1. {submission'[q].version : q \in SubmissionsOf(a, s)'} = 1..Cardinality(SubmissionsOf(a, s)')
      BY DEF Invariance, Versions, VersionsInOrder
    <3>2. r \in SubmissionsOf(a, s)'
      BY <2>2 DEF SubmissionsOf
    <3>3. submission'[r].version \in 1..Cardinality(SubmissionsOf(a, s)')
      BY <3>1, <3>2
    <3>4. Cardinality(SubmissionsOf(a, s)') <= NumSubmissions /\ Cardinality(SubmissionsOf(a, s)') \in Nat
      <4>1. IsFiniteSet(Submissions) /\ Cardinality(Submissions) = NumSubmissions
        BY HomeworkAssumption, FS_Interval DEF Submissions
      <4>2. SubmissionsOf(a, s)' \in SUBSET Submissions
        BY DEF SubmissionsOf
      <4> QED
        BY <4>1, <4>2, FS_Subset, FS_CardinalityType
    <3> QED
      BY <3>3, <3>4, HomeworkAssumption
  <2> QED
    BY <2>1, <2>2, RowsKeepNumbers
<1> QED
  BY <1>2 DEF Invariance, Shape, Tables, SubmissionShape, SubmissionRows

\* Tables and requests in progress keep their shape, and no version exceeds the
\* number of submissions.
THEOREM HomeworkTypeCorrect == Spec => []TypeOK
<1>1. Invariance /\ submission \in [Submissions -> SubmissionRows] => TypeOK
  BY DEF Invariance, Shape, Tables, Jobs, TypeOK
<1>2. Init => Invariance /\ TypeOK
  <2> SUFFICES ASSUME Init PROVE submission \in [Submissions -> SubmissionRows]
    BY <1>1, InvarianceInit
  <2> QED
    BY HomeworkAssumption DEF Init, SubmissionRows
<1>3. Invariance /\ TypeOK /\ [Next]_vars => (Invariance /\ TypeOK)'
  <2> SUFFICES ASSUME Invariance, TypeOK, [Next]_vars PROVE TypeOK'
    BY InvarianceNext
  <2>1. Invariance'
    BY InvarianceNext
  <2>2. submission' \in [Submissions -> SubmissionRows]
    BY <2>1, NumbersBounded
  <2> QED
    BY <2>1, <2>2 DEF Invariance, Shape, Tables, Jobs, TypeOK
<1> QED
  BY <1>2, <1>3, PTL DEF Spec

-----------------------------------------------------------------------------
(* Materials.                                                              *)

\* A request that puts a material has its key to itself until it has a row.
Holds(w) == job[w].op = "material" /\ job[w].step \in {"put", "row", "sweep"}

MaterialsOK ==
  /\ \A i \in Materials : material[i] = "kept" => <<"material", i>> \in bucket
  /\ \A w \in Workers : Holds(w) =>
       /\ material[job[w].x[2]] = "absent"
       /\ \A v \in Workers : Holds(v) /\ job[v].x = job[w].x => v = w
       /\ At(w, "row") => job[w].x \in bucket
  /\ \A w \in Workers, i \in Materials : <<"material", i>> \in job[w].seen =>
       /\ At(w, "unput") => material[i] # "absent"
       /\ At(w, "sweep") /\ job[w].op # "material" => material[i] = "deleted"

\* A request with no material in its hands.
Plain(j) ==
  /\ ~(j.op = "material" /\ j.step \in {"put", "row", "sweep"})
  /\ j.step # "unput"
  /\ j.step = "sweep" => j.seen \subseteq TemplateKeys

LEMMA MaterialsInit == Init => MaterialsOK
BY DEF Init, MaterialsOK, Holds, At, Idle

LEMMA MaterialsStay ==
  ASSUME Shape, MaterialsOK, UNCHANGED material, NEW w \in Workers,
         \A v \in Workers \ {w} : job'[v] = job[v],
         Plain(job'[w]) \/ job'[w] = job[w],
         bucket \cap MaterialKeys \subseteq bucket'
  PROVE  MaterialsOK'
<1>1. \A i \in Materials : <<"material", i>> \in MaterialKeys /\ <<"material", i>> \notin TemplateKeys
  BY DEF MaterialKeys, TemplateKeys
<1>2. \A i \in Materials : material'[i] = "kept" => <<"material", i>> \in bucket'
  BY <1>1 DEF MaterialsOK
<1>3. \A v \in Workers : Holds(v)' => job'[v] = job[v] /\ Holds(v)
  BY DEF Holds, Plain
<1>4. \A v \in Workers : Holds(v) /\ At(v, "row") => job[v].x \in MaterialKeys
  BY KindsOfKeys DEF Holds, At, Shape, JobsOK, JobOK
<1>5. ASSUME NEW v \in Workers, Holds(v)'
      PROVE  /\ material'[job'[v].x[2]] = "absent"
             /\ \A u \in Workers : Holds(u)' /\ job'[u].x = job'[v].x => u = v
             /\ At(v, "row")' => job'[v].x \in bucket'
  BY <1>3, <1>4, <1>5 DEF MaterialsOK, At
<1>6. ASSUME NEW v \in Workers, NEW i \in Materials, <<"material", i>> \in job'[v].seen
      PROVE  /\ At(v, "unput")' => material'[i] # "absent"
             /\ At(v, "sweep")' /\ job'[v].op # "material" => material'[i] = "deleted"
  <2>1. CASE job'[v] = job[v]
    BY <1>6, <2>1 DEF MaterialsOK, At
  <2>2. CASE v = w /\ Plain(job'[v])
    BY <1>1, <1>6, <2>2 DEF Plain, At
  <2> QED
    BY <2>1, <2>2
<1> QED
  BY <1>2, <1>5, <1>6 DEF MaterialsOK

\* A material begun has a key that no other request and no object has.
LEMMA MaterialBegun ==
  ASSUME Shape, MaterialsOK, NEW w \in Workers, BeginMaterial(w)
  PROVE  MaterialsOK'
<1>0. job \in [Workers -> Jobs]
  BY DEF Shape, Tables
<1>1. PICK i \in Materials :
        /\ material[i] = "absent" /\ \A v \in Workers : job[v].x # <<"material", i>>
        /\ Start(w, "material", [Idle EXCEPT !.step = "put", !.x = <<"material", i>>])
  BY DEF BeginMaterial, LowestOf, Unused
<1>2. /\ job'[w].op = "material" /\ job'[w].step = "put" /\ job'[w].x = <<"material", i>>
      /\ \A v \in Workers \ {w} : job'[v] = job[v]
  BY <1>0, <1>1 DEF Start, Become, Idle
<1>3. UNCHANGED <<material, bucket>>
  BY DEF BeginMaterial, content
<1>4. \A v \in Workers \ {w} : (Holds(v)' <=> Holds(v)) /\ job'[v].x # <<"material", i>>
  BY <1>1, <1>2 DEF Holds
<1>5. ASSUME NEW v \in Workers, Holds(v)'
      PROVE  /\ material'[job'[v].x[2]] = "absent"
             /\ \A u \in Workers : Holds(u)' /\ job'[u].x = job'[v].x => u = v
             /\ At(v, "row")' => job'[v].x \in bucket'
  <2>1. CASE v = w
    BY <1>1, <1>2, <1>3, <1>4, <2>1 DEF At
  <2>2. CASE v # w
    <3>1. \A u \in Workers : Holds(u)' /\ job'[u].x = job'[v].x => u # w /\ Holds(u) /\ job[u].x = job[v].x
      BY <1>2, <1>4, <2>2
    <3> QED
      BY <1>2, <1>3, <1>4, <1>5, <2>2, <3>1 DEF MaterialsOK, At
  <2> QED
    BY <2>1, <2>2
<1>6. \A v \in Workers, k \in Materials : <<"material", k>> \in job'[v].seen =>
        /\ At(v, "unput")' => material'[k] # "absent"
        /\ At(v, "sweep")' /\ job'[v].op # "material" => material'[k] = "deleted"
  BY <1>2, <1>3 DEF MaterialsOK, At
<1> QED
  BY <1>3, <1>5, <1>6 DEF MaterialsOK

\* Its object is put, and then it has its row, or gives the object up.
LEMMA MaterialSaved ==
  ASSUME Shape, MaterialsOK, NEW w \in Workers, job[w].op = "material", Put(w) \/ SaveMaterial(w)
  PROVE  MaterialsOK'
<1>0. /\ job \in [Workers -> Jobs] /\ job[w] \in Jobs /\ JobOK(job[w])
      /\ material \in [Materials -> {"absent", "kept", "deleted"}]
  BY DEF Shape, Tables, JobsOK
<1>1. PICK i \in Materials : job[w].x = <<"material", i>>
  BY <1>0, KindsOfKeys DEF Put, SaveMaterial, At, JobOK
<1>2. /\ Holds(w) /\ material[i] = "absent"
      /\ \A v \in Workers \ {w} : Holds(v) => job[v].x # job[w].x
  BY <1>1 DEF MaterialsOK, Holds, Put, SaveMaterial, At
<1>3. CASE Put(w) \/ ~lesson
  <2>0. job[w].seen \in SUBSET (Files \cup Keys) /\ {job[w].x} \in SUBSET (Files \cup Keys)
    BY <1>0, <1>1 DEF Jobs, Keys
  <2>1. PICK step \in {"row", "sweep"}, gone \in SUBSET (Files \cup Keys) :
          /\ gone \in {job[w].seen, {job[w].x}} /\ step = "sweep" => gone = {job[w].x}
          /\ Become(w, [job[w] EXCEPT !.step = step, !.seen = gone])
    <3>1. CASE Put(w)
      <4>1. Become(w, [job[w] EXCEPT !.step = "row"])
        BY <3>1 DEF Put, Go
      <4>2. [job[w] EXCEPT !.step = "row"] = [job[w] EXCEPT !.step = "row", !.seen = job[w].seen]
        BY <1>0 DEF Jobs
      <4> QED
        BY <2>0, <4>1, <4>2
    <3>2. CASE SaveMaterial(w) /\ ~lesson
      BY <2>0, <3>2 DEF SaveMaterial
    <3> QED
      BY <1>3, <3>1, <3>2
  <2>2. /\ job'[w].op = "material" /\ job'[w].step = step /\ job'[w].x = job[w].x /\ job'[w].seen = gone
        /\ \A v \in Workers \ {w} : job'[v] = job[v]
    BY <1>0, <2>1 DEF Become, Jobs
  <2>3. UNCHANGED material /\ bucket \subseteq bucket' /\ (step = "row" => job[w].x \in bucket')
    <3>1. CASE Put(w)
      BY <3>1 DEF Put, content
    <3>2. CASE SaveMaterial(w) /\ ~lesson
      <4>1. UNCHANGED <<material, bucket>> /\ At(w, "row")
        BY <3>2 DEF SaveMaterial
      <4> QED
        BY <1>2, <4>1 DEF MaterialsOK
    <3> QED
      BY <1>3, <3>1, <3>2
  <2>4. \A v \in Workers : Holds(v)' => Holds(v) /\ job'[v].x = job[v].x
    BY <1>2, <2>2 DEF Holds
  <2>5. ASSUME NEW v \in Workers, Holds(v)'
        PROVE  /\ material'[job'[v].x[2]] = "absent"
               /\ \A u \in Workers : Holds(u)' /\ job'[u].x = job'[v].x => u = v
               /\ At(v, "row")' => job'[v].x \in bucket'
    BY <2>2, <2>3, <2>4, <2>5 DEF MaterialsOK, At
  <2>6. \A v \in Workers, k \in Materials : <<"material", k>> \in job'[v].seen =>
          /\ At(v, "unput")' => material'[k] # "absent"
          /\ At(v, "sweep")' /\ job'[v].op # "material" => material'[k] = "deleted"
    BY <2>2, <2>3 DEF MaterialsOK, At
  <2> QED
    BY <2>3, <2>5, <2>6 DEF MaterialsOK
<1>4. CASE SaveMaterial(w) /\ lesson
  <2>1. /\ material' = [material EXCEPT ![i] = "kept"] /\ UNCHANGED bucket
        /\ job'[w] = Idle /\ \A v \in Workers \ {w} : job'[v] = job[v]
    BY <1>1, <1>4, Moved DEF SaveMaterial, Shape
  <2>2. <<"material", i>> \in bucket
    BY <1>1, <1>2, <1>4 DEF SaveMaterial, MaterialsOK
  <2>3. \A v \in Workers : Holds(v)' => v # w /\ Holds(v) /\ job'[v] = job[v]
    BY <2>1 DEF Holds, Idle
  <2>4. ASSUME NEW v \in Workers, Holds(v)' PROVE material'[job'[v].x[2]] = "absent"
    <3>1. PICK k \in Materials : job[v].x = <<"material", k>>
      BY <2>3, <2>4, KindsOfKeys DEF Holds, Shape, JobsOK, JobOK
    <3>2. k # i /\ material[k] = "absent"
      BY <1>1, <1>2, <2>3, <2>4, <3>1 DEF MaterialsOK
    <3> QED
      BY <1>0, <2>1, <2>3, <2>4, <3>1, <3>2
  <2>5. ASSUME NEW v \in Workers, Holds(v)'
        PROVE  /\ \A u \in Workers : Holds(u)' /\ job'[u].x = job'[v].x => u = v
               /\ At(v, "row")' => job'[v].x \in bucket'
    BY <2>1, <2>3, <2>5 DEF MaterialsOK, At
  <2>6. ASSUME NEW v \in Workers, NEW k \in Materials, <<"material", k>> \in job'[v].seen
        PROVE  /\ At(v, "unput")' => material'[k] # "absent"
               /\ At(v, "sweep")' /\ job'[v].op # "material" => material'[k] = "deleted"
    <3>1. CASE v = w
      BY <2>1, <3>1 DEF At, Idle
    <3>2. CASE v # w
      BY <1>0, <1>2, <2>1, <2>6, <3>2 DEF MaterialsOK, At
    <3> QED
      BY <3>1, <3>2
  <2>7. \A k \in Materials : material'[k] = "kept" => <<"material", k>> \in bucket'
    BY <1>0, <2>1, <2>2 DEF MaterialsOK
  <2> QED
    BY <2>4, <2>5, <2>6, <2>7 DEF MaterialsOK
<1> QED
  BY <1>3, <1>4

\* Materials are removed: the rows, and after them the objects.
LEMMA MaterialRemoved ==
  ASSUME Shape, MaterialsOK, NEW w \in Workers,
         (\E i \in Materials : DeleteMaterial(w, i)) \/ BeginDeleteLesson(w) \/ DeleteRows(w)
  PROVE  MaterialsOK'
<1>0. /\ job \in [Workers -> Jobs] /\ job[w] \in Jobs /\ JobOK(job[w])
      /\ material \in [Materials -> {"absent", "kept", "deleted"}]
  BY DEF Shape, Tables, JobsOK
<1>1. CASE (\E i \in Materials : DeleteMaterial(w, i)) \/ BeginDeleteLesson(w)
  <2>1. PICK op \in {"remove", "lesson"}, gone \in SUBSET MaterialKeys :
          /\ Start(w, op, [Idle EXCEPT !.step = "unput", !.seen = gone])
          /\ \A k \in Materials : <<"material", k>> \in gone => material[k] = "kept"
    <3>1. ASSUME NEW i \in Materials, DeleteMaterial(w, i)
          PROVE  /\ Start(w, "remove", [Idle EXCEPT !.step = "unput", !.seen = {<<"material", i>>}])
                 /\ \A k \in Materials : <<"material", k>> \in {<<"material", i>>} => material[k] = "kept"
      BY <3>1 DEF DeleteMaterial
    <3> DEFINE all == {<<"material", i>> : i \in {m \in Materials : material[m] = "kept"}}
    <3>2. /\ \A k \in Materials : <<"material", k>> \in all => material[k] = "kept"
          /\ all \in SUBSET MaterialKeys
      BY DEF MaterialKeys
    <3>3. \A i \in Materials : {<<"material", i>>} \in SUBSET MaterialKeys
      BY DEF MaterialKeys
    <3>4. BeginDeleteLesson(w) => Start(w, "lesson", [Idle EXCEPT !.step = "unput", !.seen = all])
      BY DEF BeginDeleteLesson
    <3> HIDE DEF all
    <3>5. CASE BeginDeleteLesson(w)
      BY <3>2, <3>4, <3>5
    <3> QED
      BY <1>1, <3>1, <3>3, <3>5
  <2>2. /\ job'[w].op = op /\ job'[w].step = "unput" /\ job'[w].seen = gone
        /\ \A v \in Workers \ {w} : job'[v] = job[v]
    BY <1>0, <2>1 DEF Start, Become, Idle
  <2>3. UNCHANGED <<material, bucket>>
    BY <1>1 DEF DeleteMaterial, BeginDeleteLesson, content
  <2>4. \A v \in Workers : Holds(v)' => Holds(v) /\ job'[v] = job[v]
    BY <2>2 DEF Holds
  <2>5. \A v \in Workers, k \in Materials : <<"material", k>> \in job'[v].seen =>
          /\ At(v, "unput")' => material'[k] # "absent"
          /\ At(v, "sweep")' /\ job'[v].op # "material" => material'[k] = "deleted"
    BY <2>1, <2>2, <2>3 DEF MaterialsOK, At
  <2> QED
    BY <2>3, <2>4, <2>5 DEF MaterialsOK, At
<1>2. CASE DeleteRows(w)
  <2>1. job[w].step = "unput" /\ job[w].op \in {"remove", "lesson"} /\ UNCHANGED bucket
    BY <1>0, <1>2 DEF DeleteRows, At, JobOK
  <2>2. /\ job'[w].op = job[w].op /\ job'[w].step = "sweep" /\ job'[w].seen = job[w].seen
        /\ \A v \in Workers \ {w} : job'[v] = job[v]
    BY <1>0, <1>2 DEF DeleteRows, Go, Become, Jobs
  <2>3. \A k \in Materials :
          /\ material'[k] \in {material[k], "deleted"}
          /\ <<"material", k>> \in job[w].seen => material'[k] = "deleted"
          /\ material[k] = "absent" => material'[k] = "absent"
    <3>1. \A k \in Materials : <<"material", k>> \in job[w].seen => material[k] # "absent"
      BY <2>1 DEF MaterialsOK, At
    <3> QED
      BY <1>0, <1>2, <3>1 DEF DeleteRows
  <2>4. \A v \in Workers : Holds(v)' => Holds(v) /\ job'[v] = job[v]
    BY <2>1, <2>2 DEF Holds
  <2>5. \A v \in Workers : Holds(v) => job[v].x[2] \in Materials
    BY KindsOfKeys DEF Holds, Shape, JobsOK, JobOK
  <2>6. ASSUME NEW v \in Workers, NEW k \in Materials, <<"material", k>> \in job'[v].seen
        PROVE  /\ At(v, "unput")' => material'[k] # "absent"
               /\ At(v, "sweep")' /\ job'[v].op # "material" => material'[k] = "deleted"
    BY <1>0, <2>1, <2>2, <2>3, <2>6 DEF MaterialsOK, At
  <2>7. \A k \in Materials : material'[k] = "kept" => <<"material", k>> \in bucket'
    BY <2>1, <2>3 DEF MaterialsOK
  <2>8. ASSUME NEW v \in Workers, Holds(v)'
        PROVE  /\ material'[job'[v].x[2]] = "absent"
               /\ \A u \in Workers : Holds(u)' /\ job'[u].x = job'[v].x => u = v
               /\ At(v, "row")' => job'[v].x \in bucket'
    <3>1. Holds(v) /\ job'[v] = job[v] /\ job[v].x[2] \in Materials
      BY <2>4, <2>5, <2>8
    <3>2. material'[job'[v].x[2]] = "absent"
      BY <2>3, <3>1 DEF MaterialsOK
    <3>3. \A u \in Workers : Holds(u)' /\ job'[u].x = job'[v].x => u = v
      BY <2>4, <3>1 DEF MaterialsOK
    <3>4. At(v, "row")' => job'[v].x \in bucket'
      BY <2>1, <3>1 DEF MaterialsOK, At
    <3> QED
      BY <3>2, <3>3, <3>4
  <2> QED
    BY <2>6, <2>7, <2>8 DEF MaterialsOK
<1> QED
  BY <1>1, <1>2

\* The objects that are swept away are nobody's.
LEMMA MaterialSwept ==
  ASSUME Shape, MaterialsOK, NEW w \in Workers, NEW failed \in BOOLEAN, Sweep(w, failed)
  PROVE  MaterialsOK'
<1>0. job[w].step = "sweep" /\ JobOK(job[w])
  BY DEF Sweep, At, Shape, JobsOK
<1>1. job'[w] = Idle /\ \A v \in Workers \ {w} : job'[v] = job[v]
  BY Moved DEF Sweep, Shape
<1>2. UNCHANGED material /\ bucket \ job[w].seen \subseteq bucket'
  BY DEF Sweep, content
<1>3. ASSUME NEW i \in Materials, <<"material", i>> \in job[w].seen
      PROVE  material[i] = "deleted" \/ (material[i] = "absent" /\ Holds(w) /\ job[w].x = <<"material", i>>)
  <2>1. <<"material", i>> \notin TemplateKeys
    BY DEF TemplateKeys
  <2>2. CASE job[w].op = "material"
    <3>1. Holds(w) /\ job[w].seen = {job[w].x}
      BY <1>0, <2>2 DEF Holds, JobOK
    <3>2. job[w].x = <<"material", i>> /\ job[w].x[2] = i
      BY <1>3, <3>1
    <3> QED
      BY <3>1, <3>2 DEF MaterialsOK
  <2>3. CASE job[w].op # "material"
    BY <1>0, <1>3, <2>3 DEF MaterialsOK, At
  <2> QED
    BY <2>2, <2>3
<1>4. \A v \in Workers : Holds(v)' => v # w /\ Holds(v) /\ job'[v] = job[v]
  BY <1>1 DEF Holds, Idle
<1>5. \A i \in Materials : material'[i] = "kept" => <<"material", i>> \in bucket'
  BY <1>2, <1>3 DEF MaterialsOK
<1>6. ASSUME NEW v \in Workers, Holds(v)', At(v, "row")' PROVE job'[v].x \in bucket'
  <2>1. Holds(v) /\ At(v, "row") /\ v # w /\ job[v].x \in bucket
    BY <1>4, <1>6 DEF MaterialsOK, At
  <2>2. PICK i \in Materials : job[v].x = <<"material", i>>
    BY <2>1, KindsOfKeys DEF Holds, Shape, JobsOK, JobOK
  <2>3. material[i] = "absent"
    BY <2>1, <2>2 DEF MaterialsOK
  <2>4. job[v].x \notin job[w].seen
    BY <1>3, <2>1, <2>2, <2>3 DEF MaterialsOK
  <2> QED
    BY <1>2, <1>4, <1>6, <2>1, <2>4
<1>7. ASSUME NEW v \in Workers, Holds(v)'
      PROVE  /\ material'[job'[v].x[2]] = "absent"
             /\ \A u \in Workers : Holds(u)' /\ job'[u].x = job'[v].x => u = v
  BY <1>2, <1>4, <1>7 DEF MaterialsOK
<1>8. \A v \in Workers, k \in Materials : <<"material", k>> \in job'[v].seen =>
        /\ At(v, "unput")' => material'[k] # "absent"
        /\ At(v, "sweep")' /\ job'[v].op # "material" => material'[k] = "deleted"
  BY <1>1, <1>2 DEF MaterialsOK, At, Idle
<1> QED
  BY <1>5, <1>6, <1>7, <1>8 DEF MaterialsOK

\* What other steps remove are objects of other kinds.
LEMMA OtherKinds ==
  ASSUME Shape, NEW w \in Workers, Touches(w), \A failed \in BOOLEAN : ~Sweep(w, failed)
  PROVE  bucket \cap MaterialKeys \subseteq bucket'
<1>1. \A f : <<"file", f>> \notin MaterialKeys /\ <<"template", f>> \notin MaterialKeys
  BY DEF MaterialKeys
<1>2. CASE \E failed \in BOOLEAN : Clean(w, failed)
  BY <1>1, <1>2 DEF Clean
<1>3. CASE ClearObject(w)
  BY <1>1, <1>3 DEF ClearObject
<1>4. CASE Put(w)
  BY <1>4 DEF Put
<1>5. CASE UNCHANGED bucket
  BY <1>5
<1>6. UNCHANGED bucket \/ Put(w) \/ ClearObject(w) \/ \E failed \in BOOLEAN : Clean(w, failed)
  BY DEF Touches, BeginDelete, BeginSubmit, BeginUpload, DeleteMaterial, BeginTemplate, Delete, SaveFile, Version,
     Submit, BeginCleanup, Purge, BeginMaterial, SaveMaterial, BeginDeleteLesson, DeleteRows, Stamp, BeginClear,
     ClearRow, Fail, Crash
<1> QED
  BY <1>2, <1>3, <1>4, <1>5, <1>6

LEMMA MaterialsNext == Shape /\ Shape' /\ MaterialsOK /\ [Next]_vars => MaterialsOK'
<1> SUFFICES ASSUME Shape, Shape', MaterialsOK, [Next]_vars PROVE MaterialsOK'
  OBVIOUS
<1> DEFINE Own(w) ==
             \/ BeginMaterial(w) \/ SaveMaterial(w) \/ (job[w].op = "material" /\ Put(w))
             \/ (\E i \in Materials : DeleteMaterial(w, i)) \/ BeginDeleteLesson(w) \/ DeleteRows(w)
             \/ \E failed \in BOOLEAN : Sweep(w, failed)
<1>1. ASSUME NEW w \in Workers, Own(w) PROVE MaterialsOK'
  <2>1. SaveMaterial(w) => job[w].op = "material"
    BY DEF SaveMaterial
  <2> QED
    BY <1>1, <2>1, MaterialBegun, MaterialSaved, MaterialRemoved, MaterialSwept
<1>2. ASSUME NEW w \in Workers, Touches(w), ~Own(w) PROVE MaterialsOK'
  <2>0. job \in [Workers -> Jobs] /\ job[w] \in Jobs /\ JobOK(job'[w])
    BY DEF Shape, Tables, JobsOK
  <2>1. UNCHANGED material
    BY <1>2 DEF Touches, BeginDelete, BeginSubmit, BeginUpload, BeginTemplate, Clean, Delete, Put, SaveFile, Version,
       Submit, BeginCleanup, Purge, Stamp, BeginClear, ClearObject, ClearRow, Fail, Crash, content
  <2>2. bucket \cap MaterialKeys \subseteq bucket'
    BY <1>2, OtherKinds
  <2>3. \A v \in Workers \ {w} : job'[v] = job[v]
    BY <1>2, OthersWait DEF Shape
  <2>4. job'[w].step = "put" => job'[w].op # "material"
    <3>1. ASSUME NEW s \in Students, BeginUpload(w, s) PROVE job'[w].op = "upload"
      <4>1. \E x : Start(w, "upload", [Idle EXCEPT !.step = "put", !.s = s, !.x = x])
        BY <3>1 DEF BeginUpload
      <4> QED
        BY <2>0, <4>1 DEF Start, Become, Idle
    <3>2. ASSUME NEW ext \in Extensions, BeginTemplate(w, ext) PROVE job'[w].op = "template"
      BY <2>0, <3>2 DEF BeginTemplate, Start, Become, Idle
    <3> QED
      BY <1>2, <3>1, <3>2, NextStep
  <2>5. job'[w].step = "row" => job'[w].op # "material"
    <3> SUFFICES ASSUME job'[w].step = "row" PROVE job'[w].op # "material"
      OBVIOUS
    <3>1. Put(w) /\ job[w].op # "material"
      BY <1>2, NextStep
    <3>2. job'[w].op = job[w].op
      BY <2>0, <3>1 DEF Put, Go, Become, Jobs
    <3> QED
      BY <3>1, <3>2
  <2>6. job'[w].step = "sweep" => job'[w].op = "template"
    <3> SUFFICES ASSUME job'[w].step = "sweep" PROVE job'[w].op = "template"
      OBVIOUS
    <3>1. Stamp(w)
      BY <1>2, NextStep
    <3>2. job[w].op = "template" /\ ~Finish(w)
      BY <2>0, <3>1, Moved DEF Stamp, At, Shape, JobsOK, JobOK, Idle
    <3>3. \E gone : Become(w, [job[w] EXCEPT !.step = "sweep", !.seen = gone])
      BY <3>1, <3>2 DEF Stamp
    <3> QED
      BY <2>0, <3>2, <3>3 DEF Become, Jobs
  <2>7. job'[w].step # "unput"
    BY <1>2, NextStep
  <2>8. Plain(job'[w])
    BY <2>0, <2>4, <2>5, <2>6, <2>7 DEF Plain, JobOK
  <2> QED
    BY <2>1, <2>2, <2>3, <2>8, MaterialsStay
<1>3. CASE Elsewhere
  <2>1. UNCHANGED <<material, bucket, job>>
    BY <1>3 DEF Elsewhere, CreateAssignment, UpdateAssignment, PassDue, Leave, Age, Review, AtOnce, content
  <2> QED
    BY <2>1 DEF MaterialsOK, Holds, At
<1>4. CASE UNCHANGED vars
  BY <1>4 DEF vars, content, MaterialsOK, Holds, At
<1> QED
  BY <1>1, <1>2, <1>3, <1>4, WhoSteps

-----------------------------------------------------------------------------
(* Requests served one by one.                                             *)

\* What a clean-up or a deletion found when it began is still so at its commit.
StillTrue(j) ==
  /\ j.step \in {"clean", "purge"} => (j.left \cup j.seen) \cap Attached = {}
  /\ j.step = "drop" /\ j.k # 1 => ~HasSubmissions(j.a)

Singly ==
  Alone =>
    /\ \A v, w \in Workers : v = w \/ At(v, "idle") \/ At(w, "idle")
    /\ \A w \in Workers : StillTrue(job[w])

LEMMA SinglyInit == Init => Singly
BY DEF Init, Singly, StillTrue, Idle, At

\* Who makes a step has the system to itself.
LEMMA Turn ==
  ASSUME Singly, Alone, NEW w \in Workers, Touches(w)
  PROVE  \A v \in Workers \ {w} : At(v, "idle")
<1>1. (\A v \in Workers : At(v, "idle")) \/ ~At(w, "idle")
  BY DEF Touches, BeginDelete, BeginSubmit, BeginUpload, DeleteMaterial, BeginTemplate, Clean, Sweep, Delete, Put,
     SaveFile, Version, Submit, BeginCleanup, Purge, BeginMaterial, SaveMaterial, BeginDeleteLesson, DeleteRows,
     Stamp, BeginClear, ClearObject, ClearRow, Fail, Crash, Start, Admitted, At
<1> QED
  BY <1>1 DEF Singly

LEMMA JustFound ==
  ASSUME Shape, Singly, Alone, NEW w \in Workers, Touches(w)
  PROVE  StillTrue(job[w])'
<1>0. job \in [Workers -> Jobs] /\ job[w] \in Jobs
  BY DEF Shape, Tables
<1>1. CASE \E a \in Assignments : BeginDelete(w, a)
  <2>1. PICK a \in Assignments : BeginDelete(w, a)
    BY <1>1
  <2>2. job'[w].step = "drop" /\ job'[w].a = a /\ job'[w].k = IF HasSubmissions(a) THEN 1 ELSE 0
    BY <1>0, <2>1 DEF BeginDelete, Start, Become, Idle
  <2>3. UNCHANGED submission
    BY <2>1 DEF BeginDelete, tables
  <2> QED
    BY <2>2, <2>3 DEF StillTrue, HasSubmissions
<1>2. CASE BeginCleanup(w)
  <2>1. job'[w].step = "clean" /\ job'[w].left = Stale /\ job'[w].seen = {}
    BY <1>0, <1>2 DEF BeginCleanup, Start, Become, Idle
  <2>2. Attached' = Attached
    BY <1>2 DEF BeginCleanup, tables, Attached
  <2> QED
    BY <2>1, <2>2 DEF StillTrue, Stale
<1>3. CASE \E failed \in BOOLEAN : Clean(w, failed)
  <2>1. PICK failed \in BOOLEAN : Clean(w, failed)
    BY <1>3
  <2>2. PICK f, seen, step :
          /\ f \in job[w].left /\ seen \in {job[w].seen, job[w].seen \cup {f}} /\ step \in {"purge", "clean"}
          /\ Become(w, [job[w] EXCEPT !.left = job[w].left \ {f}, !.seen = seen, !.step = step])
    BY <2>1 DEF Clean
  <2>3. job'[w].step = step /\ job'[w].left = job[w].left \ {f} /\ job'[w].seen = seen
    BY <1>0, <2>2 DEF Become, Jobs
  <2>4. Attached' = Attached /\ (job[w].left \cup job[w].seen) \cap Attached = {}
    BY <2>1 DEF Clean, tables, Attached, Singly, StillTrue, At
  <2>5. job'[w].left \cup job'[w].seen \subseteq job[w].left \cup job[w].seen
    BY <2>2, <2>3
  <2> QED
    BY <2>2, <2>3, <2>4, <2>5 DEF StillTrue
<1>4. CASE job'[w].step \notin {"drop", "clean", "purge"}
  BY <1>4 DEF StillTrue
<1> QED
  BY <1>1, <1>2, <1>3, <1>4, NextStep

LEMMA SinglyNext == Shape /\ Singly /\ [Next]_vars => Singly'
<1> SUFFICES ASSUME Shape, Singly, [Next]_vars PROVE Singly'
  OBVIOUS
<1>1. ASSUME NEW w \in Workers, Touches(w) PROVE Singly'
  <2>1. UNCHANGED mix /\ \A v \in Workers \ {w} : job'[v] = job[v]
    BY <1>1, OthersWait DEF Shape
  <2>2. Alone => \A v \in Workers \ {w} : At(v, "idle")
    BY <1>1, Turn
  <2>3. Alone => StillTrue(job[w])'
    BY <1>1, JustFound
  <2>4. Alone => \A v \in Workers \ {w} : StillTrue(job[v])'
    BY <2>1, <2>2 DEF StillTrue, At
  <2> QED
    BY <2>1, <2>2, <2>3, <2>4 DEF Singly, Alone, At
<1>2. CASE Elsewhere
  <2>1. UNCHANGED <<mix, job>> /\ (UNCHANGED submission \/ (Alone => \A v \in Workers : At(v, "idle")))
    BY <1>2 DEF Elsewhere, CreateAssignment, UpdateAssignment, PassDue, Leave, Age, Review, AtOnce, Admitted
  <2>2. CASE UNCHANGED submission
    BY <2>1, <2>2 DEF Singly, StillTrue, Alone, At, Attached, HasSubmissions
  <2>3. CASE Alone => \A v \in Workers : At(v, "idle")
    <3>1. Alone' => \A v \in Workers : StillTrue(job[v])'
      BY <2>1, <2>3 DEF StillTrue, Alone, At
    <3> QED
      BY <2>1, <3>1 DEF Singly, Alone, At
  <2> QED
    BY <2>1, <2>2, <2>3
<1>3. CASE UNCHANGED vars
  BY <1>3 DEF vars, tables, Singly, StillTrue, Alone, At, Attached, HasSubmissions
<1> QED
  BY <1>1, <1>2, <1>3, WhoSteps

-----------------------------------------------------------------------------
(* What was handed in.                                                     *)

\* A deletion or a clean-up runs only where there are requests of that kind.
Licensed ==
  \A w \in Workers : /\ At(w, "drop") => "delete" \in mix
                     /\ At(w, "clean") \/ At(w, "purge") => "cleanup" \in mix

LEMMA LicensedInit == Init => Licensed
BY DEF Init, Licensed, At, Idle

LEMMA LicensedNext == Shape /\ Licensed /\ [Next]_vars => Licensed'
<1> SUFFICES ASSUME Shape, Licensed, [Next]_vars PROVE Licensed'
  OBVIOUS
<1>1. ASSUME NEW w \in Workers, Touches(w) PROVE Licensed'
  <2>1. UNCHANGED mix /\ \A v \in Workers \ {w} : job'[v] = job[v]
    BY <1>1, OthersWait DEF Shape
  <2>2. At(w, "drop")' => "delete" \in mix
    BY <1>1, NextStep DEF At, BeginDelete, Start, Admitted
  <2>3. (At(w, "clean") \/ At(w, "purge"))' => BeginCleanup(w) \/ \E failed \in BOOLEAN : Clean(w, failed)
    BY <1>1, NextStep DEF At
  <2>4. (At(w, "clean") \/ At(w, "purge"))' => "cleanup" \in mix
    BY <2>3 DEF Licensed, BeginCleanup, Start, Admitted, Clean
  <2> QED
    BY <2>1, <2>2, <2>4 DEF Licensed, At
<1>2. CASE Elsewhere
  BY <1>2 DEF Elsewhere, CreateAssignment, UpdateAssignment, PassDue, Leave, Age, Review, AtOnce, Licensed, At
<1>3. CASE UNCHANGED vars
  BY <1>3 DEF vars, Licensed, At
<1> QED
  BY <1>1, <1>2, <1>3, WhoSteps

LEMMA KeptStep ==
  ASSUME Shape, Singly, Licensed, [Next]_vars, Alone \/ mix \cap {"delete", "cleanup"} = {},
         NEW r \in Submissions, Stands(submission[r])
  PROVE  /\ Stands(submission'[r])
         /\ submission'[r] = [submission[r] EXCEPT !.status = submission'[r].status]
         /\ submission[r].status = "reviewed" => submission'[r].status = "reviewed"
<1>0. submission \in [Submissions -> SubmissionShape] /\ submission[r] \in SubmissionShape
  BY DEF Shape, Tables
<1>1. ASSUME submission'[r] = submission[r]
      PROVE  /\ Stands(submission'[r])
             /\ submission'[r] = [submission[r] EXCEPT !.status = submission'[r].status]
             /\ submission[r].status = "reviewed" => submission'[r].status = "reviewed"
  BY <1>0, <1>1 DEF SubmissionShape
<1>2. ASSUME NEW q \in Submissions, Review(q)
      PROVE  \/ submission'[r] = submission[r]
             \/ submission'[r] = [submission[r] EXCEPT !.status = "reviewed"]
  BY <1>0, <1>2 DEF Review
<1>3. ASSUME submission'[r] = [submission[r] EXCEPT !.status = "reviewed"]
      PROVE  /\ Stands(submission'[r])
             /\ submission'[r] = [submission[r] EXCEPT !.status = submission'[r].status]
             /\ submission[r].status = "reviewed" => submission'[r].status = "reviewed"
  BY <1>0, <1>3 DEF SubmissionShape, Stands
<1>4. ASSUME NEW w \in Workers, Submit(w) PROVE submission'[r] = submission[r]
  <2>1. CASE UNCHANGED submission
    BY <2>1
  <2>2. CASE ~UNCHANGED submission
    <3>1. \E q \in Submissions : \E row : submission[q].status = "absent" /\ submission' = [submission EXCEPT ![q] = row]
      BY <1>4, <2>2 DEF Submit, LowestOf
    <3> QED
      BY <1>0, <3>1 DEF Stands
  <2> QED
    BY <2>1, <2>2
<1>5. ASSUME NEW w \in Workers, Delete(w) PROVE submission'[r] = submission[r]
  <2>1. Alone /\ StillTrue(job[w]) /\ job[w].step = "drop"
    BY <1>5 DEF Delete, Licensed, Singly, At
  <2>2. CASE UNCHANGED submission
    BY <2>2
  <2>3. CASE ~UNCHANGED submission
    <3>1. submission[r].a # job[w].a
      BY <1>5, <2>1, <2>3 DEF Delete, StillTrue, HasSubmissions
    <3> QED
      BY <1>5, <3>1 DEF Delete
  <2> QED
    BY <2>2, <2>3
<1>6. ASSUME NEW w \in Workers, Purge(w) PROVE submission'[r] = submission[r]
  <2>1. Alone /\ StillTrue(job[w]) /\ job[w].step = "purge"
    BY <1>6 DEF Purge, Licensed, Singly, At
  <2>2. submission[r].file \notin job[w].seen
    BY <2>1 DEF StillTrue, Attached
  <2> QED
    BY <1>6, <2>2 DEF Purge
<1>7. \/ UNCHANGED submission
      \/ \E w \in Workers : Delete(w) \/ Purge(w) \/ Submit(w)
      \/ \E q \in Submissions : Review(q)
  BY DEF Next, CreateAssignment, UpdateAssignment, PassDue, Leave, Age, BeginDelete, BeginSubmit, BeginUpload,
     DeleteMaterial, BeginTemplate, Clean, Sweep, Put, SaveFile, Version, BeginCleanup, BeginMaterial, SaveMaterial,
     BeginDeleteLesson, DeleteRows, Stamp, BeginClear, ClearObject, ClearRow, Fail, Crash, tables, vars
<1> QED
  BY <1>1, <1>2, <1>3, <1>4, <1>5, <1>6, <1>7

\* Homework that was handed in stays, with its version and its file, and a review
\* is not undone: one request at a time an assignment with submissions is never
\* dropped (authoring.py, delete) and an attached upload never cleaned up
\* (cleanup.py); without deletions and clean-ups it stays under any interleaving.
THEOREM HomeworkKeptAlways == Spec => HomeworkKept
<1>1. Shape /\ Singly /\ Licensed /\ [Next]_vars =>
        [Alone \/ mix \cap {"delete", "cleanup"} = {} =>
           \A r \in Submissions : Stands(submission[r]) =>
             /\ Stands(submission'[r])
             /\ submission'[r] = [submission[r] EXCEPT !.status = submission'[r].status]
             /\ submission[r].status = "reviewed" => submission'[r].status = "reviewed"]_vars
  BY KeptStep
<1>2. Init => Invariance /\ Singly /\ Licensed
  BY InvarianceInit, SinglyInit, LicensedInit
<1>3. Invariance /\ Singly /\ Licensed /\ [Next]_vars => (Invariance /\ Singly /\ Licensed)'
  BY InvarianceNext, SinglyNext, LicensedNext DEF Invariance
<1>4. Invariance => Shape
  BY DEF Invariance
<1> QED
  BY <1>1, <1>2, <1>3, <1>4, PTL DEF Spec, HomeworkKept

-----------------------------------------------------------------------------
(* Objects, with one request at a time and no worker dying.                *)

Sheltered == Alone /\ "crash" \notin mix

\* The object of a template is there, but while delete_template has removed it and
\* not yet its key; a new one is there before its key is.
TemplateOK ==
  Sheltered =>
    /\ template # None /\ (\A w \in Workers : ~At(w, "unstamp")) => <<"template", template>> \in bucket
    /\ \A w \in Workers : /\ At(w, "stamp") => job[w].x \in bucket
                          /\ At(w, "sweep") => <<"template", template>> \notin job[w].seen

\* The object of an upload is there unless a clean-up has it in its hands.
UploadsOK ==
  Sheltered =>
    /\ \A r \in Submissions :
         Stands(submission[r]) /\ submission[r].file # None => <<"file", submission[r].file>> \in bucket
    /\ \A f \in Files : Kept(f) =>
         \/ <<"file", f>> \in bucket
         \/ \E w \in Workers : job[w].step \in {"clean", "purge"} /\ f \in job[w].seen
    /\ \A w \in Workers : At(w, "row") => job[w].x \in bucket

LEMMA ObjectsInit == Init => TemplateOK /\ UploadsOK
BY DEF Init, TemplateOK, UploadsOK, Stands, Kept, At, Idle

\* What sheltered steps may rely on.
LEMMA ShelteredStep ==
  ASSUME Shape, Singly, NEW w \in Workers, Touches(w), Sheltered'
  PROVE  /\ Sheltered /\ ~Crash(w)
         /\ \A v \in Workers \ {w} : At(v, "idle") /\ job'[v] = job[v]
<1>1. UNCHANGED mix /\ \A v \in Workers \ {w} : job'[v] = job[v]
  BY OthersWait DEF Shape
<1>2. Sheltered
  BY <1>1 DEF Sheltered, Alone
<1>3. ~Crash(w)
  BY <1>2 DEF Crash, Sheltered
<1> QED
  BY <1>1, <1>2, <1>3, Turn DEF Sheltered

LEMMA TemplateStep ==
  ASSUME Shape, Shape', Singly, TemplateOK, NEW w \in Workers, Touches(w)
  PROVE  TemplateOK'
<1> SUFFICES ASSUME Sheltered'
             PROVE  /\ template' # None /\ ~At(w, "unstamp")' => <<"template", template'>> \in bucket'
                    /\ At(w, "stamp")' => job'[w].x \in bucket'
                    /\ At(w, "sweep")' => <<"template", template'>> \notin job'[w].seen
  <2>1. Sheltered' => \A v \in Workers \ {w} : At(v, "idle") /\ job'[v] = job[v]
    BY ShelteredStep
  <2> QED
    BY <2>1 DEF TemplateOK, At
<1>0. /\ job \in [Workers -> Jobs] /\ job[w] \in Jobs /\ JobOK(job[w]) /\ JobOK(job'[w])
      /\ template \in Extensions \cup {None} /\ template' \in Extensions \cup {None}
  BY DEF Shape, Tables, JobsOK
<1>1. /\ Sheltered /\ ~Crash(w)
      /\ \A v \in Workers \ {w} : At(v, "idle") /\ job'[v] = job[v]
  BY ShelteredStep
<1>2. /\ template # None /\ ~At(w, "unstamp") => <<"template", template>> \in bucket
      /\ At(w, "stamp") => job[w].x \in bucket
      /\ At(w, "sweep") => <<"template", template>> \notin job[w].seen
  BY <1>1 DEF TemplateOK, At
<1>3. \A t : <<"template", t>> \notin MaterialKeys /\ <<"template", t>> \notin StudentFiles
  BY DEF MaterialKeys, StudentFiles
<1>4. CASE Stamp(w)
  <2>1. job[w].x = <<"template", template'>> /\ template' = job[w].x[2] /\ UNCHANGED bucket
    BY <1>0, <1>4, KindsOfKeys DEF Stamp, At, JobOK
  <2>2. <<"template", template'>> \in bucket'
    BY <1>2, <1>4, <2>1 DEF Stamp
  <2>3. CASE Finish(w)
    BY <2>2, <2>3, Moved DEF Shape, At, Idle
  <2>4. CASE ~Finish(w)
    <3>1. /\ job[w].a # template'
          /\ Become(w, [job[w] EXCEPT !.step = "sweep", !.seen = {<<"template", job[w].a>>}])
      BY <1>4, <2>1, <2>4 DEF Stamp
    <3>2. job'[w].step = "sweep" /\ job'[w].seen = {<<"template", job[w].a>>}
      BY <1>0, <3>1 DEF Become, Jobs
    <3> QED
      BY <2>2, <3>1, <3>2 DEF At
  <2> QED
    BY <2>3, <2>4
<1>5. CASE ClearRow(w)
  <2>1. template' = None /\ job'[w] = Idle
    BY <1>5, Moved DEF ClearRow, Shape
  <2> QED
    BY <2>1 DEF At, Idle
<1>6. CASE ClearObject(w)
  <2>1. job'[w].step = "unstamp"
    BY <1>0, <1>6 DEF ClearObject, Go, Become, Jobs
  <2> QED
    BY <2>1 DEF At
<1>7. CASE Put(w)
  <2>1. UNCHANGED template /\ bucket' = bucket \cup {job[w].x} /\ ~At(w, "unstamp")
    BY <1>7 DEF Put, content, At
  <2>2. job'[w].x = job[w].x /\ job'[w].step \in {"stamp", "row"}
    BY <1>0, <1>7 DEF Put, Go, Become, Jobs
  <2> QED
    BY <1>2, <2>1, <2>2 DEF At
<1>8. CASE \E failed \in BOOLEAN : Sweep(w, failed)
  <2>1. UNCHANGED template /\ bucket \ job[w].seen \subseteq bucket' /\ At(w, "sweep")
    BY <1>8 DEF Sweep, content
  <2>2. job'[w] = Idle
    BY <1>8, Moved DEF Sweep, Shape
  <2> QED
    BY <1>2, <2>1, <2>2 DEF At, Idle
<1>9. CASE \E failed \in BOOLEAN : Clean(w, failed)
  <2>1. PICK f : UNCHANGED template /\ bucket \ {<<"file", f>>} \subseteq bucket' /\ At(w, "clean")
    BY <1>9 DEF Clean, content
  <2>2. ~At(w, "stamp")' /\ ~At(w, "sweep")'
    BY <1>9, NextStep DEF At, Clean, Put, SaveMaterial, DeleteRows, Stamp
  <2>3. \A t : <<"template", t>> # <<"file", f>>
    OBVIOUS
  <2> QED
    BY <1>2, <2>1, <2>2, <2>3 DEF At
<1>10. CASE UNCHANGED <<template, bucket>> /\ ~Put(w) /\ ~Stamp(w) /\ ~ClearRow(w)
  <2>1. ~At(w, "unstamp")
    BY <1>1, <1>10 DEF Touches, BeginDelete, BeginSubmit, BeginUpload, DeleteMaterial, BeginTemplate, Clean, Sweep,
       Delete, SaveFile, Version, Submit, BeginCleanup, Purge, BeginMaterial, SaveMaterial, BeginDeleteLesson,
       DeleteRows, BeginClear, ClearObject, Fail, Start, At
  <2>2. ~At(w, "stamp")'
    BY <1>10, NextStep DEF At
  <2>3. ASSUME At(w, "sweep")' PROVE <<"template", template'>> \notin job'[w].seen
    <3>1. SaveMaterial(w) \/ DeleteRows(w)
      BY <1>10, <2>3, NextStep DEF At
    <3>2. job[w].op \in {"material", "remove", "lesson"}
      BY <1>0, <3>1 DEF SaveMaterial, DeleteRows, At, JobOK
    <3>3. job'[w].op = job[w].op
      <4>1. CASE Finish(w)
        BY <2>3, <4>1, Moved DEF Shape, At, Idle
      <4>2. CASE ~Finish(w)
        <5>1. \/ Go(w, "sweep")
              \/ \E gone : Become(w, [job[w] EXCEPT !.step = "sweep", !.seen = gone])
          BY <3>1, <4>2 DEF SaveMaterial, DeleteRows
        <5> QED
          BY <1>0, <5>1 DEF Go, Become, Jobs
      <4> QED
        BY <4>1, <4>2
    <3>4. job'[w].seen \subseteq MaterialKeys
      BY <1>0, <2>3, <3>2, <3>3 DEF JobOK, At
    <3> QED
      BY <1>3, <3>4
  <2> QED
    BY <1>2, <1>10, <2>1, <2>2, <2>3
<1>11. \/ UNCHANGED <<template, bucket>>
       \/ Stamp(w) \/ ClearRow(w) \/ ClearObject(w) \/ Put(w)
       \/ \E failed \in BOOLEAN : Clean(w, failed) \/ Sweep(w, failed)
  BY DEF Touches, BeginDelete, BeginSubmit, BeginUpload, DeleteMaterial, BeginTemplate, Delete, SaveFile, Version,
     Submit, BeginCleanup, Purge, BeginMaterial, SaveMaterial, BeginDeleteLesson, DeleteRows, BeginClear, Fail,
     Crash, content
<1> QED
  BY <1>4, <1>5, <1>6, <1>7, <1>8, <1>9, <1>10, <1>11

\* Steps that leave students' uploads alone: no row of theirs changes, and objects
\* of other kinds come and go.
LEMMA UploadsStay ==
  ASSUME Shape, Shape', Singly, UploadsOK, NEW w \in Workers, Touches(w),
         UNCHANGED <<submission, file>>, bucket \cap StudentFiles \subseteq bucket',
         ~At(w, "clean"), ~At(w, "purge"), At(w, "row")' => job'[w].x \in bucket'
  PROVE  UploadsOK'
<1>1. \A f \in Files : <<"file", f>> \in StudentFiles
  BY DEF StudentFiles
<1> SUFFICES ASSUME Sheltered' PROVE UploadsOK'
  BY DEF UploadsOK
<1>2. Sheltered /\ \A v \in Workers \ {w} : At(v, "idle") /\ job'[v] = job[v]
  BY ShelteredStep
<1>3. \A r \in Submissions : submission[r].file # None => submission[r].file \in Files
  BY DEF Shape, Tables, SubmissionShape
<1>4. \A r \in Submissions :
        Stands(submission'[r]) /\ submission'[r].file # None => <<"file", submission'[r].file>> \in bucket'
  BY <1>1, <1>2, <1>3 DEF UploadsOK
<1>5. \A f \in Files : Kept(f)' => <<"file", f>> \in bucket'
  BY <1>1, <1>2 DEF UploadsOK, Kept, At
<1>6. \A v \in Workers : At(v, "row")' => job'[v].x \in bucket'
  BY <1>2 DEF At
<1> QED
  BY <1>4, <1>5, <1>6 DEF UploadsOK

LEMMA UploadsCleaned ==
  ASSUME Shape, Shape', Singly, UploadsOK, NEW w \in Workers, Touches(w),
         Purge(w) \/ \E failed \in BOOLEAN : Clean(w, failed)
  PROVE  UploadsOK'
<1> SUFFICES ASSUME Sheltered' PROVE UploadsOK'
  BY DEF UploadsOK
<1>0. /\ job \in [Workers -> Jobs] /\ job[w] \in Jobs /\ submission \in [Submissions -> SubmissionShape]
      /\ file \in [Files -> FileRows]
  BY DEF Shape, Tables
<1>1. Sheltered /\ \A v \in Workers \ {w} : At(v, "idle") /\ job'[v] = job[v]
  BY ShelteredStep
<1>2. StillTrue(job[w])
  BY <1>1 DEF Singly, Sheltered
<1>3. CASE Purge(w)
  <2>1. /\ job[w].step = "purge" /\ UNCHANGED bucket /\ job'[w] = Idle
        /\ \A r \in Submissions : submission'[r] =
             IF submission[r].file \in job[w].seen THEN [submission[r] EXCEPT !.file = None] ELSE submission[r]
        /\ \A f \in Files : file'[f] = IF f \in job[w].seen THEN [file[f] EXCEPT !.status = "deleted"] ELSE file[f]
    BY <1>3, Moved DEF Purge, At, Shape
  <2>2. \A r \in Submissions : Stands(submission'[r]) => submission'[r] = submission[r] /\ Stands(submission[r])
    <3> SUFFICES ASSUME NEW r \in Submissions, Stands(submission'[r])
                 PROVE  submission'[r] = submission[r] /\ Stands(submission[r])
      OBVIOUS
    <3>1. submission'[r].status = submission[r].status
      BY <1>0, <2>1 DEF SubmissionShape
    <3>3. Stands(submission[r])
      BY <3>1 DEF Stands
    <3>2. submission[r].file \notin job[w].seen
      BY <1>2, <2>1, <3>3 DEF StillTrue, Attached
    <3> QED
      BY <2>1, <3>3, <3>2
  <2>3. \A f \in Files : Kept(f)' => Kept(f) /\ f \notin job[w].seen
    BY <1>0, <2>1 DEF Kept, FileRows
  <2>4. \A f \in Files : Kept(f)' => <<"file", f>> \in bucket'
    BY <1>1, <2>1, <2>3 DEF UploadsOK, At
  <2>5. \A v \in Workers : ~At(v, "row")'
    BY <1>1, <2>1 DEF At, Idle
  <2> QED
    BY <1>1, <2>1, <2>2, <2>4, <2>5 DEF UploadsOK
<1>4. ASSUME NEW failed \in BOOLEAN, Clean(w, failed) PROVE UploadsOK'
  <2>1. PICK f \in job[w].left :
          /\ job[w].step = "clean" /\ UNCHANGED <<submission, file>>
          /\ bucket' = IF failed THEN bucket ELSE bucket \ {<<"file", f>>}
          /\ Become(w, [job[w] EXCEPT !.left = job[w].left \ {f},
               !.seen = IF failed THEN job[w].seen ELSE job[w].seen \cup {f},
               !.step = IF job[w].left = {f} THEN "purge" ELSE "clean"])
    BY <1>4 DEF Clean, At, tables
  <2>2. job'[w].step \in {"purge", "clean"} /\ job'[w].seen = IF failed THEN job[w].seen ELSE job[w].seen \cup {f}
    BY <1>0, <2>1 DEF Become, Jobs
  <2>3. \A r \in Submissions : Stands(submission[r]) => submission[r].file # f
    BY <1>2, <2>1 DEF StillTrue, Attached
  <2>4. \A r \in Submissions :
          Stands(submission'[r]) /\ submission'[r].file # None => <<"file", submission'[r].file>> \in bucket'
    BY <1>1, <2>1, <2>3 DEF UploadsOK
  <2>5. ASSUME NEW g \in Files, Kept(g)'
        PROVE  <<"file", g>> \in bucket' \/ g \in job'[w].seen
    <3>1. <<"file", g>> \in bucket \/ g \in job[w].seen
      BY <1>1, <2>1, <2>5 DEF UploadsOK, Kept, At
    <3> QED
      BY <2>1, <2>2, <3>1
  <2>6. \A v \in Workers : ~At(v, "row")'
    BY <1>1, <2>2 DEF At
  <2> QED
    BY <2>2, <2>4, <2>5, <2>6 DEF UploadsOK
<1> QED
  BY <1>3, <1>4

LEMMA UploadsAttached ==
  ASSUME Shape, Shape', Singly, UploadsOK, NEW w \in Workers, Touches(w),
         Submit(w) \/ Delete(w) \/ SaveFile(w)
  PROVE  UploadsOK'
<1> SUFFICES ASSUME Sheltered' PROVE UploadsOK'
  BY DEF UploadsOK
<1>0. /\ job \in [Workers -> Jobs] /\ job[w] \in Jobs /\ JobOK(job[w])
      /\ submission \in [Submissions -> SubmissionShape] /\ file \in [Files -> FileRows]
  BY DEF Shape, Tables, JobsOK
<1>1. Sheltered /\ \A v \in Workers \ {w} : At(v, "idle") /\ job'[v] = job[v]
  BY ShelteredStep
<1>2. UNCHANGED bucket /\ job[w].step \in {"insert", "drop", "row"}
  BY DEF Submit, Delete, SaveFile, At
<1>3. \A f \in Files : Kept(f) => <<"file", f>> \in bucket
  BY <1>1, <1>2 DEF UploadsOK, At
<1>4. \A v \in Workers : ~At(v, "row")'
  <2>1. ~At(w, "row")'
    BY <1>2, NextStep DEF At, Put
  <2> QED
    BY <1>1, <2>1 DEF At
<1>5. \A r \in Submissions :
        Stands(submission'[r]) /\ submission'[r].file # None => <<"file", submission'[r].file>> \in bucket
  <2>1. CASE Submit(w) /\ ~UNCHANGED submission
    <3>1. job[w].f # None => job[w].f \in Files /\ Kept(job[w].f)
      BY <1>0, <2>1 DEF Submit, ParentGone, Jobs
    <3>2. \E q \in Submissions : submission' = [submission EXCEPT ![q] =
            [status |-> "submitted", a |-> job[w].a, s |-> job[w].s, version |-> job[w].n, file |-> job[w].f]]
      BY <2>1 DEF Submit
    <3>3. \A r \in Submissions : submission'[r] = submission[r] \/ submission'[r].file = job[w].f
      BY <1>0, <3>2
    <3> QED
      BY <1>1, <1>3, <3>1, <3>3 DEF UploadsOK
  <2>2. CASE Delete(w)
    <3>1. \A r \in Submissions :
            submission'[r] = submission[r] \/ submission'[r] = [submission[r] EXCEPT !.status = "deleted"]
      BY <1>0, <2>2 DEF Delete
    <3>2. \A r \in Submissions : Stands(submission'[r]) => submission'[r] = submission[r]
      BY <1>0, <3>1 DEF Stands, SubmissionShape
    <3> QED
      BY <1>1, <3>2 DEF UploadsOK
  <2>3. CASE UNCHANGED submission
    BY <1>1, <2>3 DEF UploadsOK
  <2> QED
    BY <2>1, <2>2, <2>3 DEF SaveFile
<1>6. \A f \in Files : Kept(f)' => <<"file", f>> \in bucket
  <2>1. CASE SaveFile(w)
    <3>1. job[w].x = <<"file", job[w].x[2]>> /\ job[w].x \in bucket
      BY <1>0, <1>1, <2>1, KindsOfKeys DEF SaveFile, UploadsOK, At, JobOK
    <3>2. \A f \in Files : f # job[w].x[2] => file'[f] = file[f]
      BY <1>0, <2>1 DEF SaveFile
    <3> QED
      BY <1>3, <3>1, <3>2 DEF Kept
  <2>2. CASE UNCHANGED file
    BY <1>3, <2>2 DEF Kept
  <2> QED
    BY <2>1, <2>2 DEF Submit, Delete
<1> QED
  BY <1>2, <1>4, <1>5, <1>6 DEF UploadsOK

LEMMA UploadsStep ==
  ASSUME Shape, Shape', Singly, UploadsOK, NEW w \in Workers, Touches(w)
  PROVE  UploadsOK'
<1>0. job \in [Workers -> Jobs] /\ job[w] \in Jobs /\ JobOK(job[w])
  BY DEF Shape, Tables, JobsOK
<1>1. CASE Purge(w) \/ \E failed \in BOOLEAN : Clean(w, failed)
  BY <1>1, UploadsCleaned
<1>2. CASE Submit(w) \/ Delete(w) \/ SaveFile(w)
  BY <1>2, UploadsAttached
<1>3. CASE Crash(w)
  BY <1>3, ShelteredStep DEF UploadsOK
<1>4. ASSUME ~Purge(w), \A failed \in BOOLEAN : ~Clean(w, failed), ~Submit(w), ~Delete(w), ~SaveFile(w), ~Crash(w)
      PROVE  UploadsOK'
  <2>1. UNCHANGED <<submission, file>> /\ ~At(w, "clean") /\ ~At(w, "purge")
    BY <1>4 DEF Touches, BeginDelete, BeginSubmit, BeginUpload, DeleteMaterial, BeginTemplate, Sweep, Put, Version,
       BeginCleanup, BeginMaterial, SaveMaterial, BeginDeleteLesson, DeleteRows, Stamp, BeginClear, ClearObject,
       ClearRow, Fail, Start, At, tables
  <2>2. bucket \cap StudentFiles \subseteq bucket'
    <3>1. CASE \E failed \in BOOLEAN : Sweep(w, failed)
      <4>1. job[w].seen \cap StudentFiles = {}
        BY <1>0, <3>1, KindsOfKeys DEF Sweep, At, JobOK
      <4>2. bucket \ job[w].seen \subseteq bucket'
        BY <3>1 DEF Sweep
      <4> QED
        BY <4>1, <4>2
    <3>2. CASE ClearObject(w)
      BY <3>2 DEF ClearObject, StudentFiles
    <3>3. CASE Put(w)
      BY <3>3 DEF Put
    <3>4. UNCHANGED bucket \/ Put(w) \/ ClearObject(w) \/ \E failed \in BOOLEAN : Sweep(w, failed)
      BY <1>4 DEF Touches, BeginDelete, BeginSubmit, BeginUpload, DeleteMaterial, BeginTemplate, Version,
         BeginCleanup, BeginMaterial, SaveMaterial, BeginDeleteLesson, DeleteRows, Stamp, BeginClear, ClearRow, Fail
    <3> QED
      BY <3>1, <3>2, <3>3, <3>4
  <2>3. At(w, "row")' => job'[w].x \in bucket'
    <3> SUFFICES ASSUME At(w, "row")' PROVE job'[w].x \in bucket'
      OBVIOUS
    <3>1. Put(w)
      BY NextStep DEF At
    <3>2. job'[w].x = job[w].x
      BY <1>0, <3>1 DEF Put, Go, Become, Jobs
    <3> QED
      BY <3>1, <3>2 DEF Put
  <2> QED
    BY <2>1, <2>2, <2>3, UploadsStay
<1> QED
  BY <1>1, <1>2, <1>3, <1>4

LEMMA ObjectsNext ==
  Shape /\ Shape' /\ Singly /\ TemplateOK /\ UploadsOK /\ [Next]_vars => (TemplateOK /\ UploadsOK)'
<1> SUFFICES ASSUME Shape, Shape', Singly, TemplateOK, UploadsOK, [Next]_vars PROVE TemplateOK' /\ UploadsOK'
  OBVIOUS
<1>1. ASSUME NEW w \in Workers, Touches(w) PROVE TemplateOK' /\ UploadsOK'
  BY <1>1, TemplateStep, UploadsStep
<1>2. CASE Elsewhere
  <2>1. UNCHANGED <<mix, job, template, bucket>>
    BY <1>2 DEF Elsewhere, CreateAssignment, UpdateAssignment, PassDue, Leave, Age, Review, AtOnce, content
  <2>2. TemplateOK'
    BY <2>1 DEF TemplateOK, Sheltered, Alone, At
  <2>3. \A r \in Submissions :
          \/ submission'[r] = submission[r]
          \/ Stands(submission[r]) /\ submission'[r] = [submission[r] EXCEPT !.status = "reviewed"]
    BY <1>2 DEF Elsewhere, CreateAssignment, UpdateAssignment, PassDue, Leave, Age, Review, Shape, Tables
  <2>4. \A r \in Submissions : Stands(submission'[r]) => Stands(submission[r]) /\ submission'[r].file = submission[r].file
    BY <2>3 DEF Shape, Tables, SubmissionShape
  <2>5. \A f \in Files : Kept(f)' => Kept(f)
    <3>1. file \in [Files -> FileRows]
      BY DEF Shape, Tables
    <3> QED
      BY <1>2, <3>1 DEF Elsewhere, CreateAssignment, UpdateAssignment, PassDue, Leave, Age, Review, Kept
  <2>6. UploadsOK'
    BY <2>1, <2>4, <2>5 DEF UploadsOK, Sheltered, Alone, At
  <2> QED
    BY <2>2, <2>6
<1>3. CASE UNCHANGED vars
  BY <1>3 DEF vars, tables, content, TemplateOK, UploadsOK, Sheltered, Alone, At, Kept
<1> QED
  BY <1>1, <1>2, <1>3, WhoSteps

\* No material is shown that has no object, with any interleaving, failures of S3
\* and crashes: it is put before its row and removed after it (materials.py).  One
\* request at a time and none dying, the same holds of the template of a course
\* (courses.py) and of the files of submissions, though the clean-up removes the
\* object first (cleanup.py).
THEOREM FilesAreThereAlways == Spec => []FilesAreThere
<1> DEFINE Objects == Invariance /\ Singly /\ MaterialsOK /\ TemplateOK /\ UploadsOK
<1>1. Objects => FilesAreThere
  BY DEF MaterialsOK, TemplateOK, UploadsOK, Sheltered, FilesAreThere, At
<1>2. Init => Objects
  BY InvarianceInit, SinglyInit, MaterialsInit, ObjectsInit
<1>3. Objects /\ [Next]_vars => Objects'
  BY InvarianceNext, SinglyNext, MaterialsNext, ObjectsNext DEF Invariance
<1> QED
  BY <1>1, <1>2, <1>3, PTL DEF Spec
=============================================================================
