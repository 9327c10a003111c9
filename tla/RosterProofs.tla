----------------------------- MODULE RosterProofs -----------------------------
(***************************************************************************)
(* What holds of Roster for any number of cohorts, students, threads and   *)
(* documents.                                                              *)
(***************************************************************************)
EXTENDS Roster, FiniteSetTheorems, TLAPS

-----------------------------------------------------------------------------
(* The shape of tables and requests.                                       *)

\* What a request carries at each of its steps.
JobOK(j) ==
  /\ j.step \in {"enroll", "bill", "freeze", "upload", "stamp", "clean"} => j.e \in Enrollments
  /\ j.step \in {"upload", "stamp"} => j.file \in Files
  /\ j.step \notin {"upload", "stamp", "clean"} => j.file = None
  /\ j.step = "follow" => j.seen \in Snapshots
  /\ j.step = "cohort" => j.cohort \in Cohorts /\ j.row \in CohortRows

JobsOK == \A w \in Workers : JobOK(job[w])

Shape == TypeOK /\ JobsOK

LEMMA NoFiguresAreFigures == NoFigures \in Figures
BY RosterAssumption DEF NoFigures, Figures, Prices

LEMMA NoCohortType ==
  \A status \in {"open", "absent", "deleted"} : NoCohort(status) \in CohortRows
BY RosterAssumption DEF NoCohort, CohortRows, Times

LEMMA ShapeInit == Init => Shape
<1> SUFFICES ASSUME Init PROVE Shape
  OBVIOUS
<1>1. NoFigures \in Figures
  BY NoFiguresAreFigures
<1>2. Idle \in Jobs /\ JobOK(Idle)
  BY <1>1 DEF Idle, Jobs, Steps, JobOK
<1>3. NoEnrollment \in EnrollmentRows
  BY RosterAssumption DEF NoEnrollment, EnrollmentRows
<1>4. NoContract \in ContractRows
  BY <1>1 DEF NoContract, ContractRows
<1>5. price \in Prices
  BY RosterAssumption DEF Init, Prices
<1>6. /\ enrollment \in [Enrollments -> EnrollmentRows] /\ contract \in [Enrollments -> ContractRows]
      /\ job \in [Workers -> Jobs] /\ JobsOK
  BY <1>2, <1>3, <1>4 DEF Init, JobsOK
<1>7. file \in [Files -> FileRows]
  BY <1>1 DEF Init, FileRows
<1>8. cohort \in [Cohorts -> CohortRows]
  <2>1. \A status \in {"open", "absent"} : NoCohort(status) \in CohortRows
    BY NoCohortType
  <2> QED
    BY <2>1 DEF Init
<1> QED
  BY <1>5, <1>6, <1>7, <1>8 DEF Init, Shape, TypeOK

\* A request that moves on keeps the others as they are.
LEMMA Moved ==
  ASSUME TypeOK, NEW w \in Workers
  PROVE  /\ \A j : Become(w, j) => job'[w] = j /\ \A v \in Workers \ {w} : job'[v] = job[v]
         /\ Finish(w) => job'[w] = Idle /\ \A v \in Workers \ {w} : job'[v] = job[v]
         /\ \A step : Go(w, step) =>
              job'[w] = [job[w] EXCEPT !.step = step] /\ \A v \in Workers \ {w} : job'[v] = job[v]
BY DEF Become, Finish, Go, TypeOK

LEMMA JobsKept ==
  ASSUME Shape, NEW w \in Workers
  PROVE  /\ \A j \in Jobs : JobOK(j) /\ Become(w, j) => JobsOK' /\ job' \in [Workers -> Jobs]
         /\ Finish(w) => JobsOK' /\ job' \in [Workers -> Jobs]
         /\ \A step \in Steps : Go(w, step) /\ JobOK([job[w] EXCEPT !.step = step]) =>
              JobsOK' /\ job' \in [Workers -> Jobs]
<1>0. job \in [Workers -> Jobs] /\ job[w] \in Jobs
  BY DEF Shape, TypeOK
<1>1. ASSUME NEW j \in Jobs, JobOK(j), Become(w, j) PROVE JobsOK' /\ job' \in [Workers -> Jobs]
  <2>1. job' \in [Workers -> Jobs]
    BY <1>0, <1>1 DEF Become
  <2>2. \A v \in Workers : JobOK(job'[v])
    BY <1>1, Moved DEF Shape, JobsOK
  <2> QED
    BY <2>1, <2>2 DEF JobsOK
<1>2. Idle \in Jobs /\ JobOK(Idle)
  BY NoFiguresAreFigures DEF Idle, Jobs, Steps, JobOK
<1>3. \A step \in Steps : [job[w] EXCEPT !.step = step] \in Jobs
  BY <1>0 DEF Jobs
<1> QED
  BY <1>1, <1>2, <1>3 DEF Finish, Go

\* Requests about enrollments.
LEMMA EnrollingShape ==
  ASSUME Shape, NEW w \in Workers,
         \/ \E e \in Enrollments, op \in {"enroll", "place"} : BeginEnroll(w, e, op)
         \/ Enroll(w) \/ Bill(w) \/ Freeze(w)
  PROVE  Shape'
<1>0. /\ enrollment \in [Enrollments -> EnrollmentRows] /\ price \in Prices
      /\ job[w] \in Jobs /\ JobOK(job[w])
  BY DEF Shape, TypeOK, JobsOK
<1>1. CASE \E e \in Enrollments, op \in {"enroll", "place"} : BeginEnroll(w, e, op)
  <2>1. PICK e \in Enrollments, op \in {"enroll", "place"} : BeginEnroll(w, e, op)
    BY <1>1
  <2>2. PICK c \in Cohorts \cup {None} :
          Become(w, [Idle EXCEPT !.step = "enroll", !.e = e, !.cohort = c])
    BY <2>1 DEF BeginEnroll, Start, Enrollments
  <2> DEFINE j == [Idle EXCEPT !.step = "enroll", !.e = e, !.cohort = c]
  <2>3. j \in Jobs /\ JobOK(j)
    BY NoFiguresAreFigures DEF Idle, Jobs, Steps, JobOK
  <2>4. JobsOK' /\ job' \in [Workers -> Jobs]
    BY <2>2, <2>3, JobsKept
  <2> QED
    BY <2>1, <2>4 DEF BeginEnroll, Shape, TypeOK
<1>2. CASE Enroll(w)
  <2>1. job[w].e \in Enrollments
    BY <1>0, <1>2 DEF Enroll, At, JobOK
  <2>2. enrollment' \in [Enrollments -> EnrollmentRows]
    BY <1>0, <1>2, <2>1 DEF Enroll, EnrollmentRows
  <2>3. JobOK([job[w] EXCEPT !.step = "bill"])
    BY <1>0, <1>2, <2>1 DEF Enroll, At, JobOK, Jobs
  <2>4. JobsOK' /\ job' \in [Workers -> Jobs]
    BY <1>2, <2>3, JobsKept DEF Enroll, Steps
  <2> QED
    BY <1>2, <2>2, <2>4 DEF Enroll, Shape, TypeOK
<1>3. CASE Bill(w)
  <2> DEFINE j == [job[w] EXCEPT !.step = "freeze", !.price = Snapshot(job[w].e)]
  <2>1. job[w].e \in Enrollments /\ job[w].file = None
    BY <1>0, <1>3 DEF Bill, At, JobOK
  <2>2. Snapshot(job[w].e) \in Prices \cup {None}
    BY <1>0 DEF Snapshot
  <2>3. j \in Jobs /\ JobOK(j)
    BY <1>0, <2>1, <2>2 DEF Jobs, Steps, JobOK
  <2>4. JobsOK' /\ job' \in [Workers -> Jobs]
    BY <1>3, <2>3, JobsKept DEF Bill
  <2> QED
    BY <1>3, <2>4 DEF Bill, Shape, TypeOK
<1>4. CASE Freeze(w)
  <2>1. job[w].e \in Enrollments /\ job[w].price \in Prices \cup {None}
    BY <1>0, <1>4 DEF Freeze, At, JobOK, Jobs
  <2>2. enrollment' \in [Enrollments -> EnrollmentRows]
    BY <1>0, <1>4, <2>1 DEF Freeze, EnrollmentRows
  <2>3. JobsOK' /\ job' \in [Workers -> Jobs]
    BY <1>4, JobsKept DEF Freeze
  <2> QED
    BY <1>4, <2>2, <2>3 DEF Freeze, Shape, TypeOK
<1> QED
  BY <1>1, <1>2, <1>3, <1>4

\* What sync reads, and what it makes of it.
LEMMA SyncShape ==
  ASSUME Shape, NEW w \in Workers, BeginSync(w) \/ Sync(w)
  PROVE  Shape'
<1>0. /\ enrollment \in [Enrollments -> EnrollmentRows] /\ contract \in [Enrollments -> ContractRows]
      /\ job[w] \in Jobs /\ JobOK(job[w])
  BY DEF Shape, TypeOK, JobsOK
<1>1. SyncRead \in Snapshots
  BY <1>0 DEF SyncRead, Snapshots, ContractRows
<1>2. CASE BeginSync(w)
  <2> DEFINE j == [Idle EXCEPT !.step = "follow", !.seen = SyncRead]
  <2>1. j \in Jobs /\ JobOK(j)
    BY <1>1, NoFiguresAreFigures DEF Idle, Jobs, Steps, JobOK
  <2>2. JobsOK' /\ job' \in [Workers -> Jobs]
    BY <1>2, <2>1, JobsKept DEF BeginSync, Start
  <2> QED
    BY <1>2, <2>2 DEF BeginSync, Shape, TypeOK
<1>3. CASE Sync(w)
  <2> DEFINE seen == job[w].seen
             j == [job[w] EXCEPT !.seen = SyncRead]
  <2>1. seen \in Snapshots /\ job[w].step = "follow"
    BY <1>0, <1>3 DEF Sync, At, JobOK
  <2>2. j \in Jobs /\ JobOK(j)
    BY <1>0, <1>1, <2>1 DEF Jobs, JobOK
  <2>3. JobsOK' /\ job' \in [Workers -> Jobs]
    BY <1>3, <2>2, JobsKept DEF Sync
  <2>4. contract' \in [Enrollments -> ContractRows]
    <3>1. \A e \in Enrollments : Followed(seen[e]) \in {"absent", "pending", "signed", "cancelled"}
      BY <2>1 DEF Snapshots, Followed
    <3>2. \A e \in Enrollments : [contract[e] EXCEPT !.status = Followed(seen[e])] \in ContractRows
      BY <1>0, <3>1 DEF ContractRows
    <3>3. \/ UNCHANGED contract
          \/ contract' = [e \in Enrollments |-> IF e \in Follows(seen)
                            THEN [contract[e] EXCEPT !.status = Followed(seen[e])] ELSE contract[e]]
      BY <1>3 DEF Sync
    <3> QED
      BY <1>0, <3>2, <3>3
  <2> QED
    BY <1>3, <2>3, <2>4 DEF Sync, Shape, TypeOK
<1> QED
  BY <1>2, <1>3

LEMMA FinanceType ==
  ASSUME TypeOK, NEW e \in Enrollments
  PROVE  Finance(e) \in Figures
BY DEF TypeOK, Finance, Figures, EnrollmentRows

\* Signing and resetting.
LEMMA SigningShape ==
  ASSUME Shape, NEW w \in Workers,
         \/ \E e \in Enrollments : BeginSign(w, e) \/ Reset(w, e)
         \/ Upload(w) \/ Stamp(w) \/ Clean(w)
  PROVE  Shape'
<1>0. /\ contract \in [Enrollments -> ContractRows] /\ file \in [Files -> FileRows]
      /\ job[w] \in Jobs /\ JobOK(job[w])
  BY DEF Shape, TypeOK, JobsOK
<1>1. ASSUME NEW e \in Enrollments, BeginSign(w, e) PROVE Shape'
  <2>1. PICK f \in Files :
          Become(w, [Idle EXCEPT !.step = "upload", !.e = e, !.file = f, !.figures = Finance(e)])
    BY <1>1 DEF BeginSign, Start
  <2> DEFINE j == [Idle EXCEPT !.step = "upload", !.e = e, !.file = f, !.figures = Finance(e)]
  <2>2. Finance(e) \in Figures
    BY FinanceType DEF Shape
  <2>3. j \in Jobs /\ JobOK(j)
    BY <2>2 DEF Idle, Jobs, Steps, JobOK
  <2>4. JobsOK' /\ job' \in [Workers -> Jobs]
    BY <2>1, <2>3, JobsKept
  <2> QED
    BY <1>1, <2>4 DEF BeginSign, Shape, TypeOK
<1>2. ASSUME NEW e \in Enrollments, Reset(w, e) PROVE Shape'
  <2>1. /\ Become(w, [Idle EXCEPT !.step = "clean", !.e = e, !.file = contract[e].file])
        /\ \E status \in {"pending", "cancelled"} :
             contract' = [contract EXCEPT ![e] = [status |-> status, file |-> None, figures |-> NoFigures]]
    BY <1>2 DEF Reset, Start
  <2> DEFINE j == [Idle EXCEPT !.step = "clean", !.e = e, !.file = contract[e].file]
  <2>2. NoFigures \in Figures
    BY NoFiguresAreFigures
  <2>3. contract' \in [Enrollments -> ContractRows]
    BY <1>0, <2>1, <2>2 DEF ContractRows
  <2>4. j \in Jobs /\ JobOK(j)
    BY <1>0, <2>2 DEF Idle, Jobs, Steps, JobOK, ContractRows
  <2>5. JobsOK' /\ job' \in [Workers -> Jobs]
    BY <2>1, <2>4, JobsKept
  <2> QED
    BY <1>2, <2>3, <2>5 DEF Reset, Shape, TypeOK
<1>3. CASE Upload(w)
  <2>1. job[w].e \in Enrollments /\ job[w].file \in Files /\ job[w].figures \in Figures
    BY <1>0, <1>3 DEF Upload, At, JobOK, Jobs
  <2>2. file' \in [Files -> FileRows]
    BY <1>0, <1>3, <2>1 DEF Upload, FileRows
  <2>3. JobOK([job[w] EXCEPT !.step = "stamp"])
    BY <1>0, <2>1 DEF JobOK, Jobs
  <2>4. JobsOK' /\ job' \in [Workers -> Jobs]
    BY <1>3, <2>3, JobsKept DEF Upload, Steps
  <2> QED
    BY <1>3, <2>2, <2>4 DEF Upload, Shape, TypeOK
<1>4. CASE Stamp(w)
  <2>1. job[w].e \in Enrollments /\ job[w].file \in Files /\ job[w].figures \in Figures
    BY <1>0, <1>4 DEF Stamp, At, JobOK, Jobs
  <2>2. contract' \in [Enrollments -> ContractRows]
    BY <1>0, <1>4, <2>1 DEF Stamp, ContractRows
  <2>3. JobsOK' /\ job' \in [Workers -> Jobs]
    BY <1>4, JobsKept DEF Stamp
  <2> QED
    BY <1>4, <2>2, <2>3 DEF Stamp, Shape, TypeOK
<1>5. CASE Clean(w)
  <2>1. job[w].file \in Files \cup {None}
    BY <1>0 DEF Jobs
  <2>2. file' \in [Files -> FileRows]
    BY <1>0, <1>5, <2>1 DEF Clean, FileRows
  <2>3. JobsOK' /\ job' \in [Workers -> Jobs]
    BY <1>5, JobsKept DEF Clean
  <2> QED
    BY <1>5, <2>2, <2>3 DEF Clean, Shape, TypeOK
<1> QED
  BY <1>1, <1>2, <1>3, <1>4, <1>5

\* Requests that end, and the timetable.
LEMMA OtherShape ==
  ASSUME Shape, NEW w \in Workers,
         \/ Fail(w) \/ Crash(w) \/ SaveCohort(w)
         \/ \E op \in {"cohort", "resize"}, c \in Cohorts, row \in CohortRows : BeginCohort(w, op, c, row)
  PROVE  Shape'
<1>0. /\ cohort \in [Cohorts -> CohortRows] /\ job[w] \in Jobs /\ JobOK(job[w])
  BY DEF Shape, TypeOK, JobsOK
<1>1. CASE Fail(w) \/ Crash(w)
  <2>1. JobsOK' /\ job' \in [Workers -> Jobs]
    BY <1>1, JobsKept DEF Fail, Crash
  <2> QED
    BY <1>1, <2>1 DEF Fail, Crash, Shape, TypeOK
<1>2. CASE SaveCohort(w)
  <2>1. job[w].cohort \in Cohorts /\ job[w].row \in CohortRows
    BY <1>0, <1>2 DEF SaveCohort, At, JobOK
  <2>2. cohort' \in [Cohorts -> CohortRows]
    BY <1>0, <1>2, <2>1 DEF SaveCohort
  <2>3. JobsOK' /\ job' \in [Workers -> Jobs]
    BY <1>2, JobsKept DEF SaveCohort
  <2> QED
    BY <1>2, <2>2, <2>3 DEF SaveCohort, Shape, TypeOK
<1>3. ASSUME NEW op, NEW c \in Cohorts, NEW row \in CohortRows, BeginCohort(w, op, c, row)
      PROVE  Shape'
  <2> DEFINE j == [Idle EXCEPT !.step = "cohort", !.cohort = c, !.row = row]
  <2>1. j \in Jobs /\ JobOK(j)
    BY NoFiguresAreFigures DEF Idle, Jobs, Steps, JobOK
  <2>2. JobsOK' /\ job' \in [Workers -> Jobs]
    BY <1>3, <2>1, JobsKept DEF BeginCohort, Start
  <2> QED
    BY <1>3, <2>2 DEF BeginCohort, Shape, TypeOK
<1> QED
  BY <1>1, <1>2, <1>3

\* Requests served at once.
LEMMA AtOnceShape ==
  ASSUME Shape, CohortStep
  PROVE  Shape'
<1>0. /\ enrollment \in [Enrollments -> EnrollmentRows] /\ contract \in [Enrollments -> ContractRows]
      /\ cohort \in [Cohorts -> CohortRows] /\ NoFigures \in Figures
  BY NoFiguresAreFigures DEF Shape, TypeOK
<1>1. UNCHANGED <<mix, file, job>>
  BY DEF CohortStep, Reprice, DeleteCohort, CancelEnrollment, Pay, AtOnce
<1>2. JobsOK' /\ job' \in [Workers -> Jobs]
  BY <1>1 DEF Shape, TypeOK, JobsOK
<1>3. CASE Reprice
  BY <1>1, <1>2, <1>3 DEF Reprice, Shape, TypeOK
<1>4. ASSUME NEW e \in Enrollments, CancelEnrollment(e) \/ Pay(e) PROVE Shape'
  <2>1. enrollment' \in [Enrollments -> EnrollmentRows]
    <3>1. \/ enrollment' = [enrollment EXCEPT ![e].status = "cancelled"]
          \/ enrollment[e].paid < MaxPaid /\ enrollment' = [enrollment EXCEPT ![e].paid = @ + 1]
      BY <1>4 DEF CancelEnrollment, Pay
    <3>2. enrollment[e] \in EnrollmentRows /\ MaxPaid \in Nat
      BY <1>0, RosterAssumption
    <3>3. \/ enrollment' = [enrollment EXCEPT ![e] = [enrollment[e] EXCEPT !.status = "cancelled"]]
          \/ enrollment[e].paid < MaxPaid
               /\ enrollment' = [enrollment EXCEPT ![e] = [enrollment[e] EXCEPT !.paid = enrollment[e].paid + 1]]
      BY <3>1
    <3>4. /\ [enrollment[e] EXCEPT !.status = "cancelled"] \in EnrollmentRows
          /\ enrollment[e].paid < MaxPaid => [enrollment[e] EXCEPT !.paid = enrollment[e].paid + 1] \in EnrollmentRows
      BY <3>2 DEF EnrollmentRows
    <3> QED
      BY <1>0, <3>3, <3>4
  <2> QED
    BY <1>1, <1>2, <1>4, <2>1 DEF CancelEnrollment, Pay, Shape, TypeOK
<1>5. ASSUME NEW c \in Cohorts, DeleteCohort(c) PROVE Shape'
  <2>1. NoEnrollment \in EnrollmentRows /\ NoContract \in ContractRows
    BY <1>0, RosterAssumption DEF NoEnrollment, NoContract, EnrollmentRows, ContractRows
  <2>2. enrollment' \in [Enrollments -> EnrollmentRows] /\ contract' \in [Enrollments -> ContractRows]
    BY <1>0, <1>5, <2>1 DEF DeleteCohort
  <2>3. NoCohort("deleted") \in CohortRows
    BY NoCohortType
  <2>4. cohort' \in [Cohorts -> CohortRows]
    BY <1>0, <1>5, <2>3 DEF DeleteCohort
  <2> QED
    BY <1>1, <1>2, <1>5, <2>2, <2>4 DEF DeleteCohort, Shape, TypeOK
<1> QED
  BY <1>3, <1>4, <1>5 DEF CohortStep

LEMMA ShapeNext == Shape /\ [Next]_vars => Shape'
<1> SUFFICES ASSUME Shape, [Next]_vars PROVE Shape'
  OBVIOUS
<1>1. CASE CohortStep
  BY <1>1, AtOnceShape
<1>2. ASSUME NEW w \in Workers, WorkerStep(w) PROVE Shape'
  BY <1>2, EnrollingShape, SyncShape, SigningShape, OtherShape DEF WorkerStep
<1>3. CASE UNCHANGED vars
  BY <1>3 DEF vars, Shape, TypeOK, JobsOK
<1> QED
  BY <1>1, <1>2, <1>3 DEF Next

\* Tables and requests in progress keep their shape.
THEOREM RosterTypeCorrect == Spec => []TypeOK
<1>1. Shape => TypeOK
  BY DEF Shape
<1> QED
  BY <1>1, ShapeInit, ShapeNext, PTL DEF Spec

-----------------------------------------------------------------------------
(* Documents.                                                              *)

\* The document of a contract is there and shows its figures, and is nobody else's.
FilesOK ==
  /\ \A e \in Enrollments : contract[e].file # None =>
       file[contract[e].file].stored = "yes" /\ file[contract[e].file].figures = contract[e].figures
  /\ \A e, d \in Enrollments : contract[e].file # None /\ contract[e].file = contract[d].file => e = d

\* A document in the hands of a request is no contract's, and in no other hands; a
\* signing about to commit has written the figures it will keep.
HandsOK ==
  \A w \in Workers : job[w].file # None =>
    /\ \A e \in Enrollments : contract[e].file # job[w].file
    /\ \A v \in Workers : job[v].file = job[w].file => v = w
    /\ At(w, "stamp") =>
         file[job[w].file].stored = "yes" /\ file[job[w].file].figures = job[w].figures

Documents == FilesOK /\ HandsOK

LEMMA DocumentsInit == Init => Documents
BY DEF Init, Documents, FilesOK, HandsOK, NoContract, Idle

\* A step that writes no document and takes none into its hands.
LEMMA DocumentsStay ==
  ASSUME Documents, UNCHANGED file,
         \A e \in Enrollments : \/ contract'[e].file = None
                                \/ contract'[e].file = contract[e].file /\ contract'[e].figures = contract[e].figures,
         \A w \in Workers : job'[w].file = None \/ job'[w] = job[w]
  PROVE  Documents'
<1>1. FilesOK'
  BY DEF Documents, FilesOK
<1>2. HandsOK'
  BY DEF Documents, HandsOK, At
<1> QED
  BY <1>1, <1>2 DEF Documents

\* Signing: a fresh name, its document, and the commit.
LEMMA DocumentsSigned ==
  ASSUME Shape, Documents, NEW w \in Workers,
         (\E e \in Enrollments : BeginSign(w, e)) \/ Upload(w) \/ Stamp(w)
  PROVE  Documents'
<1>0. /\ contract \in [Enrollments -> ContractRows] /\ file \in [Files -> FileRows]
      /\ job \in [Workers -> Jobs] /\ job[w] \in Jobs /\ JobOK(job[w])
  BY DEF Shape, TypeOK, JobsOK
<1>1. CASE \E e \in Enrollments : BeginSign(w, e)
  <2>1. PICK e \in Enrollments, f \in Files :
          /\ FreshFile(f, e) /\ UNCHANGED <<contract, file>>
          /\ Become(w, [Idle EXCEPT !.step = "upload", !.e = e, !.file = f, !.figures = Finance(e)])
    BY <1>1 DEF BeginSign, Start
  <2>2. /\ job'[w].file = f /\ job'[w].step = "upload"
        /\ \A v \in Workers \ {w} : job'[v] = job[v]
    BY <1>0, <2>1 DEF Become, Idle
  <2>3. file[f].stored = "never" /\ \A v \in Workers : job[v].file # f
    BY <2>1 DEF FreshFile, LowestOf
  <2>4. \A d \in Enrollments : contract[d].file # f
    BY <2>3, RosterAssumption DEF Documents, FilesOK, Files
  <2>5. FilesOK'
    BY <2>1 DEF Documents, FilesOK
  <2>6. HandsOK'
    BY <2>1, <2>2, <2>3, <2>4 DEF Documents, HandsOK, At
  <2> QED
    BY <2>5, <2>6 DEF Documents
<1>2. CASE Upload(w)
  <2> DEFINE f == job[w].file
  <2>1. f \in Files /\ job[w].step = "upload"
    BY <1>0, <1>2 DEF Upload, At, JobOK
  <2>2. f # None
    BY <2>1, RosterAssumption DEF Files
  <2>3. /\ job'[w].file = f /\ job'[w].figures = job[w].figures
        /\ \A v \in Workers \ {w} : job'[v] = job[v]
    BY <1>0, <1>2 DEF Upload, Go, Become, Jobs
  <2>4. /\ UNCHANGED contract
        /\ file'[f].stored = "yes" /\ file'[f].figures = job[w].figures
        /\ \A g \in Files \ {f} : file'[g] = file[g]
    BY <1>0, <1>2, <2>1 DEF Upload
  <2>5. \A e \in Enrollments : contract[e].file # f /\ contract[e].file \in Files \cup {None}
    BY <1>0, <2>2 DEF Documents, HandsOK, ContractRows
  <2>6. \A v \in Workers \ {w} : job[v].file # f /\ job[v].file \in Files \cup {None}
    BY <1>0, <2>2 DEF Documents, HandsOK, Jobs
  <2> HIDE DEF f
  <2>7. FilesOK'
    BY <2>4, <2>5 DEF Documents, FilesOK
  <2>8. HandsOK'
    BY <2>3, <2>4, <2>5, <2>6 DEF Documents, HandsOK, At
  <2> QED
    BY <2>7, <2>8 DEF Documents
<1>3. CASE Stamp(w)
  <2> DEFINE f == job[w].file
             e == job[w].e
  <2>1. f \in Files /\ e \in Enrollments /\ job[w].step = "stamp"
    BY <1>0, <1>3 DEF Stamp, At, JobOK
  <2>2. f # None
    BY <2>1, RosterAssumption DEF Files
  <2>3. job'[w].file = None /\ \A v \in Workers \ {w} : job'[v] = job[v]
    BY <1>0, <1>3 DEF Stamp, Finish, Become, Idle
  <2>4. /\ UNCHANGED file
        /\ contract'[e].file = f /\ contract'[e].figures = job[w].figures
        /\ \A d \in Enrollments \ {e} : contract'[d] = contract[d]
    BY <1>0, <1>3, <2>1 DEF Stamp
  <2>5. /\ file[f].stored = "yes" /\ file[f].figures = job[w].figures
        /\ \A d \in Enrollments : contract[d].file # f
        /\ \A v \in Workers \ {w} : job[v].file # f
    BY <2>1, <2>2 DEF Documents, HandsOK, At
  <2> HIDE DEF f, e
  <2>6. FilesOK'
    <3>1. ASSUME NEW d \in Enrollments, contract'[d].file # None
          PROVE  file'[contract'[d].file].stored = "yes" /\ file'[contract'[d].file].figures = contract'[d].figures
      BY <2>4, <2>5, <3>1 DEF Documents, FilesOK
    <3>2. ASSUME NEW c \in Enrollments, NEW d \in Enrollments,
                 contract'[c].file # None, contract'[c].file = contract'[d].file
          PROVE  c = d
      BY <2>4, <2>5, <3>2 DEF Documents, FilesOK
    <3> QED
      BY <3>1, <3>2 DEF FilesOK
  <2>7. HandsOK'
    <3>1. ASSUME NEW v \in Workers, job'[v].file # None
          PROVE  v # w /\ job'[v] = job[v] /\ \A d \in Enrollments : contract'[d].file # job'[v].file
      BY <2>3, <2>4, <2>5, <3>1 DEF Documents, HandsOK
    <3> QED
      BY <2>3, <2>4, <3>1 DEF Documents, HandsOK, At
  <2> QED
    BY <2>6, <2>7 DEF Documents
<1> QED
  BY <1>1, <1>2, <1>3

\* Resetting: the document leaves the row, and then the bucket.
LEMMA DocumentsReset ==
  ASSUME Shape, Documents, NEW w \in Workers,
         (\E e \in Enrollments : Reset(w, e)) \/ Clean(w)
  PROVE  Documents'
<1>0. /\ contract \in [Enrollments -> ContractRows] /\ file \in [Files -> FileRows]
      /\ job \in [Workers -> Jobs] /\ job[w] \in Jobs
  BY DEF Shape, TypeOK
<1>1. CASE \E e \in Enrollments : Reset(w, e)
  <2>1. PICK e \in Enrollments :
          /\ UNCHANGED file
          /\ Become(w, [Idle EXCEPT !.step = "clean", !.e = e, !.file = contract[e].file])
          /\ \E status : contract' = [contract EXCEPT ![e] = [status |-> status, file |-> None, figures |-> NoFigures]]
    BY <1>1 DEF Reset, Start
  <2>2. /\ job'[w].file = contract[e].file /\ job'[w].step = "clean"
        /\ \A v \in Workers \ {w} : job'[v] = job[v]
    BY <1>0, <2>1 DEF Become, Idle
  <2>3. contract'[e].file = None /\ \A d \in Enrollments \ {e} : contract'[d] = contract[d]
    BY <1>0, <2>1
  <2>4. FilesOK'
    BY <2>1, <2>3 DEF Documents, FilesOK
  <2>5. HandsOK'
    <3>1. ASSUME job'[w].file # None
          PROVE  /\ \A d \in Enrollments : contract'[d].file # job'[w].file
                 /\ \A v \in Workers \ {w} : job'[v].file # job'[w].file
      BY <2>2, <2>3, <3>1 DEF Documents, FilesOK, HandsOK
    <3>2. ASSUME NEW v \in Workers \ {w}, job'[v].file # None
          PROVE  /\ \A d \in Enrollments : contract'[d].file # job'[v].file
                 /\ \A u \in Workers \ {w} : job'[u].file = job'[v].file => u = v
                 /\ At(v, "stamp")' =>
                      file'[job'[v].file].stored = "yes" /\ file'[job'[v].file].figures = job'[v].figures
      BY <2>1, <2>2, <2>3, <3>2 DEF Documents, HandsOK, At
    <3> QED
      BY <2>2, <3>1, <3>2 DEF HandsOK, At
  <2> QED
    BY <2>4, <2>5 DEF Documents
<1>2. CASE Clean(w)
  <2> DEFINE f == job[w].file
  <2>1. job'[w].file = None /\ (\A v \in Workers \ {w} : job'[v] = job[v]) /\ UNCHANGED contract
    BY <1>0, <1>2 DEF Clean, Finish, Become, Idle
  <2>2. f \in Files \cup {None}
    BY <1>0 DEF Jobs
  <2>3. \A g \in Files : g # f => file'[g] = file[g]
    BY <1>0, <1>2, <2>2 DEF Clean
  <2>4. CASE f = None
    <3>1. UNCHANGED file
      BY <1>2, <2>4 DEF Clean
    <3> QED
      BY <2>1, <3>1, DocumentsStay
  <2>5. CASE f # None
    <3>1. \A e \in Enrollments : contract[e].file # f /\ contract[e].file \in Files \cup {None}
      BY <1>0, <2>5 DEF Documents, HandsOK, ContractRows
    <3>2. \A v \in Workers \ {w} : job[v].file # f /\ job[v].file \in Files \cup {None}
      BY <1>0, <2>5 DEF Documents, HandsOK, Jobs
    <3> HIDE DEF f
    <3>3. FilesOK'
      BY <2>1, <2>3, <3>1 DEF Documents, FilesOK
    <3>4. HandsOK'
      BY <2>1, <2>3, <3>1, <3>2 DEF Documents, HandsOK, At
    <3> QED
      BY <3>3, <3>4 DEF Documents
  <2> QED
    BY <2>4, <2>5
<1> QED
  BY <1>1, <1>2

\* All the rest leaves documents alone.
LEMMA DocumentsElsewhere ==
  ASSUME Shape, Documents, NEW w \in Workers,
         \/ \E e \in Enrollments, op \in {"enroll", "place"} : BeginEnroll(w, e, op)
         \/ Enroll(w) \/ Bill(w) \/ Freeze(w) \/ BeginSync(w) \/ Sync(w) \/ Fail(w) \/ Crash(w) \/ SaveCohort(w)
         \/ \E op \in {"cohort", "resize"}, c \in Cohorts, row \in CohortRows : BeginCohort(w, op, c, row)
  PROVE  Documents'
<1>0. /\ contract \in [Enrollments -> ContractRows]
      /\ job \in [Workers -> Jobs] /\ job[w] \in Jobs /\ JobOK(job[w])
  BY DEF Shape, TypeOK, JobsOK
<1>1. job'[w].file = None /\ \A v \in Workers \ {w} : job'[v] = job[v]
  <2>1. CASE \E e \in Enrollments, op \in {"enroll", "place"} : BeginEnroll(w, e, op)
    <3>1. \E e, c : Become(w, [Idle EXCEPT !.step = "enroll", !.e = e, !.cohort = c])
      BY <2>1 DEF BeginEnroll, Start
    <3> QED
      BY <1>0, <3>1 DEF Become, Idle
  <2>2. CASE BeginSync(w)
    BY <1>0, <2>2 DEF BeginSync, Start, Become, Idle
  <2>3. CASE \E op \in {"cohort", "resize"}, c \in Cohorts, row \in CohortRows : BeginCohort(w, op, c, row)
    <3>1. \E c, row : Become(w, [Idle EXCEPT !.step = "cohort", !.cohort = c, !.row = row])
      BY <2>3 DEF BeginCohort, Start
    <3> QED
      BY <1>0, <3>1 DEF Become, Idle
  <2>4. CASE Finish(w)
    BY <1>0, <2>4 DEF Finish, Become, Idle
  <2>5. CASE Enroll(w) /\ ~Finish(w)
    <3>1. Go(w, "bill") /\ job[w].file = None
      BY <1>0, <2>5 DEF Enroll, At, JobOK
    <3> QED
      BY <1>0, <3>1 DEF Go, Become, Jobs
  <2>6. CASE Sync(w) /\ ~Finish(w)
    <3>1. Become(w, [job[w] EXCEPT !.seen = SyncRead]) /\ job[w].file = None
      BY <1>0, <2>6 DEF Sync, At, JobOK
    <3> QED
      BY <1>0, <3>1 DEF Become, Jobs
  <2>7. CASE Bill(w) /\ ~Finish(w)
    <3>1. /\ Become(w, [job[w] EXCEPT !.step = "freeze", !.price = Snapshot(job[w].e)])
          /\ job[w].file = None
      BY <1>0, <2>7 DEF Bill, At, JobOK
    <3> QED
      BY <1>0, <3>1 DEF Become, Jobs
  <2> QED
    BY <2>1, <2>2, <2>3, <2>4, <2>5, <2>6, <2>7 DEF Freeze, Fail, Crash, SaveCohort
<1>2. /\ UNCHANGED file
      /\ \A e \in Enrollments : contract'[e].file = contract[e].file /\ contract'[e].figures = contract[e].figures
  <2>1. CASE Sync(w)
    <3>1. \/ UNCHANGED contract
          \/ contract' = [e \in Enrollments |-> IF e \in Follows(job[w].seen)
                            THEN [contract[e] EXCEPT !.status = Followed(job[w].seen[e])] ELSE contract[e]]
      BY <2>1 DEF Sync
    <3> QED
      BY <1>0, <2>1, <3>1 DEF Sync, ContractRows
  <2>2. CASE ~Sync(w)
    BY <2>2 DEF BeginEnroll, Enroll, Bill, Freeze, BeginSync, Fail, Crash, SaveCohort, BeginCohort
  <2> QED
    BY <2>1, <2>2
<1>3. \A v \in Workers : job'[v].file = None \/ job'[v] = job[v]
  BY <1>1
<1> QED
  BY <1>2, <1>3, DocumentsStay

LEMMA DocumentsNext == Shape /\ Documents /\ [Next]_vars => Documents'
<1> SUFFICES ASSUME Shape, Documents, [Next]_vars PROVE Documents'
  OBVIOUS
<1>1. CASE CohortStep
  <2>1. UNCHANGED <<file, job>>
    BY <1>1 DEF CohortStep, Reprice, DeleteCohort, CancelEnrollment, Pay, AtOnce
  <2>2. \A e \in Enrollments : contract'[e].file = None \/ contract'[e] = contract[e]
    BY <1>1 DEF CohortStep, Reprice, DeleteCohort, CancelEnrollment, Pay, NoContract
  <2> QED
    BY <2>1, <2>2, DocumentsStay
<1>2. ASSUME NEW w \in Workers, WorkerStep(w) PROVE Documents'
  BY <1>2, DocumentsSigned, DocumentsReset, DocumentsElsewhere DEF WorkerStep
<1>3. CASE UNCHANGED vars
  BY <1>3, DocumentsStay DEF vars
<1> QED
  BY <1>1, <1>2, <1>3 DEF Next

\* However signings, resets and removals interleave, fail or die half way, what a
\* student downloads as signed is there and shows the figures of the row
\* (contracts/student.py, sign; contracts/staff.py, reset).
THEOREM SignedHasDocumentAlways == Spec => []SignedHasDocument
<1>1. Documents => SignedHasDocument
  BY DEF Documents, FilesOK, SignedHasDocument
<1>2. Init => Shape /\ Documents
  BY ShapeInit, DocumentsInit
<1>3. Shape /\ Documents /\ [Next]_vars => (Shape /\ Documents)'
  BY ShapeNext, DocumentsNext
<1> QED
  BY <1>1, <1>2, <1>3, PTL DEF Spec

-----------------------------------------------------------------------------
(* Requests served one by one.                                             *)

OneBusy == Alone => \A v, w \in Workers : v = w \/ At(v, "idle") \/ At(w, "idle")

\* What a request found before its commit is still so at its commit.
StillTrue(j) ==
  /\ j.step = "enroll" => SeatsAvailable(j.e)
  /\ j.step = "freeze" /\ j.price # None => enrollment[j.e].price = None
  /\ j.step = "follow" => \A e \in Enrollments : j.seen[e].contract = contract[e].status
  /\ j.step = "cohort" => ~Conflicts(j.cohort, j.row)

Singly == OneBusy /\ (Alone => \A w \in Workers : StillTrue(job[w]))

LEMMA SinglyInit == Init => Singly
BY DEF Init, Singly, OneBusy, StillTrue, Idle, At

\* Who makes a step has the system to itself.
LEMMA Turn ==
  ASSUME Shape, OneBusy, NEW w \in Workers, WorkerStep(w)
  PROVE  /\ UNCHANGED mix
         /\ \A v \in Workers \ {w} : job'[v] = job[v]
         /\ Alone => \A v \in Workers \ {w} : At(v, "idle")
<1>1. UNCHANGED mix
  BY DEF WorkerStep, BeginEnroll, BeginSign, Reset, Enroll, Bill, Freeze, BeginSync, Sync, Upload, Stamp, Clean, Fail,
     Crash, BeginCohort, SaveCohort
<1>2. \E j : Become(w, j)
  BY DEF WorkerStep, BeginEnroll, BeginSign, Reset, Enroll, Bill, Freeze, BeginSync, Sync, Upload, Stamp, Clean, Fail,
     Crash, BeginCohort, SaveCohort, Start, Go, Finish
<1>3. (Alone => \A v \in Workers : At(v, "idle")) \/ ~At(w, "idle")
  BY DEF WorkerStep, BeginEnroll, BeginSign, Reset, Enroll, Bill, Freeze, BeginSync, Sync, Upload, Stamp, Clean, Fail,
     Crash, BeginCohort, SaveCohort, Start, Admitted, At
<1> QED
  BY <1>1, <1>2, <1>3, Moved DEF OneBusy, Shape

\* What a request has just found is true.
LEMMA JustFound ==
  ASSUME Shape, Singly, NEW w \in Workers, WorkerStep(w)
  PROVE  StillTrue(job[w])'
<1>0. job \in [Workers -> Jobs] /\ job[w] \in Jobs /\ JobOK(job[w])
  BY DEF Shape, TypeOK, JobsOK
<1>1. CASE \E e \in Enrollments, op \in {"enroll", "place"} : BeginEnroll(w, e, op)
  <2>1. PICK e \in Enrollments, op \in {"enroll", "place"} : BeginEnroll(w, e, op)
    BY <1>1
  <2>2. PICK c : Become(w, [Idle EXCEPT !.step = "enroll", !.e = e, !.cohort = c])
    BY <2>1 DEF BeginEnroll, Start
  <2>3. job'[w].step = "enroll" /\ job'[w].e = e
    BY <1>0, <2>2 DEF Become, Idle
  <2>4. SeatsAvailable(e) /\ UNCHANGED enrollment
    BY <2>1 DEF BeginEnroll
  <2> QED
    BY <2>1, <2>3, <2>4 DEF BeginEnroll, StillTrue, SeatsAvailable, ActiveIn, Below
<1>2. CASE BeginSync(w) \/ (Sync(w) /\ ~Finish(w))
  <2>1. PICK j \in {Idle, job[w]} :
          /\ Become(w, [j EXCEPT !.step = "follow", !.seen = SyncRead])
          /\ UNCHANGED contract
    <3>1. CASE BeginSync(w)
      BY <3>1 DEF BeginSync, Start
    <3>2. CASE Sync(w) /\ ~Finish(w)
      <4>1. Become(w, [job[w] EXCEPT !.seen = SyncRead]) /\ job[w].step = "follow" /\ UNCHANGED contract
        BY <3>2 DEF Sync, At
      <4>2. [job[w] EXCEPT !.step = "follow", !.seen = SyncRead] = [job[w] EXCEPT !.seen = SyncRead]
        BY <1>0, <4>1 DEF Jobs
      <4> QED
        BY <4>1, <4>2
    <3> QED
      BY <1>2, <3>1, <3>2
  <2>2. job'[w].step = "follow" /\ job'[w].seen = SyncRead
    BY <1>0, <2>1 DEF Become, Idle, Jobs
  <2>3. \A e \in Enrollments : SyncRead[e].contract = contract[e].status
    BY DEF SyncRead
  <2> QED
    BY <2>1, <2>2, <2>3 DEF StillTrue
<1>3. CASE \E op \in {"cohort", "resize"}, c \in Cohorts, row \in CohortRows : BeginCohort(w, op, c, row)
  <2>1. PICK op \in {"cohort", "resize"}, c \in Cohorts, row \in CohortRows : BeginCohort(w, op, c, row)
    BY <1>3
  <2>2. job'[w].step = "cohort" /\ job'[w].cohort = c /\ job'[w].row = row
    BY <1>0, <2>1 DEF BeginCohort, Start, Become, Idle
  <2>3. ~Conflicts(c, row) /\ UNCHANGED cohort
    BY <2>1 DEF BeginCohort
  <2> QED
    BY <2>2, <2>3 DEF StillTrue, Conflicts, Standing
<1>4. CASE \E e \in Enrollments : BeginSign(w, e) \/ Reset(w, e)
  <2>1. PICK step \in {"upload", "clean"} :
          \E e, f, figures : \/ Become(w, [Idle EXCEPT !.step = step, !.e = e, !.file = f, !.figures = figures])
                             \/ Become(w, [Idle EXCEPT !.step = step, !.e = e, !.file = f])
    BY <1>4 DEF BeginSign, Reset, Start
  <2>2. job'[w].step = step
    BY <1>0, <2>1 DEF Become, Idle
  <2> QED
    BY <2>2 DEF StillTrue
<1>5. CASE Finish(w)
  BY <1>0, <1>5 DEF Finish, Become, Idle, StillTrue
<1>6. CASE \E step \in {"bill", "stamp"} : Go(w, step)
  BY <1>0, <1>6 DEF Go, Become, Jobs, StillTrue
<1>7. CASE Bill(w) /\ ~Finish(w)
  <2>1. /\ Become(w, [job[w] EXCEPT !.step = "freeze", !.price = Snapshot(job[w].e)])
        /\ UNCHANGED enrollment
    BY <1>7 DEF Bill
  <2>2. /\ job'[w].step = "freeze" /\ job'[w].e = job[w].e
        /\ job'[w].price = Snapshot(job[w].e)
    BY <1>0, <2>1 DEF Become, Jobs
  <2> QED
    BY <2>1, <2>2 DEF StillTrue, Snapshot
<1> QED
  BY <1>1, <1>2, <1>3, <1>4, <1>5, <1>6, <1>7
     DEF WorkerStep, Enroll, Bill, Freeze, Upload, Stamp, Clean, Fail, Crash, SaveCohort

LEMMA SinglyNext == Shape /\ Singly /\ [Next]_vars => Singly'
<1> SUFFICES ASSUME Shape, Singly, [Next]_vars PROVE Singly'
  OBVIOUS
<1>1. CASE CohortStep
  <2>1. UNCHANGED <<mix, job>> /\ (Alone => \A v \in Workers : At(v, "idle"))
    BY <1>1 DEF CohortStep, Reprice, DeleteCohort, CancelEnrollment, Pay, AtOnce, Admitted
  <2> QED
    BY <2>1 DEF Singly, OneBusy, Alone, At, StillTrue
<1>2. ASSUME NEW w \in Workers, WorkerStep(w) PROVE Singly'
  <2>1. /\ UNCHANGED mix
        /\ \A v \in Workers \ {w} : job'[v] = job[v]
        /\ Alone => \A v \in Workers \ {w} : At(v, "idle")
    BY <1>2, Turn DEF Singly
  <2>2. StillTrue(job[w])'
    BY <1>2, JustFound
  <2>3. OneBusy'
    BY <2>1 DEF OneBusy, Alone, At
  <2>4. Alone' => \A v \in Workers \ {w} : StillTrue(job[v])'
    BY <2>1 DEF Alone, At, StillTrue
  <2> QED
    BY <2>2, <2>3, <2>4 DEF Singly
<1>3. CASE UNCHANGED vars
  BY <1>3 DEF vars, Singly, OneBusy, Alone, At, StillTrue, SeatsAvailable, ActiveIn, Below, Conflicts, Standing
<1> QED
  BY <1>1, <1>2, <1>3 DEF Next

-----------------------------------------------------------------------------
(* Seats.                                                                  *)

\* One more active student than before, at a free seat, or not one more.
LEMMA SeatsStep ==
  ASSUME Shape, Singly, [Next]_vars, NEW c \in Cohorts, Alone
  PROVE  \/ ActiveIn(c)' \subseteq ActiveIn(c)
         \/ /\ Below(Cardinality(ActiveIn(c)), c)
            /\ \E s \in Students : ActiveIn(c)' \subseteq ActiveIn(c) \cup {s}
<1>0. enrollment \in [Enrollments -> EnrollmentRows]
  BY DEF Shape, TypeOK
<1>1. ASSUME NEW w \in Workers, Enroll(w), ~UNCHANGED enrollment
      PROVE  \/ ActiveIn(c)' \subseteq ActiveIn(c)
             \/ /\ Below(Cardinality(ActiveIn(c)), c)
                /\ \E s \in Students : ActiveIn(c)' \subseteq ActiveIn(c) \cup {s}
  <2> DEFINE e == job[w].e
  <2>1. job[w].step = "enroll" /\ e \in Enrollments /\ SeatsAvailable(e)
    BY <1>1 DEF Enroll, At, Shape, JobsOK, JobOK, Singly, StillTrue
  <2>2. PICK d \in Cohorts, s \in Students : e = <<d, s>>
    BY <2>1 DEF Enrollments
  <2>3. enrollment' = [enrollment EXCEPT ![e].status = "active"]
    BY <1>1 DEF Enroll
  <2> HIDE DEF e
  <2>4. \A b \in Enrollments \ {e} : enrollment'[b] = enrollment[b]
    BY <1>0, <2>3
  <2>5. \A r \in Students : <<c, r>> \in Enrollments
    BY DEF Enrollments
  <2>6. CASE d = c
    <3>1. Below(Cardinality(ActiveIn(c)), c)
      BY <2>1, <2>2, <2>6 DEF SeatsAvailable
    <3>2. \A r \in Students : r # s => <<c, r>> # e
      BY <2>2
    <3>3. ActiveIn(c)' \subseteq ActiveIn(c) \cup {s}
      BY <2>4, <2>5, <3>2 DEF ActiveIn
    <3> QED
      BY <3>1, <3>3
  <2>7. CASE d # c
    <3>1. \A r \in Students : <<c, r>> # e
      BY <2>2, <2>7
    <3> QED
      BY <2>4, <2>5, <3>1 DEF ActiveIn
  <2> QED
    BY <2>6, <2>7
<1>2. ASSUME \A e \in Enrollments : enrollment'[e].status = "active" => enrollment[e].status = "active"
      PROVE  ActiveIn(c)' \subseteq ActiveIn(c)
  BY <1>2 DEF ActiveIn, Enrollments
<1>3. ASSUME NEW d \in Cohorts, DeleteCohort(d), NEW e \in Enrollments, enrollment'[e].status = "active"
      PROVE  enrollment[e].status = "active"
  BY <1>3 DEF DeleteCohort, NoEnrollment
<1>4. ASSUME NEW d \in Enrollments, CancelEnrollment(d) \/ Pay(d), NEW e \in Enrollments,
             enrollment'[e].status = "active"
      PROVE  enrollment[e].status = "active"
  BY <1>0, <1>4 DEF CancelEnrollment, Pay, EnrollmentRows
<1>5. ASSUME NEW w \in Workers, Freeze(w), NEW e \in Enrollments, enrollment'[e].status = "active"
      PROVE  enrollment[e].status = "active"
  BY <1>0, <1>5 DEF Freeze, EnrollmentRows
<1>6. \/ UNCHANGED enrollment
      \/ \E d \in Cohorts : DeleteCohort(d)
      \/ \E d \in Enrollments : CancelEnrollment(d) \/ Pay(d)
      \/ \E w \in Workers : Enroll(w) \/ Freeze(w)
  BY DEF Next, CohortStep, WorkerStep, Reprice, BeginEnroll, Bill, BeginSign, Reset, BeginSync, Sync, Upload, Stamp,
     Clean, Fail, Crash, BeginCohort, SaveCohort, vars
<1> QED
  BY <1>1, <1>2, <1>3, <1>4, <1>5, <1>6

LEMMA ActiveInFinite ==
  ASSUME NEW c \in Cohorts
  PROVE  IsFiniteSet(ActiveIn(c)) /\ Cardinality(ActiveIn(c)) \in Nat
<1>1. IsFiniteSet(ActiveIn(c))
  BY RosterAssumption, FS_Subset DEF ActiveIn
<1> QED
  BY <1>1, FS_CardinalityType

LEMMA SeatsTaken ==
  ASSUME Shape, Singly, [Next]_vars, Alone, NEW c \in Cohorts
  PROVE  ActiveIn(c)' \subseteq ActiveIn(c) \/ Within(Cardinality(ActiveIn(c)'), c)
<1> SUFFICES ASSUME ~(ActiveIn(c)' \subseteq ActiveIn(c)), cohort[c].capacity # None
             PROVE  Cardinality(ActiveIn(c)') <= cohort[c].capacity
  BY DEF Within
<1>1. PICK s \in Students : ActiveIn(c)' \subseteq ActiveIn(c) \cup {s}
  BY SeatsStep
<1>2. Cardinality(ActiveIn(c)) < cohort[c].capacity
  BY SeatsStep DEF Below
<1>3. cohort[c].capacity \in Nat
  BY RosterAssumption DEF Shape, TypeOK, CohortRows
<1>4. IsFiniteSet(ActiveIn(c)) /\ Cardinality(ActiveIn(c)) \in Nat
  BY ActiveInFinite
<1>5. /\ IsFiniteSet(ActiveIn(c) \cup {s})
      /\ \/ Cardinality(ActiveIn(c) \cup {s}) = Cardinality(ActiveIn(c))
         \/ Cardinality(ActiveIn(c) \cup {s}) = Cardinality(ActiveIn(c)) + 1
  BY <1>4, FS_AddElement
<1>6. Cardinality(ActiveIn(c)') <= Cardinality(ActiveIn(c) \cup {s}) /\ Cardinality(ActiveIn(c)') \in Nat
  BY <1>1, <1>5, FS_Subset, FS_CardinalityType
<1> QED
  BY <1>2, <1>3, <1>4, <1>5, <1>6

\* Nobody is taken in beyond a cohort's capacity while requests come one at a time,
\* through whatever edits of the capacity: enroll counts the active rows for a new
\* student and for one who returns alike (enrollments.py, seats_available).
THEOREM NobodyBeyondCapacityAlways == Spec => NobodyBeyondCapacity
<1>1. Shape /\ Singly /\ [Next]_vars =>
        [Alone => \A c \in Cohorts :
           ActiveIn(c)' \subseteq ActiveIn(c) \/ Within(Cardinality(ActiveIn(c)'), c)]_vars
  BY SeatsTaken
<1> QED
  BY <1>1, ShapeInit, ShapeNext, SinglyInit, SinglyNext, PTL DEF Spec, NobodyBeyondCapacity

-----------------------------------------------------------------------------
(* Prices.                                                                 *)

LEMMA FrozenStep ==
  ASSUME Shape, Singly, [Next]_vars, NEW e \in Enrollments,
         enrollment[e].price # None, enrollment'[e].price # enrollment[e].price
  PROVE  \/ cohort'[e[1]].status = "deleted"
         \/ ~Alone /\ \E w \in Workers : At(w, "freeze") /\ job[w].e = e /\ job[w].price # None
<1>0. enrollment \in [Enrollments -> EnrollmentRows] /\ cohort \in [Cohorts -> CohortRows]
  BY DEF Shape, TypeOK
<1>1. ASSUME NEW c \in Cohorts, DeleteCohort(c) PROVE cohort'[e[1]].status = "deleted"
  <2>1. e[1] = c
    BY <1>1 DEF DeleteCohort
  <2> QED
    BY <1>0, <1>1, <2>1 DEF DeleteCohort, NoCohort
<1>2. ASSUME NEW d \in Enrollments, CancelEnrollment(d) \/ Pay(d) PROVE FALSE
  BY <1>0, <1>2 DEF CancelEnrollment, Pay, EnrollmentRows
<1>3. ASSUME NEW w \in Workers, Enroll(w) PROVE FALSE
  BY <1>0, <1>3 DEF Enroll, EnrollmentRows
<1>4. ASSUME NEW w \in Workers, Freeze(w)
      PROVE  ~Alone /\ At(w, "freeze") /\ job[w].e = e /\ job[w].price # None
  <2>1. At(w, "freeze") /\ job[w].e = e /\ job[w].price # None
    BY <1>0, <1>4 DEF Freeze
  <2> QED
    BY <2>1 DEF Singly, StillTrue, At
<1>5. \/ UNCHANGED enrollment
      \/ \E c \in Cohorts : DeleteCohort(c)
      \/ \E d \in Enrollments : CancelEnrollment(d) \/ Pay(d)
      \/ \E w \in Workers : Enroll(w) \/ Freeze(w)
  BY DEF Next, CohortStep, WorkerStep, Reprice, BeginEnroll, Bill, BeginSign, Reset, BeginSync, Sync, Upload, Stamp,
     Clean, Fail, Crash, BeginCohort, SaveCohort, vars
<1> QED
  BY <1>1, <1>2, <1>3, <1>4, <1>5

\* A price once taken down is changed by no later edit of the course, cancellation or
\* return (snapshot_price); under overlap only a request that had loaded the row before
\* writes over it.
THEOREM PriceStaysFrozenAlways == Spec => PriceStaysFrozen
<1>1. Shape /\ Singly /\ [Next]_vars =>
        [\A e \in Enrollments :
           enrollment[e].price # None /\ enrollment'[e].price # enrollment[e].price =>
             \/ cohort'[e[1]].status = "deleted"
             \/ ~Alone /\ \E w \in Workers : At(w, "freeze") /\ job[w].e = e /\ job[w].price # None]_vars
  BY FrozenStep DEF vars
<1> QED
  BY <1>1, ShapeInit, ShapeNext, SinglyInit, SinglyNext, PTL DEF Spec, PriceStaysFrozen

-----------------------------------------------------------------------------
(* The timetable.                                                          *)

Clash(a, b) == a.uses \cap b.uses # {} /\ Meets(a.when, b.when)

LEMMA ClashIsMutual ==
  ASSUME NEW a, NEW b, Clash(a, b)
  PROVE  Clash(b, a)
BY DEF Clash, Meets

\* Where rows stand only where they stood, unchanged or checked, nothing clashes.
LEMMA TimetableSaved ==
  ASSUME Shape, NEW c \in Cohorts, NEW row \in CohortRows, ~Conflicts(c, row),
         \A d \in Cohorts : Standing(d) => ~Conflicts(d, cohort[d]),
         cohort' = [cohort EXCEPT ![c] = row]
  PROVE  \A d \in Cohorts : Standing(d)' => ~Conflicts(d, cohort[d])'
<1>0. cohort \in [Cohorts -> CohortRows]
  BY DEF Shape, TypeOK
<1>1. cohort'[c] = row /\ \A d \in Cohorts \ {c} : cohort'[d] = cohort[d] /\ (Standing(d)' <=> Standing(d))
  BY <1>0 DEF Standing
<1>2. \A o \in Cohorts \ {c} : Standing(o) => ~Clash(cohort[o], row)
  BY DEF Conflicts, Clash
<1>3. \A d \in Cohorts, o \in Cohorts : d # o /\ Standing(d) /\ Standing(o) => ~Clash(cohort[o], cohort[d])
  BY DEF Conflicts, Clash
<1> SUFFICES ASSUME NEW d \in Cohorts, Standing(d)', NEW o \in Cohorts \ {d}, Standing(o)'
             PROVE  ~Clash(cohort'[o], cohort'[d])
  BY DEF Conflicts, Clash, Standing
<1>4. CASE d = c
  BY <1>1, <1>2, <1>4
<1>5. CASE o = c
  BY <1>1, <1>2, <1>5, ClashIsMutual
<1>6. CASE d # c /\ o # c
  BY <1>1, <1>3, <1>6
<1> QED
  BY <1>4, <1>5, <1>6

LEMMA TimetableNext == Shape /\ Singly /\ NotDoubleBooked /\ [Next]_vars => NotDoubleBooked'
<1> SUFFICES ASSUME Shape, Singly, NotDoubleBooked, [Next]_vars, Alone'
             PROVE  \A d \in Cohorts : Standing(d)' => ~Conflicts(d, cohort[d])'
  BY DEF NotDoubleBooked, Conflicts, Standing
<1>1. UNCHANGED mix
  BY DEF Next, CohortStep, WorkerStep, Reprice, DeleteCohort, CancelEnrollment, Pay, BeginEnroll, Enroll, Bill, Freeze,
     BeginSign, Reset, BeginSync, Sync, Upload, Stamp, Clean, Fail, Crash, BeginCohort, SaveCohort, vars
<1>2. Alone /\ \A d \in Cohorts : Standing(d) => ~Conflicts(d, cohort[d])
  BY <1>1 DEF Alone, NotDoubleBooked
<1>3. CASE UNCHANGED cohort
  BY <1>2, <1>3 DEF Conflicts, Standing
<1>4. ASSUME NEW w \in Workers, SaveCohort(w), ~UNCHANGED cohort
      PROVE  \A d \in Cohorts : Standing(d)' => ~Conflicts(d, cohort[d])'
  <2>1. /\ job[w].cohort \in Cohorts /\ job[w].row \in CohortRows
        /\ ~Conflicts(job[w].cohort, job[w].row)
    BY <1>2, <1>4 DEF SaveCohort, At, Shape, JobsOK, JobOK, Singly, StillTrue
  <2>2. cohort' = [cohort EXCEPT ![job[w].cohort] = job[w].row]
    BY <1>4 DEF SaveCohort
  <2> QED
    BY <1>2, <2>1, <2>2, TimetableSaved
<1>5. ASSUME NEW c \in Cohorts, DeleteCohort(c)
      PROVE  \A d \in Cohorts : Standing(d)' => ~Conflicts(d, cohort[d])'
  <2> DEFINE row == NoCohort("deleted")
  <2>1. row \in CohortRows /\ ~Conflicts(c, row)
    BY NoCohortType DEF NoCohort, Conflicts
  <2>2. cohort' = [cohort EXCEPT ![c] = row]
    BY <1>5 DEF DeleteCohort
  <2> HIDE DEF row
  <2> QED
    BY <1>2, <2>1, <2>2, TimetableSaved
<1>6. \/ UNCHANGED cohort
      \/ \E c \in Cohorts : DeleteCohort(c)
      \/ \E w \in Workers : SaveCohort(w)
  BY DEF Next, CohortStep, WorkerStep, Reprice, CancelEnrollment, Pay, BeginEnroll, Enroll, Bill, Freeze, BeginSign, Reset,
     BeginSync, Sync, Upload, Stamp, Clean, Fail, Crash, BeginCohort, vars
<1> QED
  BY <1>3, <1>4, <1>5, <1>6

\* No teacher and no room is given two cohorts that meet, while requests come one
\* at a time: every creation and every edit is checked against all other cohorts
\* (cohorts.py, _check_conflicts), and what it found still holds when it commits.
THEOREM NotDoubleBookedAlways == Spec => []NotDoubleBooked
<1>1. Init => Shape /\ Singly /\ NotDoubleBooked
  <2> SUFFICES ASSUME Init PROVE NotDoubleBooked
    BY ShapeInit, SinglyInit
  <2>1. \A c \in Cohorts : cohort[c].uses = {}
    BY DEF Init, NoCohort
  <2> QED
    BY <2>1 DEF NotDoubleBooked, Conflicts
<1>2. Shape /\ Singly /\ NotDoubleBooked /\ [Next]_vars => (Shape /\ Singly /\ NotDoubleBooked)'
  BY ShapeNext, SinglyNext, TimetableNext
<1> QED
  BY <1>1, <1>2, PTL DEF Spec

-----------------------------------------------------------------------------
(* Signatures.                                                             *)

LEMMA SignatureStep ==
  ASSUME Shape, Singly, [Next]_vars, NEW e \in Enrollments,
         Alone, contract[e].status = "signed", contract'[e].status # "signed"
  PROVE  cohort'[e[1]].status = "deleted" \/ \E w \in Workers : job'[w].step = "clean" /\ job'[w].e = e
<1>0. /\ contract \in [Enrollments -> ContractRows] /\ cohort \in [Cohorts -> CohortRows]
      /\ job \in [Workers -> Jobs]
  BY DEF Shape, TypeOK
<1>1. ASSUME NEW c \in Cohorts, DeleteCohort(c) PROVE cohort'[e[1]].status = "deleted"
  <2>1. e[1] = c
    BY <1>1 DEF DeleteCohort
  <2> QED
    BY <1>0, <1>1, <2>1 DEF DeleteCohort, NoCohort
<1>2. ASSUME NEW w \in Workers, NEW d \in Enrollments, Reset(w, d)
      PROVE  job'[w].step = "clean" /\ job'[w].e = e
  <2>1. Become(w, [Idle EXCEPT !.step = "clean", !.e = d, !.file = contract[d].file])
    BY <1>2 DEF Reset, Start
  <2>2. d = e
    BY <1>0, <1>2 DEF Reset
  <2> QED
    BY <1>0, <2>1, <2>2 DEF Become, Idle
<1>3. ASSUME NEW w \in Workers, Stamp(w) PROVE FALSE
  <2>1. job[w].e \in Enrollments
    BY <1>3 DEF Stamp, At, Shape, JobsOK, JobOK
  <2>2. contract'[e].status \in {"signed", contract[e].status}
    BY <1>0, <1>3, <2>1 DEF Stamp
  <2> QED
    BY <2>2
<1>4. ASSUME NEW w \in Workers, Sync(w) PROVE FALSE
  <2> DEFINE seen == job[w].seen
  <2>1. seen[e].contract = "signed"
    BY <1>4 DEF Sync, At, Singly, StillTrue
  <2>2. e \notin Follows(seen)
    BY <2>1 DEF Follows, Followed
  <2>3. contract'[e] = contract[e]
    BY <1>4, <2>2 DEF Sync
  <2> QED
    BY <2>3
<1>5. \/ UNCHANGED contract
      \/ \E c \in Cohorts : DeleteCohort(c)
      \/ \E w \in Workers : Sync(w) \/ Stamp(w) \/ \E d \in Enrollments : Reset(w, d)
  BY DEF Next, CohortStep, WorkerStep, Reprice, CancelEnrollment, Pay, BeginEnroll, Enroll, Bill, Freeze, BeginSign,
     BeginSync, Upload, Clean, Fail, Crash, BeginCohort, SaveCohort, vars
<1> QED
  BY <1>1, <1>2, <1>3, <1>4, <1>5

\* A signature is taken back only by a reset, or with the whole cohort, while
\* requests come one at a time: the follow-up of contracts by their enrollments
\* leaves a signed one alone (contracts/core.py, _sync_once).
THEOREM SignedStaysAlways == Spec => SignedStays
<1>1. Shape /\ Singly /\ [Next]_vars =>
        [\A e \in Enrollments :
           Alone /\ contract[e].status = "signed" /\ contract'[e].status # "signed"
             => cohort'[e[1]].status = "deleted" \/ \E w \in Workers : job'[w].step = "clean" /\ job'[w].e = e]_vars
  BY SignatureStep
<1> QED
  BY <1>1, ShapeInit, ShapeNext, SinglyInit, SinglyNext, PTL DEF Spec, SignedStays
=============================================================================
