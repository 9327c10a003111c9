------------------------------- MODULE Classwork -------------------------------
(***************************************************************************)
(* What a student does in a course: attendance, lessons and notes, quizzes *)
(* and the certificate that rests on them: src/app/services/attendance,    *)
(* learning, quizzes and certificates.  Only quiz attempts are locked; the *)
(* rest leans on unique keys, and on reads that may be old when used.      *)
(***************************************************************************)
EXTENDS Integers, FiniteSets, FiniteSetsExt

CONSTANTS
  Workers,      \* request threads
  Mixes,        \* what a behaviour may consist of: requests, students, class days, days,
                \* and the limits and marks a quiz may be given
  Students,
  NumLessons,   \* lessons of the course, in its order, in one module
  MaxDay,       \* bound: days that pass
  Points,       \* exam_questions.point, of the first and the second question
  NumQuizzes,   \* bound: quizzes made for the first lesson
  NumAttempts,  \* bound: attempts started
  None          \* no class, no student

AllOps == {"qr", "scan", "mark", "complete", "note", "leave", "quiz", "start", "answer",
           "finish", "replace", "drop", "pay", "issue", "force", "render", "fail", "crash", "alone", "ready"}

ASSUME ClassworkAssumption ==
  /\ NumLessons \in Nat \ {0} /\ MaxDay \in Nat
  /\ Points \in [1..2 -> Nat \ {0}]
  /\ NumQuizzes \in Nat \ {0} /\ NumAttempts \in Nat
  /\ \A m \in Mixes : /\ m.ops \subseteq AllOps /\ m.students \subseteq Students
                      /\ m.classes \subseteq [1..NumLessons -> 0..MaxDay \cup {None}] /\ m.days \in 0..MaxDay
                      /\ m.limits \subseteq Nat /\ m.marks \subseteq 0..100
  /\ None \notin Int \cup Students /\ IsFiniteSet(Students)

Lessons == 1..NumLessons
Days == 0..MaxDay
Questions == DOMAIN Points
Quizzes == 1..NumQuizzes
Attempts == 1..NumAttempts
Numbers == 1..Cardinality(Students)
Tries == 5
LowestOf(i, S) == i \in S /\ \A j \in S : i <= j

VARIABLES
  mix,        \* the requests and the students of this behaviour
  today,      \* the day in Ulaanbaatar
  class,      \* class_sessions: the day a lesson is taught, if it is taught
  qr,         \* qr_token_hash and qr_expires_at of a lesson's class
  enrolled,   \* students with an active enrollment
  attendance, \* table attendance
  done,       \* table lesson_progress
  note,       \* table lesson_notes
  progress,   \* enrollment.progress_pct, as the number of lessons it stands for
  quiz,       \* table exams, its questions included
  attempt,    \* table student_exams, its answers included
  paid,       \* students whose ledger balance is cleared
  cert,       \* table certificates
  stored,     \* S3: numbers of the certificates that have a file
  job         \* what each thread is doing

study == <<enrolled, attendance, done, note, progress>>
exams == <<quiz, attempt>>
awards == <<paid, cert, stored>>
calendar == <<mix, today, class, qr>>
vars == <<calendar, study, exams, awards, job>>

AttendanceRows == [status: {"none", "attended", "missed"}, method: {"qr", "manual"}]
\* limit 0 is max_attempts NULL; mark is pass_percent.
QuizRows == [status: {"absent", "active", "inactive", "deleted"}, questions: BOOLEAN,
             limit: Nat, mark: 0..100]
\* History: allowed and mark are the quiz's limit as the attempt was started and mark
\* as it was graded, swaps counts the times its questions were replaced under it.
AttemptRows == [status: {"absent", "open", "finished", "deleted"}, quiz: Quizzes, s: Students \cup {None},
                answered: SUBSET Questions, right: SUBSET Questions,
                correct: 0..Cardinality(Questions), passed: BOOLEAN,
                allowed: Nat, mark: 0..100, swaps: Nat]
Columns == {"status", "limit", "mark"}
CertRows == [status: {"none", "issued", "archived"}, number: Numbers \cup {0},
             file: BOOLEAN, forced: BOOLEAN]
Steps == {"idle", "flush", "commit", "quiz", "replace", "swap", "drop", "start", "answer",
          "finish", "number", "insert", "upload", "stamp"}
Idle == [op |-> "alone", step |-> "idle", s |-> None, i |-> 0, k |-> 0, n |-> 0,
         yes |-> FALSE, adds |-> FALSE, seen |-> {}, cols |-> {}, rows |-> {}]

-----------------------------------------------------------------------------

At(w, step) == job[w].step = step
Become(w, j) == job' = [job EXCEPT ![w] = j]
Finish(w) == Become(w, Idle)

\* In an "alone" mix a request begins when the one before it has ended.
Alone == "alone" \in mix.ops
Admitted(op) == op \in mix.ops /\ (Alone => \A v \in Workers : At(v, "idle"))
Start(w, op, j) == At(w, "idle") /\ Admitted(op) /\ Become(w, [j EXCEPT !.op = op])
AtOnce(op) == Admitted(op) /\ UNCHANGED job

-----------------------------------------------------------------------------
(* The calendar, and the check-in code on the teacher's screen.            *)

NextDay ==
  /\ today < mix.days
  /\ \A w \in Workers : At(w, "idle")
  /\ today' = today + 1
  /\ UNCHANGED <<mix, class, qr, study, exams, awards, job>>

\* issue_qr: a new code voids the one before it.
IssueQr(l) ==
  /\ AtOnce("qr")
  /\ class[l] = today
  /\ qr' = [qr EXCEPT ![l] = "live"]
  /\ UNCHANGED <<mix, today, class, study, exams, awards>>

\* External: five minutes pass.
ExpireQr(l) ==
  /\ qr[l] = "live"
  /\ qr' = [qr EXCEPT ![l] = "expired"]
  /\ UNCHANGED <<mix, today, class, study, exams, awards, job>>

\* External: Roster cancels and restores enrollments.
Leave(s) ==
  /\ AtOnce("leave")
  /\ enrolled' = IF s \in enrolled THEN enrolled \ {s} ELSE enrolled \cup {s}
  /\ UNCHANGED <<attendance, done, note, progress, calendar, exams, awards>>

\* is_locked
Come(l) == class[l] # None => class[l] <= today

\* first_sessions: the module opens with its first class.
ModuleOpen ==
  LET dated == {l \in Lessons : class[l] # None} IN dated # {} => \E l \in dated : Come(l)

\* ensure_module_open: the module's first class, and the lesson's own.
Open(l) == ModuleOpen /\ Come(l)

\* Fault: a lesson without a class of its own counts as one whose day has come.
Gated_ClassOnly(s, l) == ~Come(l) /\ \E k \in 1..(l - 1) : k \notin done[s]

\* gated_ids: behind an uncompleted lesson, unless its own class day has come.
Gated(s, l) ==
  /\ class[l] = None \/ class[l] > today
  /\ \E k \in 1..(l - 1) : k \notin done[s]

-----------------------------------------------------------------------------
(* Attendance, completion and notes: reads, a flush that inserts the rows  *)
(* and counts the lessons, and the commit.                                 *)

\* check_in; a repeated scan gets the first record.  n is the progress loaded with
\* the enrollment.
BeginScan(w, s, l) ==
  /\ qr[l] = "live" /\ s \in enrolled /\ attendance[s][l].status = "none"
  /\ Start(w, "scan", [Idle EXCEPT !.step = "flush", !.s = s, !.i = l, !.k = 1,
       !.n = progress[s], !.yes = TRUE])
  /\ UNCHANGED <<calendar, study, exams, awards>>

\* mark: not for a class still ahead.  k is 1 when there is no record to change.
BeginMark(w, s, l, attended) ==
  /\ class[l] # None /\ class[l] <= today /\ s \in enrolled
  /\ Start(w, "mark", [Idle EXCEPT !.step = "flush", !.s = s, !.i = l, !.n = progress[s],
       !.yes = attended, !.k = IF attendance[s][l].status = "none" THEN 1 ELSE 0])
  /\ UNCHANGED <<calendar, study, exams, awards>>

\* complete_lesson and put_note, past _open_lesson.
BeginLesson(w, s, l, op) ==
  /\ s \in enrolled /\ Open(l) /\ ~Gated(s, l)
  /\ Start(w, op, [Idle EXCEPT !.step = "flush", !.s = s, !.i = l, !.n = progress[s], !.yes = TRUE])
  /\ UNCHANGED <<calendar, study, exams, awards>>

CheckIn(j) == j.op \in {"scan", "mark"}

\* on_attended, and mark_completed for the rest.
Completes(j) == j.yes /\ (CheckIn(j) => j.s \in enrolled)

\* An inserted row keeps the like of it waiting until its commit.
Blocked(w) ==
  LET j == job[w] IN
  \E v \in Workers \ {w} :
    /\ At(v, "commit") /\ job[v].s = j.s /\ job[v].i = j.i
    /\ CheckIn(job[v]) = CheckIn(j) \/ (Completes(j) /\ job[v].adds)

\* course_progress, of the rows committed and its own.
Counted(s, l) == Cardinality(done[s] \cup {l})

\* Fault: the insert became an upsert.
Refused_Never(j) == FALSE

\* uq_attendance: a record that appeared since the read refuses a scan, and fails
\* a mark.
Refused(j) == CheckIn(j) /\ j.k = 1 /\ attendance[j.s][j.i].status # "none"

\* From here k says whether the progress changes for this request: it writes only
\* then.
Flush(w) ==
  LET j == job[w]
      n == Counted(j.s, j.i)
  IN
  /\ At(w, "flush") /\ ~Blocked(w)
  /\ IF Refused(j) THEN Finish(w)
     ELSE Become(w, [j EXCEPT !.step = "commit", !.n = n, !.adds = Completes(j),
            !.k = IF Completes(j) /\ n # j.n THEN 1 ELSE 0])
  /\ UNCHANGED <<calendar, study, exams, awards>>

\* Fault: only a scan completes the lesson, a teacher's mark does not.
Completed_NotByMark(j) ==
  IF j.adds /\ j.op # "mark" THEN [done EXCEPT ![j.s] = @ \cup {j.i}] ELSE done

\* mark_completed; a completed lesson stays completed.
Completed(j) == IF j.adds THEN [done EXCEPT ![j.s] = @ \cup {j.i}] ELSE done

Record(j) ==
  [status |-> IF j.yes THEN "attended" ELSE "missed",
   method |-> IF j.op = "scan" THEN "qr" ELSE "manual"]

Commit(w) ==
  LET j == job[w] IN
  /\ At(w, "commit")
  /\ attendance' = IF CheckIn(j) THEN [attendance EXCEPT ![j.s][j.i] = Record(j)] ELSE attendance
  /\ note' = IF j.op = "note" THEN [note EXCEPT ![j.s] = @ \cup {j.i}] ELSE note
  /\ done' = Completed(j)
  /\ progress' = IF j.k = 1 THEN [progress EXCEPT ![j.s] = j.n] ELSE progress
  /\ Finish(w)
  /\ UNCHANGED <<enrolled, calendar, exams, awards>>

-----------------------------------------------------------------------------
(* Quizzes of the first lesson.                                            *)

Live(q) == quiz[q].status = "active" /\ quiz[q].questions
Standing(q) == quiz[q].status \in {"active", "inactive"}
Active == {q \in Quizzes : quiz[q].status = "active"}
AttemptsOf(q) == {a \in Attempts : attempt[a].status \in {"open", "finished"} /\ attempt[a].quiz = q}
OpenOf(s, q) == {a \in AttemptsOf(q) : attempt[a].status = "open" /\ attempt[a].s = s}
FinishedOf(s, q) == {a \in AttemptsOf(q) : attempt[a].status = "finished" /\ attempt[a].s = s}

\* Deleted by a replacement of the questions that has not committed: seen by the
\* others until then, and locked.
Wiped(a) == \E w \in Workers : At(w, "swap") /\ a \in job[w].rows

\* Fault: an answer no longer takes the row.
AttemptFree_FinishOnly(a) == ~Wiped(a) /\ \A w \in Workers : ~(At(w, "finish") /\ job[w].i = a)

\* _own_attempt(lock=True): the row is held to the end of the request.
AttemptFree(a) ==
  ~Wiped(a) /\ \A w \in Workers : ~(job[w].step \in {"answer", "finish"} /\ job[w].i = a)

\* _one_quiz_per_lesson
Clashes(q) == Active \ {q} # {}

\* create_quiz (q = 0) and update_quiz, up to their commit: any of the fields may be
\* given, and what differs from the row that was loaded will be written.
BeginQuiz(w, q, active, limit, mark) ==
  /\ IF q = 0 THEN active /\ \E p \in Quizzes : quiz[p].status = "absent" ELSE Standing(q)
  /\ active => ~Clashes(q)
  /\ Start(w, "quiz", [Idle EXCEPT !.step = "quiz", !.i = q, !.yes = active, !.k = limit, !.n = mark,
       !.cols = {c \in Columns :
         q # 0 => \/ c = "status" /\ active # (quiz[q].status = "active")
                  \/ c = "limit" /\ limit # quiz[q].limit
                  \/ c = "mark" /\ mark # quiz[q].mark}])
  /\ UNCHANGED <<calendar, study, exams, awards>>

Saved(row, j) ==
  [row EXCEPT !.status = IF "status" \notin j.cols THEN @ ELSE IF j.yes THEN "active" ELSE "inactive",
              !.limit = IF "limit" \in j.cols THEN j.k ELSE @,
              !.mark = IF "mark" \in j.cols THEN j.n ELSE @]

SaveQuiz(w) ==
  LET j == job[w] IN
  /\ At(w, "quiz")
  /\ \/ /\ j.i = 0
        /\ \E q \in Quizzes :
             /\ LowestOf(q, {p \in Quizzes : quiz[p].status = "absent"})
             /\ quiz' = [quiz EXCEPT ![q] = Saved(@, j)]
     \/ /\ j.i # 0 /\ Standing(j.i)
        /\ quiz' = [quiz EXCEPT ![j.i] = Saved(@, j)]
     \/ /\ IF j.i = 0 THEN \A q \in Quizzes : quiz[q].status # "absent" ELSE ~Standing(j.i)
        /\ UNCHANGED quiz
  /\ Finish(w)
  /\ UNCHANGED <<attempt, calendar, study, awards>>

\* quiz_has_attempts
MayChange(q, force) == force \/ AttemptsOf(q) = {}

\* replace_questions and delete_quiz count the attempts; yes means force.
BeginChange(w, q, op, force) ==
  /\ Standing(q) /\ MayChange(q, force)
  /\ Start(w, op, [Idle EXCEPT !.step = op, !.i = q, !.yes = force])
  /\ UNCHANGED <<calendar, study, exams, awards>>

\* replace_questions deletes the attempts, those begun since the count included; one
\* that is held is waited for.
Wipe(w) ==
  LET q == job[w].i IN
  /\ At(w, "replace")
  /\ \A a \in AttemptsOf(q) : AttemptFree(a)
  /\ Become(w, [job[w] EXCEPT !.step = "swap", !.rows = AttemptsOf(q)])
  /\ UNCHANGED <<calendar, study, exams, awards>>

\* Then the questions, and with them the answers given to them in an attempt begun
\* since; the new ones are inserted, unless the quiz is gone, and all is committed.
Swap(w) ==
  LET j == job[w]
      begun == AttemptsOf(j.i) \ j.rows
  IN
  /\ At(w, "swap")
  /\ IF Standing(j.i)
     THEN /\ attempt' = [a \in Attempts |->
               IF a \in j.rows THEN [attempt[a] EXCEPT !.status = "deleted"]
               ELSE IF a \in begun
                 THEN [attempt[a] EXCEPT !.answered = {}, !.right = {}, !.swaps = @ + 1]
                 ELSE attempt[a]]
          /\ quiz' = [quiz EXCEPT ![j.i].questions = TRUE]
     ELSE UNCHANGED exams
  /\ Finish(w)
  /\ UNCHANGED <<calendar, study, awards>>

\* delete_quiz: the attempts go with it, and one that is held is waited for.
Drop(w) ==
  LET q == job[w].i IN
  /\ At(w, "drop")
  /\ \A a \in AttemptsOf(q) : AttemptFree(a)
  /\ attempt' = [a \in Attempts |->
       IF a \in AttemptsOf(q) THEN [attempt[a] EXCEPT !.status = "deleted"] ELSE attempt[a]]
  /\ quiz' = [quiz EXCEPT ![q].status = "deleted"]
  /\ Finish(w)
  /\ UNCHANGED <<calendar, study, awards>>

\* Fault: the limit is tested after one more.
AttemptsLeft_OneMore(s, q) ==
  quiz[q].limit # 0 => Cardinality(FinishedOf(s, q)) <= quiz[q].limit

AttemptsLeft(s, q) == quiz[q].limit # 0 => Cardinality(FinishedOf(s, q)) < quiz[q].limit

\* Bound: an attempt is kept for every request that may start one.
RoomLeft == Cardinality({w \in Workers : At(w, "start")})
              < Cardinality({a \in Attempts : attempt[a].status = "absent"})

\* start_attempt; a start that finds an open attempt resumes it.  k is the limit it
\* has checked.
BeginAttempt(w, s, q) ==
  /\ Live(q) /\ s \in enrolled /\ Open(1)
  /\ OpenOf(s, q) = {} /\ AttemptsLeft(s, q) /\ RoomLeft
  /\ Start(w, "start", [Idle EXCEPT !.step = "start", !.s = s, !.i = q, !.k = quiz[q].limit])
  /\ UNCHANGED <<calendar, study, exams, awards>>

\* uq_student_exams_open: the loser resumes the winner's attempt; one that is being
\* deleted is waited for.
StartAttempt(w) ==
  LET j == job[w] IN
  /\ At(w, "start")
  /\ \A a \in OpenOf(j.s, j.i) : ~Wiped(a)
  /\ \/ /\ Standing(j.i) /\ OpenOf(j.s, j.i) = {}
        /\ \E a \in Attempts :
             /\ LowestOf(a, {b \in Attempts : attempt[b].status = "absent"})
             /\ attempt' = [attempt EXCEPT ![a].status = "open", ![a].s = j.s, ![a].quiz = j.i,
                                         ![a].allowed = j.k]
     \/ /\ ~Standing(j.i) \/ OpenOf(j.s, j.i) # {}
        /\ UNCHANGED attempt
  /\ Finish(w)
  /\ UNCHANGED <<quiz, calendar, study, awards>>

\* answer_question: an answer is final.  n tells the question from one that replaces it.
BeginAnswer(w, a, k, right) ==
  /\ attempt[a].status = "open" /\ AttemptFree(a)
  /\ attempt[a].s \in enrolled /\ Open(1)
  /\ k \notin attempt[a].answered
  /\ Start(w, "answer", [Idle EXCEPT !.step = "answer", !.i = a, !.k = k,
       !.n = attempt[a].swaps, !.yes = right])
  /\ UNCHANGED <<calendar, study, exams, awards>>

\* IntegrityError: the question was replaced since.
Answer(w) ==
  LET j == job[w] IN
  /\ At(w, "answer")
  /\ attempt' = IF attempt[j.i].swaps # j.n THEN attempt
                ELSE [attempt EXCEPT ![j.i].answered = @ \cup {j.k},
                        ![j.i].right = IF j.yes THEN @ \cup {j.k} ELSE @]
  /\ Finish(w)
  /\ UNCHANGED <<quiz, calendar, study, awards>>

\* finish_attempt: the quiz, and the answers it will grade; finishing again changes
\* nothing.
BeginFinish(w, a) ==
  /\ attempt[a].status = "open" /\ AttemptFree(a)
  /\ Start(w, "finish", [Idle EXCEPT !.step = "finish", !.i = a,
       !.n = quiz[attempt[a].quiz].mark, !.seen = attempt[a].right])
  /\ UNCHANGED <<calendar, study, exams, awards>>

\* grade: unanswered is wrong, and a question weighs its points.
Percent(right) ==
  (100 * MapThenSumSet(LAMBDA k : Points[k], right))
     \div MapThenSumSet(LAMBDA k : Points[k], Questions)

Graded(row, right, mark) ==
  [row EXCEPT !.status = "finished", !.correct = Cardinality(right), !.mark = mark,
              !.passed = Percent(right) >= mark]

FinishAttempt(w) ==
  LET j == job[w] IN
  /\ At(w, "finish")
  /\ attempt' = [attempt EXCEPT ![j.i] = Graded(@, j.seen, j.n)]
  /\ Finish(w)
  /\ UNCHANGED <<quiz, calendar, study, awards>>

-----------------------------------------------------------------------------
(* Certificates.                                                           *)

\* External: Settlement clears a balance, and a refund opens it again.
Pay(s) ==
  /\ AtOnce("pay")
  /\ paid' = IF s \in paid THEN paid \ {s} ELSE paid \cup {s}
  /\ UNCHANGED <<cert, stored, calendar, study, exams>>

\* required_quizzes_passed: of the live quizzes of a lesson the app opens the first.
QuizzesPassed(s) ==
  \A q \in Quizzes : LowestOf(q, {p \in Quizzes : Live(p)}) =>
    \E a \in FinishedOf(s, q) : attempt[a].passed

\* Fault: a student who left is judged by the lessons done.
IsEligible_AnyLesson(s) == s \in enrolled /\ done[s] # {} /\ QuizzesPassed(s) /\ s \in paid

\* requirements, is_eligible
IsEligible(s) == s \in enrolled /\ done[s] = Lessons /\ QuizzesPassed(s) /\ s \in paid

\* issue up to the number; op "force" is force=True.  issue_for_cohort does this,
\* or BeginRender, for one student after another.
BeginIssue(w, s, op) ==
  /\ cert[s].status = "none"
  /\ op = "force" \/ IsEligible(s)
  /\ Start(w, op, [Idle EXCEPT !.step = "number", !.s = s, !.yes = op = "force"])
  /\ UNCHANGED <<calendar, study, exams, awards>>

\* _next_number; k counts the tries.
NextNumber(w) ==
  LET last == Max({cert[s].number : s \in Students} \cup {0}) IN
  /\ At(w, "number")
  /\ Become(w, [job[w] EXCEPT !.step = "insert", !.n = last + 1, !.k = @ + 1])
  /\ UNCHANGED <<calendar, study, exams, awards>>

\* Fault: numbers are not unique.
NumberTaken_Never(n) == FALSE

\* cert_number is unique ...
NumberTaken(n) == \E s \in Students : cert[s].number = n

\* ... and so is the student in the course (uq_certificate_student_course).
InsertCert(w) ==
  LET j == job[w] IN
  /\ At(w, "insert")
  /\ IF cert[j.s].status # "none" THEN Finish(w) /\ UNCHANGED cert
     ELSE IF NumberTaken(j.n)
       THEN /\ IF j.k < Tries THEN Become(w, [j EXCEPT !.step = "number"]) ELSE Finish(w)
            /\ UNCHANGED cert
       ELSE /\ cert' = [cert EXCEPT ![j.s] =
                 [status |-> "issued", number |-> j.n, file |-> FALSE, forced |-> j.yes]]
            /\ Become(w, [j EXCEPT !.step = "upload"])
  /\ UNCHANGED <<paid, stored, calendar, study, exams>>

\* generate, for staff, for a class, or at the first download.
BeginRender(w, s) ==
  /\ cert[s].status = "issued" /\ ~cert[s].file
  /\ Start(w, "render", [Idle EXCEPT !.step = "upload", !.s = s, !.n = cert[s].number])
  /\ UNCHANGED <<calendar, study, exams, awards>>

\* upload_fileobj under the key made of the number ...
Upload(w) ==
  LET j == job[w] IN
  /\ At(w, "upload")
  /\ stored' = stored \cup {j.n}
  /\ Become(w, [j EXCEPT !.step = "stamp"])
  /\ UNCHANGED <<paid, cert, calendar, study, exams>>

\* ... then file_key and its commit.
Stamp(w) ==
  LET j == job[w] IN
  /\ At(w, "stamp")
  /\ cert' = [cert EXCEPT ![j.s].file = TRUE]
  /\ Finish(w)
  /\ UNCHANGED <<paid, stored, calendar, study, exams>>

\* archive
Archive(s) ==
  /\ AtOnce("render")
  /\ cert[s].status = "issued"
  /\ cert' = [cert EXCEPT ![s].status = "archived"]
  /\ UNCHANGED <<paid, stored, calendar, study, exams>>

\* S3StorageError: the certificate stays without its file.
Fail(w) ==
  /\ "fail" \in mix.ops
  /\ At(w, "upload")
  /\ Finish(w)
  /\ UNCHANGED <<calendar, study, exams, awards>>

\* A worker dies: what it has not committed is gone.
Crash(w) ==
  /\ "crash" \in mix.ops
  /\ ~At(w, "idle")
  /\ Finish(w)
  /\ UNCHANGED <<calendar, study, exams, awards>>

-----------------------------------------------------------------------------

Init ==
  /\ mix \in Mixes
  /\ today = 0
  /\ class \in mix.classes
  /\ qr = [l \in Lessons |-> "none"]
  /\ enrolled = mix.students
  /\ attendance = [s \in Students |-> [l \in Lessons |-> [status |-> "none", method |-> "qr"]]]
  /\ done = [s \in Students |-> {}]
  /\ note = [s \in Students |-> {}]
  /\ progress = [s \in Students |-> 0]
  /\ \E limit \in mix.limits, mark \in mix.marks :
       quiz = [q \in Quizzes |-> IF "ready" \in mix.ops /\ q = 1
         THEN [status |-> "active", questions |-> TRUE, limit |-> limit, mark |-> mark]
         ELSE [status |-> "absent", questions |-> FALSE, limit |-> 0, mark |-> 0]]
  /\ attempt = [a \in Attempts |->
       [status |-> "absent", quiz |-> 1, s |-> None, answered |-> {}, right |-> {},
        correct |-> 0, passed |-> FALSE, allowed |-> 0, mark |-> 0, swaps |-> 0]]
  /\ paid = mix.students
  /\ cert = [s \in Students |-> [status |-> "none", number |-> 0, file |-> FALSE, forced |-> FALSE]]
  /\ stored = {}
  /\ job = [w \in Workers |-> Idle]

Next ==
  \/ NextDay
  \/ \E l \in Lessons : IssueQr(l) \/ ExpireQr(l)
  \/ \E s \in mix.students : Leave(s) \/ Pay(s) \/ Archive(s)
  \/ \E w \in Workers, s \in mix.students, l \in Lessons :
       \/ BeginScan(w, s, l)
       \/ \E attended \in BOOLEAN : BeginMark(w, s, l, attended)
       \/ \E op \in {"complete", "note"} : BeginLesson(w, s, l, op)
  \/ \E w \in Workers, q \in Quizzes \cup {0}, active \in BOOLEAN, limit \in mix.limits, mark \in mix.marks :
       BeginQuiz(w, q, active, limit, mark)
  \/ \E w \in Workers, q \in Quizzes :
       \/ \E op \in {"replace", "drop"}, force \in BOOLEAN : BeginChange(w, q, op, force)
       \/ \E s \in mix.students : BeginAttempt(w, s, q)
  \/ \E w \in Workers, a \in Attempts :
       \/ \E k \in Questions, right \in BOOLEAN : BeginAnswer(w, a, k, right)
       \/ BeginFinish(w, a)
  \/ \E w \in Workers, s \in mix.students :
       (\E op \in {"issue", "force"} : BeginIssue(w, s, op)) \/ BeginRender(w, s)
  \/ \E w \in Workers :
       \/ Flush(w) \/ Commit(w) \/ SaveQuiz(w) \/ Wipe(w) \/ Swap(w) \/ Drop(w)
       \/ StartAttempt(w) \/ Answer(w) \/ FinishAttempt(w)
       \/ NextNumber(w) \/ InsertCert(w) \/ Upload(w) \/ Stamp(w) \/ Fail(w) \/ Crash(w)

Spec == Init /\ [][Next]_vars

-----------------------------------------------------------------------------
(* Properties.                                                             *)

TypeOK ==
  /\ mix \in Mixes /\ today \in Days /\ class \in [Lessons -> Days \cup {None}]
  /\ qr \in [Lessons -> {"none", "live", "expired"}]
  /\ enrolled \subseteq Students
  /\ attendance \in [Students -> [Lessons -> AttendanceRows]]
  /\ done \in [Students -> SUBSET Lessons] /\ note \in [Students -> SUBSET Lessons]
  /\ progress \in [Students -> 0..NumLessons]
  /\ quiz \in [Quizzes -> QuizRows] /\ attempt \in [Attempts -> AttemptRows]
  /\ paid \subseteq Students /\ cert \in [Students -> CertRows] /\ stored \subseteq Numbers
  /\ \A w \in Workers :
       /\ job[w].op \in AllOps /\ job[w].step \in Steps /\ job[w].s \in Students \cup {None}
       /\ {job[w].i, job[w].k, job[w].n} \subseteq Nat
       /\ job[w].yes \in BOOLEAN /\ job[w].adds \in BOOLEAN /\ job[w].seen \subseteq Questions
       /\ job[w].cols \subseteq Columns /\ job[w].rows \subseteq Attempts

\* completion.py: a lesson is completed in course order, or once its own class
\* day has come; a note completes its lesson.
CompletedInOrder ==
  \A s \in Students :
    /\ \A l \in done[s] :
         \/ \A k \in 1..(l - 1) : k \in done[s]
         \/ class[l] # None /\ class[l] <= today
    /\ note[s] \subseteq done[s]

\* checkin.py: whoever is recorded as attending a class has completed its lesson,
\* unless an enrollment was cancelled while that was written; and, one request at
\* a time, the progress shown counts exactly the lessons completed.
AttendanceCounts ==
  \A s \in Students :
    /\ Alone \/ "leave" \notin mix.ops =>
         {l \in Lessons : attendance[s][l].status = "attended"} \subseteq done[s]
    /\ Alone => progress[s] = Cardinality(done[s])

\* attempts.py: an attempt is graded on all the answers it ends with, against the
\* pass mark the grading read, and none is given after the grade.  (The answers of an
\* attempt begun while its questions were being replaced go with the questions.)
GradedByItsAnswers ==
  \A a \in Attempts :
    LET row == attempt[a] IN
    row.status = "finished" /\ row.swaps = 0 =>
      row.correct = Cardinality(row.right) /\ row.passed = (Percent(row.right) >= row.mark)

\* The attempts a student had at the quiz when this one was started, itself included,
\* of those still standing.
UpTo(a) ==
  {b \in AttemptsOf(attempt[a].quiz) : b <= a /\ attempt[b].s = attempt[a].s}

\* One request at a time, an attempt is started only within the max_attempts of that
\* moment, and a lesson has one active quiz.  (A limit lowered later leaves the
\* attempts that were used; overlapping starts and saves get past both checks.)
QuizLimits ==
  Alone =>
    /\ \A a \in Attempts :
         attempt[a].status \in {"open", "finished"} /\ attempt[a].allowed # 0 =>
           Cardinality(UpTo(a)) <= attempt[a].allowed
    /\ Cardinality(Active) <= 1

\* issuing.py: a certificate has its own number, and its file is in S3.
CertificatesSound ==
  \A s \in Students :
    /\ cert[s].file => cert[s].number \in stored
    /\ \A t \in Students \ {s} : cert[s].number # 0 => cert[s].number # cert[t].number

\* What is on record stands.  What the teacher marked only the teacher changes: no
\* scan takes it over, however long ago the scan looked.  And, one request at a
\* time, an attempt is deleted only by a change of the quiz that was forced.
RecordsStand ==
  [][/\ \A s \in Students, l \in Lessons :
          LET was == attendance[s][l]  is == attendance'[s][l] IN
          was.status # "none" /\ was.method = "manual" => is.method = "manual"
     /\ Alone => \A a \in Attempts :
          attempt'[a].status = "deleted" =>
            attempt[a].status = "deleted" \/ \E w \in Workers : job[w].yes]_vars

\* A certificate nobody forced goes to a student who has completed every lesson,
\* though the check is long past when the number is found; one request at a time,
\* the student meets every requirement.  Once there it stays.
CertificateEarned ==
  [][\A s \in Students :
       IF cert[s].status = "none"
       THEN cert'[s].status # "none" /\ ~cert'[s].forced =>
              done[s] = Lessons /\ (Alone => IsEligible(s))
       ELSE cert'[s].status # "none" /\ cert'[s].number = cert[s].number]_vars
=============================================================================
