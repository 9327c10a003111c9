---------------------------- MODULE ClassworkProofs ----------------------------
(***************************************************************************)
(* For any numbers of students, threads, lessons, quizzes and attempts:     *)
(* lessons are completed in order, a grade counts the answers given, a      *)
(* teacher's mark stands, and a certificate is earned, numbered and kept;   *)
(* and where requests do not overlap, the progress counts the lessons done  *)
(* and no limit of a quiz is passed.                                       *)
(***************************************************************************)
EXTENDS Classwork, FiniteSetTheorems, TLAPS

-----------------------------------------------------------------------------
(* The inductive invariant.                                                *)

Jobs == [op: AllOps, step: Steps, s: Students \cup {None}, i: Nat, k: Nat, n: Nat,
         yes: BOOLEAN, adds: BOOLEAN, seen: SUBSET Questions, cols: SUBSET Columns,
         rows: SUBSET Attempts]

StudySteps == {"flush", "commit"}
QuizSteps == {"quiz", "replace", "swap", "drop", "start", "answer", "finish"}
CertSteps == {"number", "insert", "upload", "stamp"}
Holds(j) == j.step \in {"answer", "finish"}

\* What a request works on.
Named(j) ==
  /\ j.step \in StudySteps =>
       /\ j.s \in Students /\ j.i \in Lessons /\ j.n \in 0..NumLessons
       /\ j.op \in {"scan", "mark", "complete", "note"}
  /\ j.step = "quiz" => j.i \in Quizzes \cup {0} /\ j.n \in 0..100
  /\ j.step \in {"replace", "swap", "drop", "start"} => j.i \in Quizzes
  /\ j.step = "finish" => j.n \in 0..100
  /\ Holds(j) => j.i \in Attempts
  /\ j.step = "answer" => j.k \in Questions
  /\ j.step = "start" => j.s \in Students
  /\ j.step \in CertSteps => j.s \in Students

Shape == TypeOK /\ job \in [Workers -> Jobs] /\ \A w \in Workers : Named(job[w])

\* A lesson that is completed, or about to be, comes after the ones before it or
\* its class day has come.
Due(s, l) ==
  \/ \A k \in 1..(l - 1) : k \in done[s]
  \/ class[l] # None /\ class[l] <= today

Stayed == Alone \/ "leave" \notin mix.ops

Studies(j) ==
  j.step \in StudySteps =>
    /\ Due(j.s, j.i)
    /\ j.op # "mark" => j.yes
    /\ j.step = "flush" /\ j.op = "scan" => j.k = 1
    /\ j.step = "commit" /\ ~CheckIn(j) => j.adds
    /\ Stayed /\ j.step = "flush" /\ CheckIn(j) => j.s \in enrolled
    /\ Stayed /\ j.step = "commit" /\ CheckIn(j) /\ j.yes => j.adds

\* A scan about to commit commits the first record of its class.
Same(j, h) == j.s = h.s /\ j.i = h.i
ScansFirst(w) ==
  At(w, "commit") /\ job[w].op = "scan" =>
    /\ attendance[job[w].s][job[w].i].status = "none"
    /\ \A v \in Workers \ {w} : At(v, "commit") /\ CheckIn(job[v]) => ~Same(job[v], job[w])

AttendedIsDone ==
  Stayed => \A s \in Students, l \in Lessons : attendance[s][l].status = "attended" => l \in done[s]

StudyOK ==
  /\ \A l \in Lessons : qr[l] # "none" => class[l] # None /\ class[l] <= today
  /\ \A s \in Students : note[s] \subseteq done[s] /\ \A l \in done[s] : Due(s, l)
  /\ \A w \in Workers : Studies(job[w]) /\ ScansFirst(w)
  /\ AttendedIsDone

\* An attempt being answered or graded is open, held by one request and not about to
\* be deleted, and graded on what it has, unless its questions were replaced.
Sits(w) ==
  Holds(job[w]) =>
    /\ attempt[job[w].i].status = "open"
    /\ \A v \in Workers \ {w} : Holds(job[v]) => job[v].i # job[w].i
    /\ ~Wiped(job[w].i)
    /\ At(w, "finish") /\ attempt[job[w].i].swaps = 0 => job[w].seen = attempt[job[w].i].right

\* Attempts are kept in the order they were started in.
InOrder ==
  \A a, b \in Attempts : a < b /\ attempt[b].status # "absent" => attempt[a].status # "absent"

\* What a replacement has deleted was there.
RowsThere(w) == At(w, "swap") => \A a \in job[w].rows : attempt[a].status # "absent"

ExamsOK ==
  GradedByItsAnswers /\ InOrder /\ \A w \in Workers : Sits(w) /\ RowsThere(w)

\* The numbers given are the first ones, each to one certificate.
Issued == {s \in Students : cert[s].status # "none"}

CertOK(s) ==
  /\ cert[s].status = "none" => cert[s].number = 0 /\ ~cert[s].file
  /\ cert[s].status # "none" => cert[s].number \in 1..Cardinality(Issued)
  /\ cert[s].file => cert[s].number \in stored
  /\ \A t \in Students \ {s} : cert[s].number # 0 => cert[s].number # cert[t].number

AllGiven == \A n \in 1..Cardinality(Issued) : \E s \in Issued : cert[s].number = n

Certifies(j) ==
  /\ j.step = "insert" => j.n \in 1..(Cardinality(Issued) + 1)
  /\ j.step \in {"upload", "stamp"} => cert[j.s].status # "none" /\ cert[j.s].number = j.n
  /\ j.step = "stamp" => j.n \in stored
  /\ j.step \in {"number", "insert"} /\ ~j.yes => done[j.s] = Lessons

CertsOK == AllGiven /\ (\A s \in Students : CertOK(s)) /\ \A w \in Workers : Certifies(job[w])

\* One request at a time, what it has read still holds ...
OneBusy == \A v, w \in Workers : ~At(v, "idle") /\ ~At(w, "idle") => v = w

StillTrue(j) ==
  /\ j.step = "flush" => j.n = progress[j.s]
  /\ j.step = "commit" =>
       /\ j.adds => j.n = Counted(j.s, j.i)
       /\ j.k = 1 <=> j.adds /\ j.n # progress[j.s]
  /\ j.step = "quiz" /\ j.yes => ~Clashes(j.i)
  /\ j.step \in {"replace", "drop"} => MayChange(j.i, j.yes)
  /\ j.step = "swap" => j.rows = {} \/ j.yes
  /\ j.step = "start" =>
       OpenOf(j.s, j.i) = {} /\ AttemptsLeft(j.s, j.i) /\ j.k = quiz[j.i].limit
  /\ j.step \in {"number", "insert"} /\ ~j.yes => IsEligible(j.s)

\* ... and no limit is passed.
ProgressCounts == \A s \in Students : progress[s] = Cardinality(done[s])
OneActive == \A p, q \in Active : p = q
Used(a) == attempt[a].status \in {"open", "finished"}
FewAttempts ==
  \A a \in Attempts :
    Used(a) /\ attempt[a].allowed # 0 => Cardinality(UpTo(a)) <= attempt[a].allowed

AloneOK ==
  Alone => OneBusy /\ (\A w \in Workers : StillTrue(job[w])) /\ ProgressCounts /\ OneActive /\ FewAttempts

IInv == Shape /\ StudyOK /\ ExamsOK /\ CertsOK /\ AloneOK

-----------------------------------------------------------------------------
(* Who takes a step, and what it leaves alone.                             *)

Calendar == NextDay \/ \E l \in Lessons : IssueQr(l) \/ ExpireQr(l)

Around(s) == Leave(s) \/ Pay(s) \/ Archive(s)

StudyBegins(w) ==
  \E s \in Students, l \in Lessons :
    \/ BeginScan(w, s, l)
    \/ \E attended \in BOOLEAN : BeginMark(w, s, l, attended)
    \/ \E op \in {"complete", "note"} : BeginLesson(w, s, l, op)

QuizBegins(w) ==
  \/ \E q \in Quizzes \cup {0}, active \in BOOLEAN, limit \in Nat, mark \in 0..100 :
       BeginQuiz(w, q, active, limit, mark)
  \/ \E q \in Quizzes, op \in {"replace", "drop"}, force \in BOOLEAN : BeginChange(w, q, op, force)
  \/ \E q \in Quizzes, s \in Students : BeginAttempt(w, s, q)
  \/ \E a \in Attempts, k \in Questions, right \in BOOLEAN : BeginAnswer(w, a, k, right)
  \/ \E a \in Attempts : BeginFinish(w, a)

CertBegins(w) ==
  \E s \in Students : (\E op \in {"issue", "force"} : BeginIssue(w, s, op)) \/ BeginRender(w, s)

StudyStep(w) == Flush(w) \/ Commit(w)
QuizStep(w) ==
  SaveQuiz(w) \/ Swap(w) \/ Drop(w) \/ StartAttempt(w) \/ Answer(w) \/ FinishAttempt(w)
CertStep(w) == NextNumber(w) \/ InsertCert(w) \/ Upload(w) \/ Stamp(w)
Ends(w) == Fail(w) \/ Crash(w)

Begins(w) == StudyBegins(w) \/ QuizBegins(w) \/ CertBegins(w)
Acts(w) == StudyStep(w) \/ Wipe(w) \/ QuizStep(w) \/ CertStep(w) \/ Ends(w)

\* What a behaviour consists of is within the bounds.
LEMMA MixBounds ==
  ASSUME mix \in Mixes
  PROVE  /\ mix.ops \subseteq AllOps /\ mix.students \subseteq Students
         /\ mix.classes \subseteq [Lessons -> Days \cup {None}] /\ mix.days \in Days
         /\ mix.limits \subseteq Nat /\ mix.marks \subseteq 0..100
BY ClassworkAssumption DEF Lessons, Days

\* What lessons, quizzes, attempts and questions are counted with.
LEMMA Naturals ==
  /\ Lessons \subseteq Nat /\ Quizzes \subseteq Nat /\ Attempts \subseteq Nat /\ Questions \subseteq Nat
  /\ None \notin Lessons \cup Nat
BY ClassworkAssumption DEF Lessons, Quizzes, Attempts, Questions

\* Every step is one of the calendar, of the world around, or of one thread.
LEMMA Kinds ==
  ASSUME Shape, [Next]_vars
  PROVE  \/ UNCHANGED vars
         \/ Calendar
         \/ \E s \in Students : Around(s)
         \/ \E w \in Workers : Begins(w) \/ Acts(w)
<1>0. mix.limits \subseteq Nat /\ mix.marks \subseteq 0..100
  BY MixBounds DEF Shape, TypeOK
<1>1. mix.students \subseteq Students
  BY MixBounds DEF Shape, TypeOK
<1>2. ASSUME NEW w \in Workers, NEW s \in mix.students, NEW l \in Lessons,
             \/ BeginScan(w, s, l)
             \/ \E attended \in BOOLEAN : BeginMark(w, s, l, attended)
             \/ \E op \in {"complete", "note"} : BeginLesson(w, s, l, op)
      PROVE  Begins(w)
  BY <1>1, <1>2 DEF Begins, StudyBegins
<1>3. ASSUME NEW w \in Workers, NEW q \in Quizzes,
             \/ \E op \in {"replace", "drop"}, force \in BOOLEAN : BeginChange(w, q, op, force)
             \/ \E s \in mix.students : BeginAttempt(w, s, q)
      PROVE  Begins(w)
  BY <1>1, <1>3 DEF Begins, QuizBegins
<1>4. ASSUME NEW w \in Workers, NEW s \in mix.students,
             (\E op \in {"issue", "force"} : BeginIssue(w, s, op)) \/ BeginRender(w, s)
      PROVE  Begins(w)
  BY <1>1, <1>4 DEF Begins, CertBegins
<1>5. ASSUME NEW w \in Workers,
             \/ \E q \in Quizzes \cup {0}, active \in BOOLEAN, limit \in mix.limits, mark \in mix.marks :
                  BeginQuiz(w, q, active, limit, mark)
             \/ \E a \in Attempts : \/ \E k \in Questions, right \in BOOLEAN : BeginAnswer(w, a, k, right)
                                    \/ BeginFinish(w, a)
      PROVE  Begins(w)
  BY <1>0, <1>5 DEF Begins, QuizBegins
<1>6. ASSUME NEW s \in mix.students, Leave(s) \/ Pay(s) \/ Archive(s)
      PROVE  \E t \in Students : Around(t)
  BY <1>1, <1>6 DEF Around
<1>7. CASE Next
  BY <1>2, <1>3, <1>4, <1>5, <1>6, <1>7
     DEF Next, Calendar, Acts, StudyStep, QuizStep, CertStep, Ends
<1> QED
  BY <1>7

\* A thread takes up a job; the others keep theirs.
LEMMA Becomes ==
  ASSUME Shape, NEW w \in Workers, NEW j, Become(w, j)
  PROVE  /\ job'[w] = j /\ \A v \in Workers \ {w} : job'[v] = job[v]
         /\ j \in Jobs => job' \in [Workers -> Jobs]
BY DEF Shape, Become

\* A thread with no request works on nothing.
LEMMA IdleJob == Idle \in Jobs /\ Named(Idle) /\ Idle.step = "idle"
BY DEF Idle, Jobs, AllOps, Steps, Named, Holds, StudySteps, QuizSteps, CertSteps

\* A request begins as it was started.
LEMMA Started ==
  ASSUME Shape, NEW w \in Workers, NEW op \in AllOps, NEW j \in Jobs, Start(w, op, j)
  PROVE  /\ job'[w] \in Jobs /\ job' \in [Workers -> Jobs]
         /\ \A v \in Workers \ {w} : job'[v] = job[v]
         /\ job'[w].op = op /\ job'[w].step = j.step /\ job'[w].s = j.s /\ job'[w].i = j.i
         /\ job'[w].k = j.k /\ job'[w].n = j.n /\ job'[w].yes = j.yes /\ job'[w].adds = j.adds
         /\ job'[w].seen = j.seen /\ job'[w].cols = j.cols /\ job'[w].rows = j.rows
         /\ At(w, "idle") /\ op \in mix.ops
         /\ Alone => \A v \in Workers : At(v, "idle")
<1> DEFINE h == [j EXCEPT !.op = op]
<1>1. /\ h \in Jobs
      /\ h.op = op /\ h.step = j.step /\ h.s = j.s /\ h.i = j.i /\ h.k = j.k /\ h.n = j.n
      /\ h.yes = j.yes /\ h.adds = j.adds /\ h.seen = j.seen /\ h.cols = j.cols /\ h.rows = j.rows
  BY DEF Jobs
<1>2. Become(w, h)
  BY DEF Start
<1> HIDE DEF h
<1>3. job'[w] = h /\ job' \in [Workers -> Jobs] /\ \A v \in Workers \ {w} : job'[v] = job[v]
  BY <1>1, <1>2, Becomes
<1> QED
  BY <1>1, <1>3 DEF Start, Admitted

-----------------------------------------------------------------------------
(* How each request begins.                                                *)

\* A scan begins with a record to insert.
LEMMA ScanBegins ==
  ASSUME Shape, NEW w \in Workers, NEW s \in Students, NEW l \in Lessons, BeginScan(w, s, l)
  PROVE  LET j == job'[w] IN
         /\ j.op = "scan" /\ j.step = "flush" /\ j.s = s /\ j.i = l /\ j.k = 1 /\ j.n = progress[s] /\ j.yes
         /\ j \in Jobs /\ job' \in [Workers -> Jobs] /\ \A v \in Workers \ {w} : job'[v] = job[v]
         /\ At(w, "idle") /\ (Alone => \A v \in Workers : At(v, "idle"))
<1> DEFINE h == [Idle EXCEPT !.step = "flush", !.s = s, !.i = l, !.k = 1, !.n = progress[s], !.yes = TRUE]
<1>0. progress[s] \in Nat
  BY ClassworkAssumption DEF Shape, TypeOK
<1>1. /\ h \in Jobs
      /\ h.step = "flush" /\ h.s = s /\ h.i = l /\ h.k = 1 /\ h.n = progress[s] /\ h.yes = TRUE
  BY <1>0, Naturals DEF Idle, Jobs, Steps, AllOps
<1>2. Start(w, "scan", h)
  BY DEF BeginScan
<1> HIDE DEF h
<1> QED
  BY <1>1, <1>2, Started DEF AllOps

\* A teacher's mark.
LEMMA MarkBegins ==
  ASSUME Shape, NEW w \in Workers, NEW s \in Students, NEW l \in Lessons, NEW attended \in BOOLEAN,
         BeginMark(w, s, l, attended)
  PROVE  LET j == job'[w] IN
         /\ j.op = "mark" /\ j.step = "flush" /\ j.s = s /\ j.i = l /\ j.n = progress[s]
         /\ j \in Jobs /\ job' \in [Workers -> Jobs] /\ \A v \in Workers \ {w} : job'[v] = job[v]
         /\ At(w, "idle") /\ (Alone => \A v \in Workers : At(v, "idle"))
<1> DEFINE k == IF attendance[s][l].status = "none" THEN 1 ELSE 0
           h == [Idle EXCEPT !.step = "flush", !.s = s, !.i = l, !.n = progress[s], !.yes = attended, !.k = k]
<1>1. k \in Nat /\ progress[s] \in Nat
  BY ClassworkAssumption DEF Shape, TypeOK
<1>2. Start(w, "mark", h)
  BY DEF BeginMark
<1> HIDE DEF k
<1>3. /\ h \in Jobs
      /\ h.step = "flush" /\ h.s = s /\ h.i = l /\ h.n = progress[s]
  BY <1>1, Naturals DEF Idle, Jobs, Steps, AllOps
<1> HIDE DEF h
<1> QED
  BY <1>2, <1>3, Started DEF AllOps

\* A completion or a note, of a lesson that is open to the student.
LEMMA LessonBegins ==
  ASSUME Shape, NEW w \in Workers, NEW s \in Students, NEW l \in Lessons,
         \E op \in {"complete", "note"} : BeginLesson(w, s, l, op)
  PROVE  LET j == job'[w] IN
         /\ j.op \in {"complete", "note"}
         /\ j.step = "flush" /\ j.s = s /\ j.i = l /\ j.n = progress[s] /\ j.yes
         /\ j \in Jobs /\ job' \in [Workers -> Jobs] /\ \A v \in Workers \ {w} : job'[v] = job[v]
         /\ At(w, "idle") /\ (Alone => \A v \in Workers : At(v, "idle"))
         /\ s \in enrolled /\ Open(l) /\ ~Gated(s, l)
<1> DEFINE h == [Idle EXCEPT !.step = "flush", !.s = s, !.i = l, !.n = progress[s], !.yes = TRUE]
<1>1. progress[s] \in Nat
  BY ClassworkAssumption DEF Shape, TypeOK
<1>2. /\ h \in Jobs
      /\ h.step = "flush" /\ h.s = s /\ h.i = l /\ h.n = progress[s] /\ h.yes = TRUE
  BY <1>1, Naturals DEF Idle, Jobs, Steps, AllOps
<1>3. PICK op \in {"complete", "note"} : Start(w, op, h)
  BY DEF BeginLesson
<1>4. s \in enrolled /\ Open(l) /\ ~Gated(s, l)
  BY DEF BeginLesson
<1> HIDE DEF h
<1>5. op \in AllOps
  BY <1>3 DEF AllOps
<1> QED
  BY <1>2, <1>3, <1>4, <1>5, Started

\* A quiz to be made or saved.
LEMMA QuizSaveBegins ==
  ASSUME Shape, NEW w \in Workers, NEW q \in Quizzes \cup {0}, NEW active \in BOOLEAN,
         NEW limit \in Nat, NEW mark \in 0..100, BeginQuiz(w, q, active, limit, mark)
  PROVE  LET j == job'[w] IN
         /\ j.step = "quiz" /\ j.i = q /\ j.yes = active /\ j.n = mark
         /\ j \in Jobs /\ job' \in [Workers -> Jobs] /\ \A v \in Workers \ {w} : job'[v] = job[v]
         /\ At(w, "idle") /\ (Alone => \A v \in Workers : At(v, "idle"))
<1> DEFINE cols == {c \in Columns :
             q # 0 => \/ c = "status" /\ active # (quiz[q].status = "active")
                      \/ c = "limit" /\ limit # quiz[q].limit
                      \/ c = "mark" /\ mark # quiz[q].mark}
           h == [Idle EXCEPT !.step = "quiz", !.i = q, !.yes = active, !.k = limit, !.n = mark, !.cols = cols]
<1>0. q \in Nat /\ mark \in Nat
  BY Naturals
<1>1. cols \subseteq Columns /\ ("status" \notin cols => (q # 0 /\ (active <=> quiz[q].status = "active")))
  BY DEF Columns
<1>2. Start(w, "quiz", h)
  BY DEF BeginQuiz
<1> HIDE DEF cols
<1>3. h \in Jobs /\ h.step = "quiz" /\ h.i = q /\ h.yes = active /\ h.n = mark /\ h.cols = cols
  BY <1>0, <1>1 DEF Idle, Jobs, Steps, AllOps
<1> HIDE DEF h
<1> QED
  BY <1>1, <1>2, <1>3, Started DEF AllOps

\* A change of the questions, or the deletion, of a quiz.
LEMMA ChangeBegins ==
  ASSUME Shape, NEW w \in Workers, NEW q \in Quizzes, NEW op \in {"replace", "drop"}, NEW force \in BOOLEAN,
         BeginChange(w, q, op, force)
  PROVE  LET j == job'[w] IN
         /\ j.step = op /\ j.i = q /\ j.yes = force
         /\ j \in Jobs /\ job' \in [Workers -> Jobs] /\ \A v \in Workers \ {w} : job'[v] = job[v]
         /\ At(w, "idle") /\ (Alone => \A v \in Workers : At(v, "idle"))
<1> DEFINE h == [Idle EXCEPT !.step = op, !.i = q, !.yes = force]
<1>1. h \in Jobs /\ h.step = op /\ h.i = q /\ h.yes = force
  BY Naturals DEF Idle, Jobs, Steps, AllOps
<1>2. Start(w, op, h)
  BY DEF BeginChange
<1> HIDE DEF h
<1> QED
  BY <1>1, <1>2, Started DEF AllOps

\* An attempt to be started.
LEMMA AttemptBegins ==
  ASSUME Shape, NEW w \in Workers, NEW q \in Quizzes, NEW s \in Students, BeginAttempt(w, s, q)
  PROVE  LET j == job'[w] IN
         /\ j.step = "start" /\ j.s = s /\ j.i = q /\ j.k = quiz[q].limit
         /\ j \in Jobs /\ job' \in [Workers -> Jobs] /\ \A v \in Workers \ {w} : job'[v] = job[v]
         /\ At(w, "idle") /\ (Alone => \A v \in Workers : At(v, "idle"))
<1> DEFINE h == [Idle EXCEPT !.step = "start", !.s = s, !.i = q, !.k = quiz[q].limit]
<1>0. quiz[q].limit \in Nat
  BY DEF Shape, TypeOK, QuizRows
<1>1. h \in Jobs /\ h.step = "start" /\ h.s = s /\ h.i = q /\ h.k = quiz[q].limit
  BY <1>0, Naturals DEF Idle, Jobs, Steps, AllOps
<1>2. Start(w, "start", h)
  BY DEF BeginAttempt
<1> HIDE DEF h
<1> QED
  BY <1>1, <1>2, Started DEF AllOps

\* An answer takes its attempt.
LEMMA AnswerBegins ==
  ASSUME Shape, NEW w \in Workers, NEW a \in Attempts, NEW k \in Questions, NEW right \in BOOLEAN,
         BeginAnswer(w, a, k, right)
  PROVE  LET j == job'[w] IN
         /\ j.step = "answer" /\ j.i = a /\ j.k = k
         /\ j \in Jobs /\ job' \in [Workers -> Jobs] /\ \A v \in Workers \ {w} : job'[v] = job[v]
         /\ At(w, "idle") /\ (Alone => \A v \in Workers : At(v, "idle"))
<1> DEFINE h == [Idle EXCEPT !.step = "answer", !.i = a, !.k = k, !.n = attempt[a].swaps, !.yes = right]
<1>1. k \in Nat /\ attempt[a].swaps \in Nat
  BY Naturals DEF Shape, TypeOK, AttemptRows
<1>2. h \in Jobs /\ h.step = "answer" /\ h.i = a /\ h.k = k
  BY <1>1, Naturals DEF Idle, Jobs, Steps, AllOps
<1>3. Start(w, "answer", h)
  BY DEF BeginAnswer
<1> HIDE DEF h
<1> QED
  BY <1>2, <1>3, Started DEF AllOps

\* So does a finish, with the answers it has read.
LEMMA FinishBegins ==
  ASSUME Shape, NEW w \in Workers, NEW a \in Attempts, BeginFinish(w, a)
  PROVE  LET j == job'[w] IN
         /\ j.step = "finish" /\ j.i = a /\ j.seen = attempt[a].right /\ j.n \in 0..100
         /\ j \in Jobs /\ job' \in [Workers -> Jobs] /\ \A v \in Workers \ {w} : job'[v] = job[v]
         /\ At(w, "idle") /\ (Alone => \A v \in Workers : At(v, "idle"))
<1> DEFINE mark == quiz[attempt[a].quiz].mark
           h == [Idle EXCEPT !.step = "finish", !.i = a, !.n = mark, !.seen = attempt[a].right]
<1>1. attempt[a].right \subseteq Questions /\ mark \in 0..100 /\ mark \in Nat
  BY DEF Shape, TypeOK, AttemptRows, QuizRows
<1>3. Start(w, "finish", h)
  BY DEF BeginFinish
<1> HIDE DEF mark
<1>2. h \in Jobs /\ h.step = "finish" /\ h.i = a /\ h.seen = attempt[a].right /\ h.n = mark
  BY <1>1, Naturals DEF Idle, Jobs, Steps, AllOps
<1> HIDE DEF h
<1> QED
  BY <1>1, <1>2, <1>3, Started DEF AllOps

\* A certificate to be issued.
LEMMA IssueBegins ==
  ASSUME Shape, NEW w \in Workers, NEW s \in Students, NEW op \in {"issue", "force"}, BeginIssue(w, s, op)
  PROVE  LET j == job'[w] IN
         /\ j.step = "number" /\ j.s = s /\ (j.yes <=> op = "force")
         /\ j \in Jobs /\ job' \in [Workers -> Jobs] /\ \A v \in Workers \ {w} : job'[v] = job[v]
         /\ At(w, "idle") /\ (Alone => \A v \in Workers : At(v, "idle"))
<1> DEFINE f == op = "force"
           h == [Idle EXCEPT !.step = "number", !.s = s, !.yes = f]
<1>1. f \in BOOLEAN
  OBVIOUS
<1>2. Start(w, op, h)
  BY DEF BeginIssue
<1>3. f <=> op = "force"
  OBVIOUS
<1> HIDE DEF f
<1>4. h \in Jobs /\ h.step = "number" /\ h.s = s /\ h.yes = f
  BY <1>1 DEF Idle, Jobs, Steps, AllOps
<1> HIDE DEF h
<1>5. job'[w].step = "number" /\ job'[w].s = s /\ job'[w].yes = f
  BY <1>2, <1>4, Started DEF AllOps
<1> QED
  BY <1>2, <1>3, <1>4, <1>5, Started DEF AllOps

\* A certificate to be rendered.
LEMMA RenderBegins ==
  ASSUME Shape, NEW w \in Workers, NEW s \in Students, BeginRender(w, s)
  PROVE  LET j == job'[w] IN
         /\ j.step = "upload" /\ j.s = s /\ j.n = cert[s].number
         /\ j \in Jobs /\ job' \in [Workers -> Jobs] /\ \A v \in Workers \ {w} : job'[v] = job[v]
         /\ At(w, "idle") /\ (Alone => \A v \in Workers : At(v, "idle"))
<1> DEFINE h == [Idle EXCEPT !.step = "upload", !.s = s, !.n = cert[s].number]
<1>1. cert[s].number \in Nat
  BY DEF Shape, TypeOK, CertRows, Numbers
<1>2. h \in Jobs /\ h.step = "upload" /\ h.s = s /\ h.n = cert[s].number
  BY <1>1 DEF Idle, Jobs, Steps, AllOps
<1>3. Start(w, "render", h)
  BY DEF BeginRender
<1> HIDE DEF h
<1> QED
  BY <1>2, <1>3, Started DEF AllOps

-----------------------------------------------------------------------------
(* What each kind of step changes.                                         *)

\* Who finishes is idle, and the others keep their jobs.
LEMMA Finishes ==
  ASSUME Shape, NEW w \in Workers, Finish(w)
  PROVE  /\ job'[w] = Idle /\ job'[w].step = "idle" /\ job' \in [Workers -> Jobs] /\ Named(job'[w])
         /\ \A v \in Workers \ {w} : job'[v] = job[v]
BY Becomes, IdleJob DEF Finish

\* A request that begins leaves every table as it is.
LEMMA BeginsFrame ==
  ASSUME NEW w \in Workers, Begins(w)
  PROVE  UNCHANGED <<calendar, study, exams, awards>>
BY DEF Begins, StudyBegins, QuizBegins, CertBegins, BeginScan, BeginMark, BeginLesson, BeginQuiz,
       BeginChange, BeginAttempt, BeginAnswer, BeginFinish, BeginIssue, BeginRender

\* A thread takes up a request.
Turn(w) ==
  /\ At(w, "idle") /\ (Alone => \A v \in Workers : At(v, "idle"))
  /\ job' \in [Workers -> Jobs]
  /\ \A v \in Workers \ {w} : job'[v] = job[v]

\* Who begins was idle, as was everyone where requests come one at a time.
LEMMA StudyBeginsTurn ==
  ASSUME Shape, NEW w \in Workers, StudyBegins(w)
  PROVE  /\ At(w, "idle") /\ (Alone => \A v \in Workers : At(v, "idle"))
         /\ job' \in [Workers -> Jobs]
         /\ \A v \in Workers \ {w} : job'[v] = job[v]
         /\ job'[w].step = "flush"
<1>1. PICK s \in Students, l \in Lessons :
        \/ BeginScan(w, s, l)
        \/ \E attended \in BOOLEAN : BeginMark(w, s, l, attended)
        \/ \E op \in {"complete", "note"} : BeginLesson(w, s, l, op)
  BY DEF StudyBegins
<1>2. CASE BeginScan(w, s, l)
  BY <1>2, ScanBegins
<1>3. CASE \E attended \in BOOLEAN : BeginMark(w, s, l, attended)
  BY <1>3, MarkBegins
<1>4. CASE \E op \in {"complete", "note"} : BeginLesson(w, s, l, op)
  BY <1>4, LessonBegins
<1> QED
  BY <1>1, <1>2, <1>3, <1>4

\* The same of a request on a quiz ...
LEMMA QuizBeginsTurn ==
  ASSUME Shape, NEW w \in Workers, QuizBegins(w)
  PROVE  /\ At(w, "idle") /\ (Alone => \A v \in Workers : At(v, "idle"))
         /\ job' \in [Workers -> Jobs]
         /\ \A v \in Workers \ {w} : job'[v] = job[v]
         /\ job'[w].step \in QuizSteps
<1> USE DEF QuizSteps
<1>1. ASSUME NEW q \in Quizzes \cup {0}, NEW active \in BOOLEAN, NEW limit \in Nat, NEW mark \in 0..100,
             BeginQuiz(w, q, active, limit, mark)
      PROVE  Turn(w) /\ job'[w].step \in QuizSteps
  BY <1>1, QuizSaveBegins DEF Turn
<1>2. CASE \E q \in Quizzes, op \in {"replace", "drop"}, force \in BOOLEAN : BeginChange(w, q, op, force)
  BY <1>2, ChangeBegins DEF Turn
<1>3. CASE \E q \in Quizzes, s \in Students : BeginAttempt(w, s, q)
  BY <1>3, AttemptBegins DEF Turn
<1>4. CASE \E a \in Attempts, k \in Questions, right \in BOOLEAN : BeginAnswer(w, a, k, right)
  BY <1>4, AnswerBegins DEF Turn
<1>5. CASE \E a \in Attempts : BeginFinish(w, a)
  BY <1>5, FinishBegins DEF Turn
<1> QED
  BY <1>1, <1>2, <1>3, <1>4, <1>5 DEF QuizBegins, Turn

\* ... and on a certificate.
LEMMA CertBeginsTurn ==
  ASSUME Shape, NEW w \in Workers, CertBegins(w)
  PROVE  /\ At(w, "idle") /\ (Alone => \A v \in Workers : At(v, "idle"))
         /\ job' \in [Workers -> Jobs]
         /\ \A v \in Workers \ {w} : job'[v] = job[v]
         /\ job'[w].step \in {"number", "upload"}
BY IssueBegins, RenderBegins DEF CertBegins

\* A flush that is not refused goes on to the commit with what it has counted.
LEMMA FlushMoves ==
  ASSUME Shape, NEW w \in Workers, Flush(w)
  PROVE  LET j == job[w]  h == job'[w] IN
         /\ At(w, "flush") /\ ~Blocked(w)
         /\ UNCHANGED <<calendar, study, exams, awards>>
         /\ \A v \in Workers \ {w} : job'[v] = job[v]
         /\ job' \in [Workers -> Jobs]
         /\ \/ h = Idle
            \/ /\ ~Refused(j)
               /\ h.step = "commit" /\ h.op = j.op /\ h.s = j.s /\ h.i = j.i /\ h.yes = j.yes
               /\ h.n = Counted(j.s, j.i) /\ h.n \in 0..NumLessons
               /\ h.adds <=> Completes(j)
               /\ h.k = 1 <=> Completes(j) /\ h.n # j.n
<1> DEFINE j == job[w]
           n == Counted(j.s, j.i)
           c == Completes(j)
           k == IF c /\ n # j.n THEN 1 ELSE 0
           h == [j EXCEPT !.step = "commit", !.n = n, !.adds = c, !.k = k]
<1>1. At(w, "flush") /\ ~Blocked(w) /\ UNCHANGED <<calendar, study, exams, awards>>
  BY DEF Flush
<1>2. IF Refused(j) THEN Finish(w) ELSE Become(w, h)
  BY DEF Flush
<1>3. j \in Jobs /\ j.s \in Students /\ j.i \in Lessons
  BY <1>1 DEF Shape, Named, StudySteps, At
<1>4. n \in 0..NumLessons
  <2>1. IsFiniteSet(Lessons) /\ Cardinality(Lessons) = NumLessons
    <3>1. NumLessons \in Int /\ 1 \in Int /\ NumLessons >= 1
      BY ClassworkAssumption
    <3> QED
      BY <3>1, FS_Interval DEF Lessons
  <2>2. done[j.s] \cup {j.i} \subseteq Lessons
    BY <1>3 DEF Shape, TypeOK
  <2>3. Cardinality(done[j.s] \cup {j.i}) \in Nat /\ Cardinality(done[j.s] \cup {j.i}) <= NumLessons
    BY <2>1, <2>2, FS_Subset, FS_CardinalityType
  <2> QED
    BY <2>3, ClassworkAssumption DEF Counted
<1>5. c \in BOOLEAN /\ (c <=> Completes(j))
  BY <1>3 DEF Completes, Jobs
<1>6. k \in Nat /\ (k = 1 <=> c /\ n # j.n)
  BY <1>5
<1>7. n \in Nat
  BY <1>4
<1> HIDE DEF j, n, c, k
<1>8. /\ h \in Jobs
      /\ h.step = "commit" /\ h.op = j.op /\ h.s = j.s /\ h.i = j.i /\ h.yes = j.yes
      /\ h.n = n /\ h.k = k
  BY <1>3, <1>5, <1>6, <1>7 DEF Jobs, Steps
<1>9. h.adds = c
  BY <1>3 DEF Jobs
<1> HIDE DEF h
<1>10. CASE Refused(j)
  BY <1>1, <1>2, <1>10, Finishes
<1>11. CASE ~Refused(j)
  <2>1. job'[w] = h /\ job' \in [Workers -> Jobs] /\ \A v \in Workers \ {w} : job'[v] = job[v]
    BY <1>2, <1>8, <1>11, Becomes
  <2> QED
    BY <1>1, <1>4, <1>5, <1>6, <1>8, <1>9, <1>11, <2>1 DEF j, n
<1> QED
  BY <1>10, <1>11

\* A commit ends the request.
LEMMA CommitMoves ==
  ASSUME Shape, NEW w \in Workers, Commit(w)
  PROVE  LET j == job[w] IN
         /\ At(w, "commit") /\ j \in Jobs /\ Named(j) /\ j.s \in Students /\ j.i \in Lessons
         /\ UNCHANGED <<calendar, enrolled, exams, awards>>
         /\ job'[w] = Idle /\ \A v \in Workers \ {w} : job'[v] = job[v]
         /\ job' \in [Workers -> Jobs]
BY Finishes DEF Commit, Shape, Named, StudySteps, At

\* Quizzes, certificates and lessons do not touch one another.
LEMMA QuizFrame ==
  ASSUME Shape, NEW w \in Workers, QuizStep(w)
  PROVE  /\ UNCHANGED <<calendar, study, awards>>
         /\ job'[w] = Idle /\ job' \in [Workers -> Jobs]
         /\ \A v \in Workers \ {w} : job'[v] = job[v]
         /\ job[w].step \in QuizSteps /\ job[w] \in Jobs /\ Named(job[w])
<1>1. Finish(w) /\ UNCHANGED <<calendar, study, awards>>
  BY DEF QuizStep, SaveQuiz, Swap, Drop, StartAttempt, Answer, FinishAttempt
<1>2. job[w].step \in QuizSteps
  BY DEF QuizStep, SaveQuiz, Swap, Drop, StartAttempt, Answer, FinishAttempt, QuizSteps, At
<1> QED
  BY <1>1, <1>2, Finishes DEF Shape

\* A replacement has deleted the attempts of the quiz, and goes on to its questions.
LEMMA WipeMoves ==
  ASSUME Shape, NEW w \in Workers, Wipe(w)
  PROVE  LET j == job[w]  h == job'[w] IN
         /\ At(w, "replace") /\ j.i \in Quizzes
         /\ UNCHANGED <<calendar, study, exams, awards>>
         /\ \A v \in Workers \ {w} : job'[v] = job[v]
         /\ job' \in [Workers -> Jobs]
         /\ h.step = "swap" /\ h.i = j.i /\ h.yes = j.yes /\ h.rows = AttemptsOf(j.i)
<1> DEFINE j == job[w]
           rows == AttemptsOf(j.i)
           h == [j EXCEPT !.step = "swap", !.rows = rows]
<1>1. At(w, "replace") /\ UNCHANGED <<calendar, study, exams, awards>> /\ Become(w, h)
  BY DEF Wipe
<1>2. j \in Jobs /\ j.i \in Quizzes /\ rows \subseteq Attempts
  BY <1>1 DEF Shape, Named, At, AttemptsOf
<1> HIDE DEF j, rows
<1>3. h \in Jobs /\ h.step = "swap" /\ h.i = j.i /\ h.yes = j.yes /\ h.rows = rows
  BY <1>2 DEF Jobs, Steps
<1> HIDE DEF h
<1> QED
  BY <1>1, <1>2, <1>3, Becomes DEF j, rows

\* Who fails or dies leaves every table as it is.
LEMMA EndsFrame ==
  ASSUME Shape, NEW w \in Workers, Ends(w)
  PROVE  /\ UNCHANGED <<calendar, study, exams, awards>>
         /\ job'[w] = Idle /\ job' \in [Workers -> Jobs]
         /\ \A v \in Workers \ {w} : job'[v] = job[v]
         /\ ~At(w, "idle")
BY Finishes DEF Ends, Fail, Crash, At

\* So many students are certified as numbers are given.
LEMMA IssuedFinite ==
  /\ IsFiniteSet(Issued) /\ Cardinality(Issued) \in Nat
  /\ Cardinality(Issued) <= Cardinality(Students) /\ Cardinality(Students) \in Nat
<1>1. Issued \subseteq Students
  BY DEF Issued
<1> QED
  BY <1>1, ClassworkAssumption, FS_Subset, FS_CardinalityType

\* _next_number finds the last of the numbers given.
LEMMA LastNumber ==
  ASSUME Shape, CertsOK
  PROVE  Max({cert[s].number : s \in Students} \cup {0}) = Cardinality(Issued)
<1> DEFINE S == {cert[s].number : s \in Students} \cup {0}
           c == Cardinality(Issued)
<1>1. c \in Nat
  BY IssuedFinite
<1>2. \A n \in S : n \in 0..c
  <2>1. ASSUME NEW s \in Students PROVE cert[s].number \in 0..c
    BY <1>1 DEF CertsOK, CertOK
  <2> QED
    BY <1>1, <2>1
<1>3. c \in S
  <2>1. CASE c = 0
    BY <2>1
  <2>2. CASE c # 0
    <3>1. c \in 1..c
      BY <1>1, <2>2
    <3>2. PICK s \in Issued : cert[s].number = c
      BY <3>1 DEF CertsOK, AllGiven
    <3> QED
      BY <3>2 DEF Issued
  <2> QED
    BY <2>1, <2>2
<1> HIDE DEF S, c
<1>4. \A x \in S : (\A y \in S : x >= y) <=> x = c
  BY <1>1, <1>2, <1>3
<1>5. Max(S) = c
  BY <1>3, <1>4 DEF Max
<1> QED
  BY <1>5 DEF S, c

\* The number found is the one after the last.
LEMMA NumberMoves ==
  ASSUME Shape, CertsOK, NEW w \in Workers, NextNumber(w)
  PROVE  LET j == job[w]  h == job'[w] IN
         /\ At(w, "number") /\ j.s \in Students
         /\ UNCHANGED <<calendar, study, exams, awards>>
         /\ \A v \in Workers \ {w} : job'[v] = job[v]
         /\ job' \in [Workers -> Jobs]
         /\ h.step = "insert" /\ h.s = j.s /\ h.yes = j.yes /\ h.n = Cardinality(Issued) + 1
<1> DEFINE j == job[w]
           n == Cardinality(Issued) + 1
           k == j.k + 1
           h == [j EXCEPT !.step = "insert", !.n = n, !.k = k]
<1>1. At(w, "number") /\ UNCHANGED <<calendar, study, exams, awards>>
  BY DEF NextNumber
<1>2. Become(w, h)
  BY LastNumber DEF NextNumber
<1>3. j \in Jobs /\ j.s \in Students
  BY <1>1 DEF Shape, Named, CertSteps, At
<1>4. n \in Nat /\ k \in Nat
  BY <1>3, IssuedFinite DEF Jobs
<1> HIDE DEF j, n, k
<1>5. h \in Jobs /\ h.step = "insert" /\ h.s = j.s /\ h.yes = j.yes /\ h.n = n
  BY <1>3, <1>4 DEF Jobs, Steps
<1> HIDE DEF h
<1> QED
  BY <1>1, <1>2, <1>3, <1>5, Becomes DEF j, n

\* An insert gives up, goes back for another number, or makes the certificate.
LEMMA InsertMoves ==
  ASSUME Shape, NEW w \in Workers, InsertCert(w)
  PROVE  LET j == job[w]  h == job'[w] IN
         /\ At(w, "insert") /\ j.s \in Students
         /\ UNCHANGED <<paid, stored, calendar, study, exams>>
         /\ \A v \in Workers \ {w} : job'[v] = job[v]
         /\ job' \in [Workers -> Jobs]
         /\ \/ UNCHANGED cert /\ h = Idle
            \/ UNCHANGED cert /\ h.step = "number" /\ h.s = j.s /\ h.yes = j.yes
            \/ /\ cert[j.s].status = "none" /\ ~NumberTaken(j.n)
               /\ cert' = [cert EXCEPT ![j.s] =
                    [status |-> "issued", number |-> j.n, file |-> FALSE, forced |-> j.yes]]
               /\ h.step = "upload" /\ h.s = j.s /\ h.n = j.n
<1> DEFINE j == job[w]
<1>1. At(w, "insert") /\ UNCHANGED <<paid, stored, calendar, study, exams>>
  BY DEF InsertCert
<1>2. j \in Jobs /\ j.s \in Students
  BY <1>1 DEF Shape, Named, CertSteps, At
<1>3. \/ UNCHANGED cert /\ Finish(w)
      \/ UNCHANGED cert /\ Become(w, [j EXCEPT !.step = "number"])
      \/ /\ cert[j.s].status = "none" /\ ~NumberTaken(j.n)
         /\ cert' = [cert EXCEPT ![j.s] =
              [status |-> "issued", number |-> j.n, file |-> FALSE, forced |-> j.yes]]
         /\ Become(w, [j EXCEPT !.step = "upload"])
  BY DEF InsertCert
<1> HIDE DEF j
<1>4. /\ [j EXCEPT !.step = "number"] \in Jobs /\ [j EXCEPT !.step = "upload"] \in Jobs
      /\ [j EXCEPT !.step = "number"].step = "number" /\ [j EXCEPT !.step = "number"].s = j.s
      /\ [j EXCEPT !.step = "number"].yes = j.yes
      /\ [j EXCEPT !.step = "upload"].step = "upload" /\ [j EXCEPT !.step = "upload"].s = j.s
      /\ [j EXCEPT !.step = "upload"].n = j.n
  BY <1>2 DEF Jobs, Steps
<1>5. CASE UNCHANGED cert /\ Finish(w)
  BY <1>1, <1>2, <1>5, Finishes DEF j
<1>6. CASE UNCHANGED cert /\ Become(w, [j EXCEPT !.step = "number"])
  BY <1>1, <1>2, <1>4, <1>6, Becomes DEF j
<1>7. CASE /\ cert[j.s].status = "none" /\ ~NumberTaken(j.n)
           /\ cert' = [cert EXCEPT ![j.s] =
                [status |-> "issued", number |-> j.n, file |-> FALSE, forced |-> j.yes]]
           /\ Become(w, [j EXCEPT !.step = "upload"])
  BY <1>1, <1>2, <1>4, <1>7, Becomes DEF j
<1> QED
  BY <1>3, <1>5, <1>6, <1>7

\* The file is stored under the number.
LEMMA UploadMoves ==
  ASSUME Shape, NEW w \in Workers, Upload(w)
  PROVE  LET j == job[w]  h == job'[w] IN
         /\ At(w, "upload") /\ j.s \in Students
         /\ UNCHANGED <<paid, cert, calendar, study, exams>> /\ stored' = stored \cup {j.n}
         /\ \A v \in Workers \ {w} : job'[v] = job[v]
         /\ job' \in [Workers -> Jobs]
         /\ h.step = "stamp" /\ h.s = j.s /\ h.n = j.n
<1> DEFINE j == job[w]
           h == [j EXCEPT !.step = "stamp"]
<1>1. /\ At(w, "upload") /\ UNCHANGED <<paid, cert, calendar, study, exams>>
      /\ stored' = stored \cup {j.n} /\ Become(w, h)
  BY DEF Upload
<1>2. j \in Jobs /\ j.s \in Students
  BY <1>1 DEF Shape, Named, CertSteps, At
<1> HIDE DEF j
<1>3. h \in Jobs /\ h.step = "stamp" /\ h.s = j.s /\ h.n = j.n
  BY <1>2 DEF Jobs, Steps
<1> HIDE DEF h
<1> QED
  BY <1>1, <1>2, <1>3, Becomes DEF j

\* The certificate then names it.
LEMMA StampMoves ==
  ASSUME Shape, NEW w \in Workers, Stamp(w)
  PROVE  LET j == job[w] IN
         /\ At(w, "stamp") /\ j.s \in Students
         /\ UNCHANGED <<paid, stored, calendar, study, exams>>
         /\ cert' = [cert EXCEPT ![j.s].file = TRUE]
         /\ job'[w] = Idle /\ job' \in [Workers -> Jobs]
         /\ \A v \in Workers \ {w} : job'[v] = job[v]
BY Finishes DEF Stamp, Shape, Named, CertSteps, At

\* A step on a certificate leaves the lessons and the quizzes alone.
LEMMA CertFrame ==
  ASSUME Shape, CertsOK, NEW w \in Workers, CertStep(w)
  PROVE  /\ UNCHANGED <<paid, calendar, study, exams>>
         /\ job' \in [Workers -> Jobs]
         /\ \A v \in Workers \ {w} : job'[v] = job[v]
         /\ job'[w].step \in {"idle"} \cup CertSteps /\ (job'[w].step \in CertSteps => job'[w].s = job[w].s)
         /\ job[w].step \in CertSteps /\ job[w].s \in Students
<1>1. CASE NextNumber(w)
  BY <1>1, NumberMoves DEF awards, At, CertSteps
<1>2. CASE InsertCert(w)
  BY <1>2, InsertMoves, IdleJob DEF At, CertSteps
<1>3. CASE Upload(w)
  BY <1>3, UploadMoves DEF At, CertSteps
<1>4. CASE Stamp(w)
  BY <1>4, StampMoves, IdleJob DEF At, CertSteps
<1> QED
  BY <1>1, <1>2, <1>3, <1>4 DEF CertStep

-----------------------------------------------------------------------------
(* The tables and the requests keep their shape.                           *)

CalendarTyped ==
  /\ mix \in Mixes /\ today \in Days /\ class \in [Lessons -> Days \cup {None}]
  /\ qr \in [Lessons -> {"none", "live", "expired"}]
StudyTyped ==
  /\ enrolled \subseteq Students
  /\ attendance \in [Students -> [Lessons -> AttendanceRows]]
  /\ done \in [Students -> SUBSET Lessons] /\ note \in [Students -> SUBSET Lessons]
  /\ progress \in [Students -> 0..NumLessons]
ExamsTyped == quiz \in [Quizzes -> QuizRows] /\ attempt \in [Attempts -> AttemptRows]
AwardsTyped == paid \subseteq Students /\ cert \in [Students -> CertRows] /\ stored \subseteq Numbers

\* The parts of Shape ...
LEMMA ShapeParts ==
  ASSUME Shape
  PROVE  /\ CalendarTyped /\ StudyTyped /\ ExamsTyped /\ AwardsTyped
         /\ job \in [Workers -> Jobs] /\ \A w \in Workers : Named(job[w])
BY DEF Shape, TypeOK, CalendarTyped, StudyTyped, ExamsTyped, AwardsTyped

\* ... make it, after the step.
LEMMA ShapeWhole ==
  ASSUME CalendarTyped', StudyTyped', ExamsTyped', AwardsTyped',
         job' \in [Workers -> Jobs], \A w \in Workers : Named(job'[w])
  PROVE  Shape'
<1>1. ASSUME NEW w \in Workers
      PROVE  /\ job'[w].op \in AllOps /\ job'[w].step \in Steps /\ job'[w].s \in Students \cup {None}
             /\ {job'[w].i, job'[w].k, job'[w].n} \subseteq Nat
             /\ job'[w].yes \in BOOLEAN /\ job'[w].adds \in BOOLEAN /\ job'[w].seen \subseteq Questions
             /\ job'[w].cols \subseteq Columns /\ job'[w].rows \subseteq Attempts
  BY DEF Jobs
<1> QED
  BY <1>1 DEF Shape, TypeOK, CalendarTyped, StudyTyped, ExamsTyped, AwardsTyped

\* What a request begins to work on is there.
LEMMA BeginsNamed ==
  ASSUME Shape, NEW w \in Workers, Begins(w)
  PROVE  Named(job'[w])
<1> USE DEF Named, Holds, StudySteps, CertSteps
<1>1. ASSUME NEW s \in Students, NEW l \in Lessons, BeginScan(w, s, l) PROVE Named(job'[w])
  <2>1. progress[s] \in 0..NumLessons
    BY DEF Shape, TypeOK
  <2> QED
    BY <1>1, <2>1, ScanBegins
<1>2. ASSUME NEW s \in Students, NEW l \in Lessons, NEW attended \in BOOLEAN, BeginMark(w, s, l, attended)
      PROVE  Named(job'[w])
  <2>1. progress[s] \in 0..NumLessons
    BY DEF Shape, TypeOK
  <2> QED
    BY <1>2, <2>1, MarkBegins
<1>3. ASSUME NEW s \in Students, NEW l \in Lessons, \E op \in {"complete", "note"} : BeginLesson(w, s, l, op)
      PROVE  Named(job'[w])
  <2>1. progress[s] \in 0..NumLessons
    BY DEF Shape, TypeOK
  <2> QED
    BY <1>3, <2>1, LessonBegins
<1>4. ASSUME NEW q \in Quizzes \cup {0}, NEW active \in BOOLEAN, NEW limit \in Nat, NEW mark \in 0..100,
             BeginQuiz(w, q, active, limit, mark)
      PROVE  Named(job'[w])
  <2>1. job'[w].step = "quiz" /\ job'[w].i = q /\ job'[w].n = mark
    BY <1>4, QuizSaveBegins
  <2> QED
    BY <2>1
<1>5. ASSUME NEW q \in Quizzes, NEW op \in {"replace", "drop"}, NEW force \in BOOLEAN, BeginChange(w, q, op, force)
      PROVE  Named(job'[w])
  BY <1>5, ChangeBegins
<1>6. ASSUME NEW q \in Quizzes, NEW s \in Students, BeginAttempt(w, s, q) PROVE Named(job'[w])
  BY <1>6, AttemptBegins
<1>7. ASSUME NEW a \in Attempts, NEW k \in Questions, NEW right \in BOOLEAN, BeginAnswer(w, a, k, right)
      PROVE  Named(job'[w])
  BY <1>7, AnswerBegins
<1>8. ASSUME NEW a \in Attempts, BeginFinish(w, a) PROVE Named(job'[w])
  BY <1>8, FinishBegins
<1>9. ASSUME NEW s \in Students, NEW op \in {"issue", "force"}, BeginIssue(w, s, op) PROVE Named(job'[w])
  BY <1>9, IssueBegins
<1>10. ASSUME NEW s \in Students, BeginRender(w, s) PROVE Named(job'[w])
  BY <1>10, RenderBegins
<1>11. CASE StudyBegins(w)
  BY <1>1, <1>2, <1>3, <1>11 DEF StudyBegins
<1>12. CASE QuizBegins(w)
  BY <1>4, <1>5, <1>6, <1>7, <1>8, <1>12 DEF QuizBegins
<1>13. CASE CertBegins(w)
  BY <1>9, <1>10, <1>13 DEF CertBegins
<1> QED
  BY <1>11, <1>12, <1>13 DEF Begins

\* Who begins was idle, whatever it begins.
LEMMA BeginsTurn ==
  ASSUME Shape, NEW w \in Workers, Begins(w)
  PROVE  /\ At(w, "idle") /\ (Alone => \A v \in Workers : At(v, "idle"))
         /\ job' \in [Workers -> Jobs]
         /\ \A v \in Workers \ {w} : job'[v] = job[v]
BY StudyBeginsTurn, QuizBeginsTurn, CertBeginsTurn DEF Begins

\* grade marks no more answers right than there are questions.
LEMMA RightCounted ==
  ASSUME NEW right, right \subseteq Questions
  PROVE  Cardinality(right) \in 0..Cardinality(Questions)
<1>1. IsFiniteSet(Questions) /\ Cardinality(Questions) \in Nat
  <2>1. Questions = 1..2
    BY ClassworkAssumption DEF Questions
  <2> QED
    <3>1. IsFiniteSet(1..2)
      BY FS_Interval, 1 \in Int, 2 \in Int
    <3> QED
      BY <2>1, <3>1, FS_CardinalityType
<1> QED
  BY <1>1, FS_Subset, FS_CardinalityType

\* A save writes the columns that changed.
LEMMA SavedRow ==
  ASSUME NEW row \in QuizRows, NEW j \in Jobs, j.n \in 0..100
  PROVE  Saved(row, j) \in QuizRows
<1> DEFINE status == IF "status" \notin j.cols THEN row.status ELSE IF j.yes THEN "active" ELSE "inactive"
           limit == IF "limit" \in j.cols THEN j.k ELSE row.limit
           mark == IF "mark" \in j.cols THEN j.n ELSE row.mark
<1>1. Saved(row, j) = [row EXCEPT !.status = status, !.limit = limit, !.mark = mark]
  BY DEF Saved
<1>2. status \in {"absent", "active", "inactive", "deleted"} /\ limit \in Nat /\ mark \in 0..100
  BY DEF QuizRows, Jobs
<1> HIDE DEF status, limit, mark
<1> QED
  BY <1>1, <1>2 DEF QuizRows

\* The row a start inserts ...
Begun(row, j) == [row EXCEPT !.status = "open", !.s = j.s, !.quiz = j.i, !.allowed = j.k]

\* ... is the first that is free.
LEMMA StartWrites ==
  ASSUME Shape, NEW w \in Workers, StartAttempt(w)
  PROVE  /\ UNCHANGED quiz
         /\ \/ UNCHANGED attempt
            \/ \E a \in Attempts :
                 /\ LowestOf(a, {b \in Attempts : attempt[b].status = "absent"})
                 /\ attempt' = [attempt EXCEPT ![a] = Begun(attempt[a], job[w])]
<1>1. attempt \in [Attempts -> AttemptRows]
  BY DEF Shape, TypeOK
<1>2. ASSUME NEW a \in Attempts,
             attempt' = [attempt EXCEPT ![a].status = "open", ![a].s = job[w].s, ![a].quiz = job[w].i,
                                        ![a].allowed = job[w].k]
      PROVE  attempt' = [attempt EXCEPT ![a] = Begun(attempt[a], job[w])]
  BY <1>1, <1>2 DEF Begun, AttemptRows
<1> QED
  BY <1>2 DEF StartAttempt

\* A step on a quiz leaves quizzes and attempts well-formed.
LEMMA QuizTyped ==
  ASSUME Shape, NEW w \in Workers, QuizStep(w)
  PROVE  ExamsTyped'
<1>1. job[w] \in Jobs /\ Named(job[w]) /\ quiz \in [Quizzes -> QuizRows] /\ attempt \in [Attempts -> AttemptRows]
  BY DEF Shape, TypeOK
<1>2. CASE SaveQuiz(w)
  <2>1. \A q \in Quizzes : Saved(quiz[q], job[w]) \in QuizRows
    BY <1>1, <1>2, SavedRow DEF SaveQuiz, At, Named
  <2>2. \/ UNCHANGED quiz
        \/ \E q \in Quizzes \cup {job[w].i} : quiz' = [quiz EXCEPT ![q] = Saved(quiz[q], job[w])]
    BY <1>2 DEF SaveQuiz
  <2>3. UNCHANGED attempt
    BY <1>2 DEF SaveQuiz
  <2> QED
    BY <1>1, <2>1, <2>2, <2>3 DEF ExamsTyped
<1>3. CASE Swap(w)
  <2>1. job[w].i \in Quizzes
    BY <1>1, <1>3 DEF Swap, At, Named
  <2>2. ASSUME NEW a \in Attempts
        PROVE  /\ [attempt[a] EXCEPT !.status = "deleted"] \in AttemptRows
               /\ [attempt[a] EXCEPT !.answered = {}, !.right = {}, !.swaps = @ + 1] \in AttemptRows
    <3> DEFINE swaps == attempt[a].swaps + 1
    <3>1. attempt[a] \in AttemptRows /\ swaps \in Nat /\ {} \in SUBSET Questions
      BY <1>1 DEF AttemptRows
    <3> HIDE DEF swaps
    <3>2. [attempt[a] EXCEPT !.status = "deleted"] \in AttemptRows
      BY <3>1 DEF AttemptRows
    <3>3. [attempt[a] EXCEPT !.answered = {}, !.right = {}, !.swaps = swaps] \in AttemptRows
      BY <3>1 DEF AttemptRows
    <3> QED
      BY <3>2, <3>3 DEF swaps
  <2>3. quiz' \in [Quizzes -> QuizRows]
    <3>1. \A q \in Quizzes : [quiz[q] EXCEPT !.questions = TRUE] \in QuizRows
      BY <1>1 DEF QuizRows
    <3>2. \/ UNCHANGED quiz
          \/ quiz' = [quiz EXCEPT ![job[w].i] = [quiz[job[w].i] EXCEPT !.questions = TRUE]]
      BY <1>1, <1>3, <2>1 DEF Swap, exams
    <3> QED
      BY <1>1, <2>1, <3>1, <3>2
  <2>4. attempt' \in [Attempts -> AttemptRows]
    <3>1. CASE UNCHANGED attempt
      BY <1>1, <3>1
    <3>2. CASE attempt' = [a \in Attempts |->
            IF a \in job[w].rows THEN [attempt[a] EXCEPT !.status = "deleted"]
            ELSE IF a \in AttemptsOf(job[w].i) \ job[w].rows
              THEN [attempt[a] EXCEPT !.answered = {}, !.right = {}, !.swaps = @ + 1]
              ELSE attempt[a]]
      BY <1>1, <2>2, <3>2
    <3> QED
      BY <1>3, <3>1, <3>2 DEF Swap, exams
  <2> QED
    BY <2>3, <2>4 DEF ExamsTyped
<1>9. CASE Drop(w)
  <2>1. job[w].i \in Quizzes
    BY <1>1, <1>9 DEF Drop, At, Named
  <2>2. \A a \in Attempts : [attempt[a] EXCEPT !.status = "deleted"] \in AttemptRows
    BY <1>1 DEF AttemptRows
  <2>3. quiz' \in [Quizzes -> QuizRows]
    BY <1>1, <1>9, <2>1 DEF Drop, QuizRows
  <2>4. attempt' \in [Attempts -> AttemptRows]
    BY <1>1, <1>9, <2>2 DEF Drop
  <2> QED
    BY <2>3, <2>4 DEF ExamsTyped
<1>4. CASE StartAttempt(w)
  <2>1. job[w].s \in Students /\ job[w].i \in Quizzes /\ job[w].k \in Nat
    BY <1>1, <1>4 DEF StartAttempt, Named, At, Jobs
  <2>2. \A a \in Attempts : Begun(attempt[a], job[w]) \in AttemptRows
    <3> TAKE a \in Attempts
    <3> DEFINE row == attempt[a]
               j == job[w]
    <3>1. row \in AttemptRows /\ j.s \in Students /\ j.i \in Quizzes /\ j.k \in Nat
      BY <1>1, <2>1
    <3> HIDE DEF row, j
    <3>2. [row EXCEPT !.status = "open", !.s = j.s, !.quiz = j.i, !.allowed = j.k] \in AttemptRows
      BY <3>1 DEF AttemptRows
    <3> QED
      BY <3>2 DEF Begun, row, j
  <2> QED
    BY <1>1, <1>4, <2>2, StartWrites DEF ExamsTyped
<1>5. CASE Answer(w)
  <2>1. job[w].i \in Attempts /\ job[w].k \in Questions
    BY <1>1, <1>5 DEF Answer, Named, Holds, At
  <2> DEFINE j == job[w]
             row == attempt[j.i]
             added == [row EXCEPT !.answered = @ \cup {j.k}, !.right = IF j.yes THEN @ \cup {j.k} ELSE @]
  <2>2. added \in AttemptRows
    <3>1. row \in AttemptRows /\ j.k \in Questions
      BY <1>1, <2>1
    <3> HIDE DEF row, j
    <3> QED
      BY <3>1 DEF AttemptRows
  <2>3. attempt' = attempt \/ attempt' = [attempt EXCEPT ![j.i] = added]
    BY <1>1, <1>5, <2>1 DEF Answer
  <2>4. UNCHANGED quiz
    BY <1>5 DEF Answer
  <2> HIDE DEF added
  <2> QED
    BY <1>1, <2>1, <2>2, <2>3, <2>4 DEF ExamsTyped
<1>6. CASE FinishAttempt(w)
  <2>1. job[w].i \in Attempts /\ job[w].seen \subseteq Questions /\ job[w].n \in 0..100
    BY <1>1, <1>6 DEF FinishAttempt, Named, Holds, At, Jobs
  <2>2. Cardinality(job[w].seen) \in 0..Cardinality(Questions)
    BY <2>1, RightCounted
  <2>3. (Percent(job[w].seen) >= job[w].n) \in BOOLEAN
    OBVIOUS
  <2>4. Graded(attempt[job[w].i], job[w].seen, job[w].n) \in AttemptRows
    <3> DEFINE passed == Percent(job[w].seen) >= job[w].n
               row == attempt[job[w].i]
               correct == Cardinality(job[w].seen)
               mark == job[w].n
    <3>1. Graded(row, job[w].seen, mark) =
            [row EXCEPT !.status = "finished", !.correct = correct, !.mark = mark, !.passed = passed]
      BY DEF Graded
    <3>2. row \in AttemptRows /\ passed \in BOOLEAN /\ correct \in 0..Cardinality(Questions) /\ mark \in 0..100
      BY <1>1, <2>1, <2>2, <2>3
    <3> HIDE DEF passed, row, correct, mark
    <3>3. [row EXCEPT !.status = "finished", !.correct = correct, !.mark = mark, !.passed = passed] \in AttemptRows
      BY <3>2 DEF AttemptRows
    <3> QED
      BY <3>1, <3>3 DEF row, mark
  <2> QED
    BY <1>1, <1>6, <2>1, <2>4 DEF FinishAttempt, ExamsTyped
<1> QED
  BY <1>2, <1>3, <1>4, <1>5, <1>6, <1>9 DEF QuizStep

\* A commit leaves the rows of a lesson well-formed.
LEMMA CommitTyped ==
  ASSUME Shape, NEW w \in Workers, Commit(w)
  PROVE  StudyTyped'
<1> DEFINE j == job[w]
<1>1. j \in Jobs /\ j.s \in Students /\ j.i \in Lessons /\ j.n \in 0..NumLessons /\ UNCHANGED enrolled
  BY CommitMoves DEF Named, StudySteps, At
<1>2. Record(j) \in AttendanceRows
  BY DEF Record, AttendanceRows
<1>3. /\ attendance' = IF CheckIn(j) THEN [attendance EXCEPT ![j.s][j.i] = Record(j)] ELSE attendance
      /\ note' = IF j.op = "note" THEN [note EXCEPT ![j.s] = @ \cup {j.i}] ELSE note
      /\ done' = IF j.adds THEN [done EXCEPT ![j.s] = @ \cup {j.i}] ELSE done
      /\ progress' = IF j.k = 1 THEN [progress EXCEPT ![j.s] = j.n] ELSE progress
  BY DEF Commit, Completed
<1> HIDE DEF j
<1>4. StudyTyped
  BY ShapeParts
<1>5. attendance' \in [Students -> [Lessons -> AttendanceRows]]
  BY <1>1, <1>2, <1>3, <1>4 DEF StudyTyped
<1>6. done' \in [Students -> SUBSET Lessons] /\ note' \in [Students -> SUBSET Lessons]
  BY <1>1, <1>3, <1>4 DEF StudyTyped
<1>7. progress' \in [Students -> 0..NumLessons]
  BY <1>1, <1>3, <1>4 DEF StudyTyped
<1> QED
  BY <1>1, <1>4, <1>5, <1>6, <1>7 DEF StudyTyped

\* A number that is free stays within as many as there are students.
LEMMA NumberInRange ==
  ASSUME Shape, CertsOK, NEW s \in Students, cert[s].status = "none"
  PROVE  Cardinality(Issued) + 1 \in Numbers
<1>1. Issued \subseteq Students \ {s}
  BY DEF Issued
<1>2. IsFiniteSet(Students \ {s}) /\ Cardinality(Students \ {s}) = Cardinality(Students) - 1
  BY ClassworkAssumption, FS_RemoveElement
<1>3. Cardinality(Issued) <= Cardinality(Students \ {s})
  BY <1>1, <1>2, FS_Subset
<1> QED
  BY <1>2, <1>3, IssuedFinite DEF Numbers

\* What is inserted has the first number that is free.
LEMMA NextFree ==
  ASSUME Shape, CertsOK, NEW w \in Workers, At(w, "insert"), ~NumberTaken(job[w].n)
  PROVE  job[w].n = Cardinality(Issued) + 1
<1>1. job[w].n \in 1..(Cardinality(Issued) + 1)
  BY DEF CertsOK, Certifies, At
<1>2. job[w].n \notin 1..Cardinality(Issued)
  BY DEF CertsOK, AllGiven, NumberTaken, Issued
<1> QED
  BY <1>1, <1>2, IssuedFinite

\* A step on a certificate leaves its row and number well-formed.
LEMMA CertTyped ==
  ASSUME Shape, CertsOK, NEW w \in Workers, CertStep(w)
  PROVE  AwardsTyped' /\ Named(job'[w])
<1>0. AwardsTyped
  BY ShapeParts
<1>1. Named(job'[w])
  BY CertFrame DEF Named, Holds, StudySteps, CertSteps
<1>2. CASE NextNumber(w)
  BY <1>0, <1>1, <1>2, NumberMoves DEF AwardsTyped, awards
<1>3. CASE InsertCert(w)
  <2>1. CASE UNCHANGED cert
    BY <1>0, <1>1, <1>3, <2>1, InsertMoves DEF AwardsTyped
  <2>2. CASE cert' # cert
    <3> DEFINE row == [status |-> "issued", number |-> job[w].n, file |-> FALSE, forced |-> job[w].yes]
    <3>1. /\ At(w, "insert") /\ job[w].s \in Students /\ cert[job[w].s].status = "none" /\ ~NumberTaken(job[w].n)
          /\ cert' = [cert EXCEPT ![job[w].s] = row] /\ UNCHANGED <<paid, stored>>
      BY <1>3, <2>2, InsertMoves
    <3>2. job[w].n \in Numbers /\ job[w].yes \in BOOLEAN
      BY <3>1, NextFree, NumberInRange DEF Shape, Jobs
    <3>3. row \in CertRows
      BY <3>2 DEF CertRows
    <3> HIDE DEF row
    <3> QED
      BY <1>0, <1>1, <3>1, <3>3 DEF AwardsTyped
  <2> QED
    BY <2>1, <2>2
<1>4. CASE Upload(w)
  <2>1. job[w].n = cert[job[w].s].number /\ cert[job[w].s].status # "none" /\ job[w].s \in Students
    BY <1>4, UploadMoves DEF CertsOK, Certifies, At
  <2>2. job[w].n \in Numbers
    <3>1. cert[job[w].s].number \in 1..Cardinality(Issued)
      BY <2>1 DEF CertsOK, CertOK
    <3> QED
      BY <2>1, <3>1, IssuedFinite DEF Numbers
  <2> QED
    BY <1>0, <1>1, <1>4, <2>2, UploadMoves DEF AwardsTyped
<1>5. CASE Stamp(w)
  <2>1. \A s \in Students : [cert[s] EXCEPT !.file = TRUE] \in CertRows
    BY <1>0 DEF AwardsTyped, CertRows
  <2>2. cert' = [cert EXCEPT ![job[w].s].file = TRUE] /\ job[w].s \in Students /\ UNCHANGED <<paid, stored>>
    BY <1>5, StampMoves
  <2>3. cert' \in [Students -> CertRows]
    BY <1>0, <2>1, <2>2 DEF AwardsTyped
  <2> QED
    BY <1>0, <1>1, <2>2, <2>3 DEF AwardsTyped
<1> QED
  BY <1>2, <1>3, <1>4, <1>5 DEF CertStep

\* The calendar changes days and codes only.
LEMMA CalendarKeepsShape ==
  ASSUME Shape, Calendar
  PROVE  CalendarTyped' /\ UNCHANGED <<study, exams, awards, job>>
<1>1. CASE NextDay
  <2>1. today' \in Days
    <3>1. today \in 0..MaxDay /\ mix.days \in 0..MaxDay /\ today < mix.days /\ today' = today + 1
      BY <1>1, MixBounds DEF NextDay, Shape, TypeOK, Days
    <3> QED
      BY <3>1, ClassworkAssumption DEF Days
  <2> QED
    BY <1>1, <2>1 DEF NextDay, CalendarTyped, Shape, TypeOK
<1>2. ASSUME NEW l \in Lessons, IssueQr(l) PROVE CalendarTyped' /\ UNCHANGED <<study, exams, awards, job>>
  BY <1>2 DEF IssueQr, AtOnce, CalendarTyped, Shape, TypeOK
<1>3. ASSUME NEW l \in Lessons, ExpireQr(l) PROVE CalendarTyped' /\ UNCHANGED <<study, exams, awards, job>>
  BY <1>3 DEF ExpireQr, CalendarTyped, Shape, TypeOK
<1> QED
  BY <1>1, <1>2, <1>3 DEF Calendar

\* The world around changes enrollments, payments and what is archived.
LEMMA AroundKeepsShape ==
  ASSUME Shape, NEW s \in Students, Around(s)
  PROVE  StudyTyped' /\ AwardsTyped' /\ UNCHANGED <<calendar, exams, job, attendance, done, note, progress, stored>>
<1>1. CASE Leave(s)
  BY <1>1 DEF Leave, AtOnce, Shape, TypeOK, StudyTyped, AwardsTyped, awards
<1>2. CASE Pay(s)
  BY <1>2 DEF Pay, AtOnce, Shape, TypeOK, StudyTyped, AwardsTyped, study
<1>3. CASE Archive(s)
  <2>1. [cert[s] EXCEPT !.status = "archived"] \in CertRows
    BY DEF Shape, TypeOK, CertRows
  <2> QED
    BY <1>3, <2>1 DEF Archive, AtOnce, Shape, TypeOK, StudyTyped, AwardsTyped, study
<1> QED
  BY <1>1, <1>2, <1>3 DEF Around

\* Every step keeps the types, and what each request names.
LEMMA ShapeNext ==
  ASSUME Shape, CertsOK, [Next]_vars
  PROVE  Shape'
<1>1. /\ CalendarTyped /\ StudyTyped /\ ExamsTyped /\ AwardsTyped
      /\ job \in [Workers -> Jobs] /\ \A w \in Workers : Named(job[w])
  BY ShapeParts
<1>2. /\ UNCHANGED calendar => CalendarTyped'
      /\ UNCHANGED study => StudyTyped'
      /\ UNCHANGED exams => ExamsTyped'
      /\ UNCHANGED awards => AwardsTyped'
  BY <1>1 DEF calendar, study, exams, awards, CalendarTyped, StudyTyped, ExamsTyped, AwardsTyped
<1>3. CASE UNCHANGED vars
  BY <1>1, <1>2, <1>3, ShapeWhole DEF vars
<1>4. CASE Calendar
  BY <1>1, <1>2, <1>4, CalendarKeepsShape, ShapeWhole
<1>5. ASSUME NEW s \in Students, Around(s) PROVE Shape'
  BY <1>1, <1>2, <1>5, AroundKeepsShape, ShapeWhole
<1>6. ASSUME NEW w \in Workers, job' \in [Workers -> Jobs], Named(job'[w]),
             \A v \in Workers \ {w} : job'[v] = job[v],
             CalendarTyped', StudyTyped', ExamsTyped', AwardsTyped'
      PROVE  Shape'
  <2>1. \A v \in Workers : Named(job'[v])
    BY <1>1, <1>6
  <2> QED
    BY <1>6, <2>1, ShapeWhole
<1>7. ASSUME NEW w \in Workers, Begins(w) PROVE Shape'
  BY <1>2, <1>6, <1>7, BeginsFrame, BeginsTurn, BeginsNamed
<1>8. ASSUME NEW w \in Workers, Flush(w) PROVE Shape'
  <2>1. Named(job'[w])
    <3>1. Named(job[w]) /\ At(w, "flush") /\ job[w].step \in StudySteps
      BY <1>8, FlushMoves DEF Shape, At, StudySteps
    <3>2. CASE job'[w] = Idle
      BY <3>2, IdleJob
    <3>3. CASE job'[w] # Idle
      BY <1>8, <3>1, <3>3, FlushMoves DEF Named, Holds, StudySteps, CertSteps
    <3> QED
      BY <3>2, <3>3
  <2> QED
    BY <1>2, <1>6, <1>8, <2>1, FlushMoves
<1>9. ASSUME NEW w \in Workers, Commit(w) PROVE Shape'
  BY <1>2, <1>6, <1>9, CommitMoves, CommitTyped, IdleJob
<1>10. ASSUME NEW w \in Workers, QuizStep(w) PROVE Shape'
  BY <1>2, <1>6, <1>10, QuizFrame, QuizTyped, IdleJob
<1>11. ASSUME NEW w \in Workers, CertStep(w) PROVE Shape'
  BY <1>2, <1>6, <1>11, CertFrame, CertTyped
<1>12. ASSUME NEW w \in Workers, Ends(w) PROVE Shape'
  BY <1>2, <1>6, <1>12, EndsFrame, IdleJob
<1>13. ASSUME NEW w \in Workers, Wipe(w) PROVE Shape'
  <2>1. Named(job'[w])
    BY <1>13, WipeMoves DEF Named, Holds, StudySteps, CertSteps
  <2> QED
    BY <1>2, <1>6, <1>13, <2>1, WipeMoves
<1> QED
  BY <1>3, <1>4, <1>5, <1>7, <1>8, <1>9, <1>10, <1>11, <1>12, <1>13, Kinds DEF Acts, StudyStep

-----------------------------------------------------------------------------
(* Attempts: open while they are held, and graded on what they hold.       *)

GradedRow(row) == row.status = "finished" /\ row.swaps = 0 =>
  row.correct = Cardinality(row.right) /\ row.passed = (Percent(row.right) >= row.mark)

\* A row that is as open as it was, with its answers unless they were swapped.
KeptRow(was, is) ==
  is.status = was.status /\ (is.swaps = 0 => was.swaps = 0 /\ is.right = was.right)

\* The order stands where no attempt appears or disappears.
LEMMA OrderKept ==
  ASSUME InOrder, \A a \in Attempts : attempt'[a].status = "absent" <=> attempt[a].status = "absent"
  PROVE  InOrder'
BY DEF InOrder

\* It is enough that finished rows stay or are graded, and that held ones are kept.
LEMMA ExamsWhole ==
  ASSUME Shape, ExamsOK, NEW w \in Workers, \A v \in Workers \ {w} : job'[v] = job[v],
         ~Holds(job'[w]), job'[w].step # "swap", InOrder',
         \A a \in Attempts : attempt'[a].status = "absent" => attempt[a].status = "absent",
         \A a \in Attempts : attempt'[a] = attempt[a] \/ GradedRow(attempt'[a]),
         \A v \in Workers \ {w} : Holds(job[v]) => KeptRow(attempt[job[v].i], attempt'[job[v].i])
  PROVE  ExamsOK'
<1>1. ASSUME NEW a \in Attempts PROVE GradedRow(attempt'[a])
  <2>1. GradedRow(attempt[a])
    BY DEF ExamsOK, GradedByItsAnswers, GradedRow
  <2> QED
    BY <2>1
<1>2. GradedByItsAnswers'
  BY <1>1 DEF GradedByItsAnswers, GradedRow
<1>3. ASSUME NEW v \in Workers PROVE Sits(v)'
  <2>1. CASE v = w
    BY <2>1 DEF Sits
  <2>2. CASE v # w
    <3>1. job'[v] = job[v] /\ Sits(v)
      BY <2>2 DEF ExamsOK
    <3>2. ~Wiped(job[v].i) => ~Wiped(job[v].i)'
      BY <3>1 DEF Wiped, At
    <3> QED
      BY <2>2, <3>1, <3>2 DEF Sits, At, KeptRow
  <2> QED
    BY <2>1, <2>2
<1>4. ASSUME NEW v \in Workers PROVE RowsThere(v)'
  BY DEF ExamsOK, RowsThere, At, Shape, Jobs
<1> QED
  BY <1>2, <1>3, <1>4 DEF ExamsOK

\* A step elsewhere leaves attempts and grades as they are.
LEMMA ExamsQuiet ==
  ASSUME Shape, ExamsOK, UNCHANGED attempt, NEW w \in Workers, \A v \in Workers \ {w} : job'[v] = job[v],
         ~Holds(job'[w]), job'[w].step # "swap"
  PROVE  ExamsOK'
BY OrderKept, ExamsWhole DEF ExamsOK, KeptRow

\* A thread takes an open attempt nobody holds.
LEMMA ExamsTaken ==
  ASSUME ExamsOK, UNCHANGED attempt, NEW w \in Workers, \A v \in Workers \ {w} : job'[v] = job[v],
         Holds(job'[w]), AttemptFree(job'[w].i), attempt[job'[w].i].status = "open",
         job'[w].step = "finish" => job'[w].seen = attempt[job'[w].i].right
  PROVE  ExamsOK'
<1>1. GradedByItsAnswers' /\ InOrder'
  BY DEF ExamsOK, GradedByItsAnswers, InOrder
<1>2. \A v \in Workers \ {w} : Holds(job[v]) => job[v].i # job'[w].i
  BY DEF AttemptFree, Holds
<1>3. ASSUME NEW v \in Workers PROVE Sits(v)'
  <2>1. ~Wiped(job'[w].i) /\ (v # w /\ Holds(job[v]) => ~Wiped(job[v].i))
    BY DEF AttemptFree, ExamsOK, Sits
  <2>2. Holds(job'[v]) => ~Wiped(job[v].i)'
    BY <2>1 DEF Wiped, At, Holds
  <2> QED
    BY <1>2, <2>2 DEF ExamsOK, Sits, At
<1>4. \A v \in Workers : RowsThere(v)'
  BY DEF ExamsOK, RowsThere, At, Holds
<1> QED
  BY <1>1, <1>3, <1>4 DEF ExamsOK

\* A replacement deletes attempts nobody holds.
LEMMA ExamsWiped ==
  ASSUME Shape, ExamsOK, NEW w \in Workers, Wipe(w)
  PROVE  ExamsOK'
<1>1. /\ UNCHANGED attempt /\ \A v \in Workers \ {w} : job'[v] = job[v]
      /\ job'[w].step = "swap" /\ job'[w].rows = AttemptsOf(job[w].i)
  BY WipeMoves DEF exams
<1>2. \A a \in AttemptsOf(job[w].i) : AttemptFree(a)
  BY DEF Wipe
<1>3. GradedByItsAnswers' /\ InOrder'
  BY <1>1 DEF ExamsOK, GradedByItsAnswers, InOrder
<1>4. ASSUME NEW v \in Workers PROVE Sits(v)'
  <2>1. CASE v = w
    BY <1>1, <2>1 DEF Sits, Holds
  <2>2. CASE v # w
    <3>1. Sits(v) /\ job'[v] = job[v]
      BY <1>1, <2>2 DEF ExamsOK
    <3>2. Holds(job[v]) => job[v].i \notin job'[w].rows
      BY <1>1, <1>2 DEF AttemptFree, Holds
    <3>3. Holds(job[v]) => ~Wiped(job[v].i)'
      BY <1>1, <3>1, <3>2 DEF Sits, Wiped, At
    <3> QED
      BY <1>1, <2>2, <3>1, <3>3 DEF Sits, At, Holds
  <2> QED
    BY <2>1, <2>2
<1>5. \A v \in Workers : RowsThere(v)'
  BY <1>1 DEF ExamsOK, RowsThere, At, AttemptsOf
<1> QED
  BY <1>3, <1>4, <1>5 DEF ExamsOK

\* A request on a quiz begins with no attempt, or with a free one.
LEMMA QuizBeginsExams ==
  ASSUME Shape, ExamsOK, NEW w \in Workers, QuizBegins(w)
  PROVE  ExamsOK'
<1>1. UNCHANGED attempt
  BY BeginsFrame DEF Begins, exams
<1>2. \A v \in Workers \ {w} : job'[v] = job[v]
  BY QuizBeginsTurn
<1>3. ASSUME NEW a \in Attempts, NEW k \in Questions, NEW right \in BOOLEAN, BeginAnswer(w, a, k, right)
      PROVE  ExamsOK'
  <2>1. job'[w].step = "answer" /\ job'[w].i = a
    BY <1>3, AnswerBegins
  <2>2. attempt[a].status = "open" /\ AttemptFree(a)
    BY <1>3 DEF BeginAnswer
  <2> QED
    BY <1>1, <1>2, <2>1, <2>2, ExamsTaken DEF Holds
<1>4. ASSUME NEW a \in Attempts, BeginFinish(w, a) PROVE ExamsOK'
  <2>1. job'[w].step = "finish" /\ job'[w].i = a /\ job'[w].seen = attempt[a].right
    BY <1>4, FinishBegins
  <2>2. attempt[a].status = "open" /\ AttemptFree(a)
    BY <1>4 DEF BeginFinish
  <2> QED
    BY <1>1, <1>2, <2>1, <2>2, ExamsTaken DEF Holds
<1>5. ASSUME NEW q \in Quizzes \cup {0}, NEW active \in BOOLEAN, NEW limit \in Nat, NEW mark \in 0..100,
             BeginQuiz(w, q, active, limit, mark)
      PROVE  ExamsOK'
  <2>1. job'[w].step = "quiz"
    BY <1>5, QuizSaveBegins
  <2> QED
    BY <1>1, <1>2, <2>1, ExamsQuiet DEF Holds
<1>6. ASSUME NEW q \in Quizzes, NEW op \in {"replace", "drop"}, NEW force \in BOOLEAN, BeginChange(w, q, op, force)
      PROVE  ExamsOK'
  BY <1>1, <1>2, <1>6, ChangeBegins, ExamsQuiet DEF Holds
<1>7. ASSUME NEW q \in Quizzes, NEW s \in Students, BeginAttempt(w, s, q) PROVE ExamsOK'
  BY <1>1, <1>2, <1>7, AttemptBegins, ExamsQuiet DEF Holds
<1> QED
  BY <1>3, <1>4, <1>5, <1>6, <1>7 DEF QuizBegins

\* An attempt ends graded by the answers it has; others are not touched.
LEMMA QuizStepExams ==
  ASSUME Shape, ExamsOK, NEW w \in Workers, QuizStep(w)
  PROVE  ExamsOK'
<1>1. \A v \in Workers \ {w} : job'[v] = job[v]
  BY QuizFrame
<1>2. ~Holds(job'[w]) /\ job'[w].step # "swap"
  BY QuizFrame, IdleJob DEF Holds
<1>3. attempt \in [Attempts -> AttemptRows]
  BY DEF Shape, TypeOK
<1>4. CASE SaveQuiz(w)
  BY <1>1, <1>2, <1>4, ExamsQuiet DEF SaveQuiz
<1>5. CASE Swap(w)
  <2> DEFINE q == job[w].i
             rows == job[w].rows
             begun == AttemptsOf(q) \ rows
  <2>1. CASE UNCHANGED attempt
    BY <1>1, <1>2, <2>1, ExamsQuiet
  <2>2. CASE attempt' # attempt
    <3>1. attempt' = [a \in Attempts |->
            IF a \in rows THEN [attempt[a] EXCEPT !.status = "deleted"]
            ELSE IF a \in begun THEN [attempt[a] EXCEPT !.answered = {}, !.right = {}, !.swaps = @ + 1]
            ELSE attempt[a]]
      BY <1>5, <2>2 DEF Swap, exams
    <3> HIDE DEF begun, rows
    <3>2. ASSUME NEW a \in Attempts
          PROVE  /\ a \in rows => attempt'[a].status = "deleted"
                 /\ a \notin rows => KeptRow(attempt[a], attempt'[a])
                 /\ attempt'[a] = attempt[a] \/ attempt'[a].status = "deleted" \/ attempt'[a].swaps # 0
      <4>1. attempt[a].swaps + 1 # 0
        BY <1>3 DEF AttemptRows
      <4>2. CASE a \in rows
        BY <1>3, <3>1, <4>2 DEF AttemptRows
      <4>3. CASE a \notin rows /\ a \in begun
        BY <1>3, <3>1, <4>1, <4>3 DEF AttemptRows, KeptRow
      <4>4. CASE a \notin rows /\ a \notin begun
        BY <3>1, <4>4 DEF KeptRow
      <4> QED
        BY <4>2, <4>3, <4>4
    <3>3. ASSUME NEW v \in Workers \ {w}, Holds(job[v]) PROVE KeptRow(attempt[job[v].i], attempt'[job[v].i])
      <4>1. job[v].i \in Attempts /\ ~Wiped(job[v].i)
        BY <3>3 DEF ExamsOK, Sits, Shape, Named
      <4>2. job[v].i \notin rows
        BY <1>5, <4>1 DEF Wiped, Swap, rows
      <4> QED
        BY <3>2, <4>1, <4>2
    <3>4. \A a \in Attempts : attempt'[a] = attempt[a] \/ GradedRow(attempt'[a])
      BY <3>2 DEF GradedRow
    <3>5. InOrder' /\ \A a \in Attempts : attempt'[a].status = "absent" => attempt[a].status = "absent"
      <4>1. \A a \in rows : attempt[a].status # "absent"
        BY <1>5 DEF Swap, rows, ExamsOK, RowsThere
      <4>2. \A a \in Attempts : attempt'[a].status = "absent" <=> attempt[a].status = "absent"
        BY <3>2, <4>1 DEF KeptRow
      <4> QED
        BY <4>2, OrderKept DEF ExamsOK
    <3> QED
      BY <1>1, <1>2, <3>3, <3>4, <3>5, ExamsWhole
  <2> QED
    BY <2>1, <2>2
<1>10. CASE Drop(w)
  <2> DEFINE q == job[w].i
  <2>1. \A a \in Attempts : attempt'[a] = IF a \in AttemptsOf(q) THEN [attempt[a] EXCEPT !.status = "deleted"]
                                          ELSE attempt[a]
    BY <1>10 DEF Drop
  <2>2. \A a \in AttemptsOf(q) : AttemptFree(a)
    BY <1>10 DEF Drop
  <2>3. \A a \in Attempts :
          attempt'[a] = attempt[a] \/ (attempt'[a].status = "deleted" /\ attempt[a].status # "absent")
    BY <1>3, <2>1 DEF AttemptRows, AttemptsOf
  <2>4. ASSUME NEW v \in Workers \ {w}, Holds(job[v]) PROVE KeptRow(attempt[job[v].i], attempt'[job[v].i])
    BY <2>1, <2>2, <2>4 DEF AttemptFree, Holds, Shape, Named, KeptRow
  <2>5. InOrder'
    BY <2>3, OrderKept DEF ExamsOK
  <2> QED
    BY <1>1, <1>2, <2>3, <2>4, <2>5, ExamsWhole DEF GradedRow
<1>6. CASE StartAttempt(w)
  <2>1. CASE UNCHANGED attempt
    BY <1>1, <1>2, <2>1, ExamsQuiet
  <2>2. CASE attempt' # attempt
    <3>1. PICK a \in Attempts :
            /\ LowestOf(a, {b \in Attempts : attempt[b].status = "absent"})
            /\ attempt' = [attempt EXCEPT ![a] = Begun(attempt[a], job[w])]
      BY <1>6, <2>2, StartWrites
    <3>2. attempt'[a].status = "open" /\ \A b \in Attempts \ {a} : attempt'[b] = attempt[b]
      BY <1>3, <3>1 DEF AttemptRows, Begun
    <3>3. \A v \in Workers : Holds(job[v]) => job[v].i \in Attempts /\ job[v].i # a
      BY <3>1 DEF ExamsOK, Sits, Shape, Named, LowestOf
    <3>4. InOrder'
      <4>1. ASSUME NEW c \in Attempts, NEW b \in Attempts, c < b, attempt'[b].status # "absent"
            PROVE  attempt'[c].status # "absent"
        <5>1. CASE b = a
          <6>1. ~(a <= c)
            BY <4>1, <5>1, Naturals
          <6> QED
            BY <3>1, <3>2, <5>1, <6>1 DEF LowestOf
        <5>2. CASE b # a
          BY <3>2, <4>1, <5>2 DEF ExamsOK, InOrder
        <5> QED
          BY <5>1, <5>2
      <4> QED
        BY <4>1 DEF InOrder
    <3> QED
      BY <1>1, <1>2, <3>2, <3>3, <3>4, ExamsWhole DEF GradedRow, KeptRow
  <2> QED
    BY <2>1, <2>2
<1>7. ASSUME Holds(job[w]), NEW row, attempt' = [attempt EXCEPT ![job[w].i] = row], GradedRow(row),
             row.status # "absent"
      PROVE  ExamsOK'
  <2> DEFINE a == job[w].i
  <2>1. a \in Attempts
    BY <1>7 DEF Shape, Named
  <2>2. attempt'[a] = row /\ \A b \in Attempts \ {a} : attempt'[b] = attempt[b]
    BY <1>3, <1>7, <2>1
  <2>3. \A v \in Workers \ {w} : Holds(job[v]) => job[v].i \in Attempts /\ job[v].i # a
    BY <1>7 DEF ExamsOK, Sits, Shape, Named
  <2>4. attempt[a].status = "open"
    BY <1>7 DEF ExamsOK, Sits
  <2> HIDE DEF a
  <2>5. InOrder'
    BY <1>7, <2>2, <2>4, OrderKept DEF ExamsOK
  <2> QED
    BY <1>1, <1>2, <1>7, <2>2, <2>3, <2>5, ExamsWhole DEF KeptRow
<1>8. CASE Answer(w)
  <2>0. CASE UNCHANGED attempt
    BY <1>1, <1>2, <2>0, ExamsQuiet
  <2> DEFINE a == job[w].i
             right == IF job[w].yes THEN attempt[a].right \cup {job[w].k} ELSE attempt[a].right
             row == [attempt[a] EXCEPT !.answered = @ \cup {job[w].k}, !.right = right]
  <2>1. Holds(job[w]) /\ a \in Attempts
    BY <1>8 DEF Answer, At, Holds, Shape, Named
  <2>2. ASSUME attempt' # attempt PROVE attempt' = [attempt EXCEPT ![a] = row]
    BY <1>3, <1>8, <2>1, <2>2 DEF Answer
  <2>3. row.status = "open"
    BY <1>3, <2>1 DEF ExamsOK, Sits, AttemptRows
  <2> HIDE DEF row
  <2> QED
    BY <1>7, <2>0, <2>1, <2>2, <2>3 DEF GradedRow
<1>9. CASE FinishAttempt(w)
  <2> DEFINE a == job[w].i
             right == attempt[a].right
             seen == job[w].seen
             mark == job[w].n
             row == Graded(attempt[a], seen, mark)
  <2>1. Holds(job[w]) /\ a \in Attempts /\ (attempt[a].swaps = 0 => seen = right)
    BY <1>9 DEF FinishAttempt, At, Holds, Shape, Named, ExamsOK, Sits
  <2>2. attempt' = [attempt EXCEPT ![a] = row]
    BY <1>3, <1>9, <2>1 DEF FinishAttempt
  <2>3. /\ row.right = right /\ row.correct = Cardinality(seen) /\ row.mark = mark
        /\ row.passed = (Percent(seen) >= mark)
        /\ row.swaps = attempt[a].swaps /\ row.status = "finished"
    BY <1>3, <2>1 DEF Graded, AttemptRows
  <2> HIDE DEF row, right, seen, mark
  <2>4. GradedRow(row)
    BY <2>1, <2>3 DEF GradedRow
  <2> QED
    BY <1>7, <2>1, <2>2, <2>3, <2>4
<1> QED
  BY <1>4, <1>5, <1>6, <1>8, <1>9, <1>10 DEF QuizStep

\* Held attempts stay open, and grades stay what the answers make them.
LEMMA ExamsNext ==
  ASSUME Shape, CertsOK, ExamsOK, [Next]_vars
  PROVE  ExamsOK'
<1>1. ASSUME UNCHANGED <<attempt, job>> PROVE ExamsOK'
  <2>1. GradedByItsAnswers' /\ InOrder' /\ \A w \in Workers : RowsThere(w)'
    BY <1>1 DEF ExamsOK, GradedByItsAnswers, InOrder, RowsThere, At
  <2>2. ASSUME NEW w \in Workers PROVE Sits(w)'
    BY <1>1 DEF ExamsOK, Sits, At, Wiped
  <2> QED
    BY <2>1, <2>2 DEF ExamsOK
<1>2. CASE UNCHANGED vars
  BY <1>1, <1>2 DEF vars, exams
<1>3. CASE Calendar
  BY <1>1, <1>3, CalendarKeepsShape DEF exams
<1>4. ASSUME NEW s \in Students, Around(s) PROVE ExamsOK'
  BY <1>1, <1>4, AroundKeepsShape DEF exams
<1>5. ASSUME NEW w \in Workers, StudyBegins(w) PROVE ExamsOK'
  BY <1>5, BeginsFrame, StudyBeginsTurn, ExamsQuiet DEF Begins, exams, Holds
<1>6. ASSUME NEW w \in Workers, CertBegins(w) PROVE ExamsOK'
  BY <1>6, BeginsFrame, CertBeginsTurn, ExamsQuiet DEF Begins, exams, Holds
<1>7. ASSUME NEW w \in Workers, Flush(w) PROVE ExamsOK'
  <2>1. ~Holds(job'[w]) /\ job'[w].step # "swap"
    BY <1>7, FlushMoves, IdleJob DEF Holds
  <2> QED
    BY <1>7, <2>1, FlushMoves, ExamsQuiet DEF exams
<1>8. ASSUME NEW w \in Workers, Commit(w) PROVE ExamsOK'
  BY <1>8, CommitMoves, IdleJob, ExamsQuiet DEF exams, Holds
<1>9. ASSUME NEW w \in Workers, CertStep(w) PROVE ExamsOK'
  BY <1>9, CertFrame, ExamsQuiet DEF exams, Holds, CertSteps
<1>10. ASSUME NEW w \in Workers, Ends(w) PROVE ExamsOK'
  BY <1>10, EndsFrame, IdleJob, ExamsQuiet DEF exams, Holds
<1> QED
  BY <1>2, <1>3, <1>4, <1>5, <1>6, <1>7, <1>8, <1>9, <1>10, QuizBeginsExams, QuizStepExams, ExamsWiped, Kinds
     DEF Begins, Acts, StudyStep

-----------------------------------------------------------------------------
(* Certificates: numbered without gaps, and with their files.              *)

\* A completed lesson stays completed.
LEMMA DoneGrows ==
  ASSUME Shape, CertsOK, [Next]_vars, NEW s \in Students
  PROVE  done[s] \subseteq done'[s]
<1>1. CASE UNCHANGED done
  BY <1>1
<1>2. ASSUME NEW w \in Workers, Commit(w) PROVE done[s] \subseteq done'[s]
  BY <1>2 DEF Commit, Completed, Shape, TypeOK
<1>3. Calendar \/ UNCHANGED vars => UNCHANGED done
  BY CalendarKeepsShape DEF study, vars
<1>4. \A t \in Students : Around(t) => UNCHANGED done
  BY AroundKeepsShape
<1>5. ASSUME NEW w \in Workers, Begins(w) \/ Flush(w) \/ Wipe(w) \/ QuizStep(w) \/ CertStep(w) \/ Ends(w)
      PROVE  UNCHANGED done
  BY <1>5, BeginsFrame, FlushMoves, WipeMoves, QuizFrame, CertFrame, EndsFrame DEF study
<1> QED
  BY <1>1, <1>2, <1>3, <1>4, <1>5, Kinds DEF Acts, StudyStep

\* Certifies, of a job after the step.
Fits(j) ==
  /\ j.step = "insert" => j.n \in 1..(Cardinality(Issued') + 1)
  /\ j.step \in {"upload", "stamp"} => cert'[j.s].status # "none" /\ cert'[j.s].number = j.n
  /\ j.step = "stamp" => j.n \in stored'
  /\ j.step \in {"number", "insert"} /\ ~j.yes => done'[j.s] = Lessons

\* A job that fits still does when numbers, files and lessons have been added.
LEMMA StillFits ==
  ASSUME Shape, CertsOK, [Next]_vars, stored \subseteq stored',
         Cardinality(Issued') \in Nat, Cardinality(Issued) <= Cardinality(Issued'),
         \A s \in Students : cert[s].status # "none" => cert'[s].status # "none" /\ cert'[s].number = cert[s].number,
         NEW v \in Workers
  PROVE  Fits(job[v])
<1> DEFINE j == job[v]
<1>1. Certifies(j) /\ (j.step \in CertSteps => j.s \in Students)
  BY DEF CertsOK, Shape, Named
<1>2. j.step = "insert" => j.n \in 1..(Cardinality(Issued') + 1)
  BY <1>1, IssuedFinite DEF Certifies
<1>3. j.step \in {"number", "insert"} /\ ~j.yes => done'[j.s] = Lessons
  <2>1. Shape'
    BY ShapeNext
  <2>2. \A s \in Students : done'[s] \subseteq Lessons
    BY <2>1 DEF Shape, TypeOK
  <2> QED
    BY <1>1, <2>2, DoneGrows DEF Certifies, CertSteps
<1> HIDE DEF j
<1>4. Fits(j)
  BY <1>1, <1>2, <1>3 DEF Certifies, Fits, CertSteps
<1> QED
  BY <1>4 DEF j

\* A step that gives no number keeps them in order, if what threads go on to do fits.
LEMMA CertsWhole ==
  ASSUME Shape, CertsOK, [Next]_vars, stored \subseteq stored',
         \A s \in Students :
           /\ cert'[s].status = "none" <=> cert[s].status = "none"
           /\ cert'[s].number = cert[s].number
           /\ cert'[s].file => cert[s].file \/ (cert[s].status # "none" /\ cert[s].number \in stored),
         \A v \in Workers : job'[v] = job[v] \/ Fits(job'[v])
  PROVE  CertsOK'
<1>1. Issued' = Issued
  BY DEF Issued
<1>2. AllGiven'
  BY <1>1 DEF CertsOK, AllGiven, Issued
<1>3. ASSUME NEW s \in Students PROVE CertOK(s)'
  BY <1>1, <1>3 DEF CertsOK, CertOK
<1>4. ASSUME NEW v \in Workers PROVE Fits(job'[v])
  BY <1>1, <1>4, IssuedFinite, StillFits
<1>5. ASSUME NEW v \in Workers PROVE Certifies(job[v])'
  BY <1>4 DEF Fits, Certifies
<1> QED
  BY <1>2, <1>3, <1>5 DEF CertsOK

\* The same where one thread goes on.
LEMMA CertsKept ==
  ASSUME Shape, CertsOK, [Next]_vars, stored \subseteq stored',
         \A s \in Students :
           /\ cert'[s].status = "none" <=> cert[s].status = "none"
           /\ cert'[s].number = cert[s].number
           /\ cert'[s].file => cert[s].file \/ (cert[s].status # "none" /\ cert[s].number \in stored),
         NEW w \in Workers, \A v \in Workers \ {w} : job'[v] = job[v], Fits(job'[w])
  PROVE  CertsOK'
BY CertsWhole

\* A step elsewhere.
LEMMA CertsQuiet ==
  ASSUME Shape, CertsOK, [Next]_vars, UNCHANGED <<cert, stored>>,
         NEW w \in Workers, \A v \in Workers \ {w} : job'[v] = job[v], job'[w].step \notin CertSteps
  PROVE  CertsOK'
<1>1. Fits(job'[w])
  BY DEF Fits, CertSteps
<1> QED
  BY <1>1, CertsKept

\* What a request on a certificate begins with fits.
LEMMA CertBeginsCerts ==
  ASSUME Shape, CertsOK, [Next]_vars, NEW w \in Workers, CertBegins(w)
  PROVE  CertsOK'
<1>1. UNCHANGED <<cert, stored, done>> /\ Issued' = Issued
  BY BeginsFrame DEF Begins, awards, study, Issued
<1>2. ASSUME NEW s \in Students, NEW op \in {"issue", "force"}, BeginIssue(w, s, op) PROVE Fits(job'[w])
  <2>1. op = "force" \/ done[s] = Lessons
    BY <1>2 DEF BeginIssue, IsEligible
  <2> QED
    BY <1>1, <1>2, <2>1, IssueBegins DEF Fits
<1>3. ASSUME NEW s \in Students, BeginRender(w, s) PROVE Fits(job'[w])
  <2>1. cert[s].status # "none"
    BY <1>3 DEF BeginRender
  <2> QED
    BY <1>1, <1>3, <2>1, RenderBegins DEF Fits
<1>4. Fits(job'[w])
  BY <1>2, <1>3 DEF CertBegins
<1> QED
  BY <1>1, <1>4, CertBeginsTurn, CertsKept

\* A new certificate takes the next number.
LEMMA InsertCerts ==
  ASSUME Shape, CertsOK, [Next]_vars, NEW w \in Workers, InsertCert(w), cert' # cert
  PROVE  CertsOK'
<1> DEFINE s == job[w].s
           n == job[w].n
<1>1. /\ At(w, "insert") /\ s \in Students /\ cert[s].status = "none" /\ ~NumberTaken(n)
      /\ cert' = [cert EXCEPT ![s] = [status |-> "issued", number |-> n, file |-> FALSE, forced |-> job[w].yes]]
      /\ UNCHANGED stored /\ \A v \in Workers \ {w} : job'[v] = job[v]
      /\ job'[w].step = "upload" /\ job'[w].s = s /\ job'[w].n = n
  BY InsertMoves
<1>2. n = Cardinality(Issued) + 1
  BY <1>1, NextFree
<1>3. /\ cert'[s].status = "issued" /\ cert'[s].number = n /\ ~cert'[s].file
      /\ \A t \in Students \ {s} : cert'[t] = cert[t]
  BY <1>1 DEF Shape, TypeOK
<1>4. \A t \in Students : cert[t].number # n
  BY <1>1 DEF NumberTaken
<1> HIDE DEF s, n
<1>5. Issued' = Issued \cup {s} /\ s \notin Issued
  BY <1>1, <1>3 DEF Issued
<1>6. Cardinality(Issued') = Cardinality(Issued) + 1
  BY <1>5, IssuedFinite, FS_AddElement
<1>7. Cardinality(Issued) \in Nat
  BY IssuedFinite
<1>8. AllGiven'
  <2>1. SUFFICES ASSUME NEW m \in 1..(Cardinality(Issued) + 1) PROVE \E t \in Issued' : cert'[t].number = m
    BY <1>6 DEF AllGiven
  <2>2. CASE m = n
    BY <1>3, <1>5, <2>2
  <2>3. CASE m # n
    <3>1. m \in 1..Cardinality(Issued)
      BY <1>2, <1>7, <2>3
    <3>2. PICK t \in Issued : cert[t].number = m
      BY <3>1 DEF CertsOK, AllGiven
    <3> QED
      BY <1>3, <1>5, <3>2 DEF Issued
  <2> QED
    BY <2>2, <2>3
<1>9. ASSUME NEW t \in Students PROVE CertOK(t)'
  <2>1. CertOK(t)
    BY DEF CertsOK
  <2>2. cert'[t].status = "none" => cert'[t].number = 0 /\ ~cert'[t].file
    BY <1>3, <2>1 DEF CertOK
  <2>3. cert'[t].status # "none" => cert'[t].number \in 1..Cardinality(Issued')
    BY <1>2, <1>3, <1>6, <1>7, <2>1 DEF CertOK
  <2>4. cert'[t].file => cert'[t].number \in stored'
    BY <1>1, <1>3, <2>1 DEF CertOK
  <2>5. \A u \in Students \ {t} : cert'[t].number # 0 => cert'[t].number # cert'[u].number
    BY <1>3, <1>4, <2>1 DEF CertOK
  <2> QED
    BY <2>2, <2>3, <2>4, <2>5 DEF CertOK
<1>10. Fits(job'[w])
  BY <1>1, <1>3 DEF Fits
<1>11. \A v \in Workers : Fits(job'[v])
  <2>1. \A t \in Students : cert[t].status # "none" => cert'[t].status # "none" /\ cert'[t].number = cert[t].number
    BY <1>1, <1>3
  <2>2. Cardinality(Issued') \in Nat /\ Cardinality(Issued) <= Cardinality(Issued') /\ stored \subseteq stored'
    BY <1>1, <1>6, <1>7
  <2>3. \A v \in Workers : Fits(job[v])
    BY <2>1, <2>2, StillFits
  <2> QED
    BY <1>1, <1>10, <2>3
<1>12. ASSUME NEW v \in Workers PROVE Certifies(job[v])'
  BY <1>11 DEF Fits, Certifies
<1> QED
  BY <1>8, <1>9, <1>12 DEF CertsOK

\* No step on a certificate makes a gap.
LEMMA CertStepCerts ==
  ASSUME Shape, CertsOK, [Next]_vars, NEW w \in Workers, CertStep(w)
  PROVE  CertsOK'
<1>1. CASE NextNumber(w)
  <2>1. UNCHANGED <<cert, stored, done>> /\ Issued' = Issued
    BY <1>1, NumberMoves DEF awards, study, Issued
  <2>2. job[w].step = "number" /\ (~job[w].yes => done[job[w].s] = Lessons)
    BY <1>1, NumberMoves DEF CertsOK, Certifies, At
  <2>3. Fits(job'[w])
    BY <1>1, <2>1, <2>2, NumberMoves, IssuedFinite DEF Fits
  <2> QED
    BY <1>1, <2>1, <2>3, NumberMoves, CertsKept
<1>2. CASE InsertCert(w)
  <2>1. CASE UNCHANGED cert
    <3>1. UNCHANGED <<cert, stored, done>> /\ Issued' = Issued
      BY <1>2, <2>1, InsertMoves DEF study, Issued
    <3>2. job[w].step = "insert" /\ (~job[w].yes => done[job[w].s] = Lessons) /\ job[w].s \in Students
      BY <1>2, InsertMoves DEF CertsOK, Certifies, At
    <3>3. \/ job'[w] = Idle
          \/ job'[w].step = "number" /\ job'[w].s = job[w].s /\ job'[w].yes = job[w].yes
      <4> DEFINE row == [status |-> "issued", number |-> job[w].n, file |-> FALSE, forced |-> job[w].yes]
      <4>1. row.status = "issued"
        OBVIOUS
      <4> HIDE DEF row
      <4>2. cert' = [cert EXCEPT ![job[w].s] = row] => cert[job[w].s].status # "none"
        BY <2>1, <3>2, <4>1 DEF Shape, TypeOK
      <4> QED
        BY <1>2, <4>2, InsertMoves DEF row
    <3>4. Fits(job'[w])
      BY <3>1, <3>2, <3>3, IdleJob DEF Fits
    <3> QED
      BY <1>2, <3>1, <3>4, InsertMoves, CertsKept
  <2>2. CASE cert' # cert
    BY <1>2, <2>2, InsertCerts
  <2> QED
    BY <2>1, <2>2
<1>3. CASE Upload(w)
  <2>1. UNCHANGED cert /\ stored' = stored \cup {job[w].n}
    BY <1>3, UploadMoves
  <2>2. cert[job[w].s].status # "none" /\ cert[job[w].s].number = job[w].n
    BY <1>3, UploadMoves DEF CertsOK, Certifies, At
  <2>3. Fits(job'[w])
    BY <1>3, <2>1, <2>2, UploadMoves DEF Fits
  <2> QED
    BY <1>3, <2>1, <2>3, UploadMoves, CertsKept
<1>4. CASE Stamp(w)
  <2> DEFINE s == job[w].s
  <2>1. s \in Students /\ cert' = [cert EXCEPT ![s].file = TRUE] /\ UNCHANGED stored
    BY <1>4, StampMoves
  <2>2. cert[s].status # "none" /\ cert[s].number \in stored
    BY <1>4, StampMoves DEF CertsOK, Certifies, At
  <2>3. \A t \in Students : cert'[t].status = cert[t].status /\ cert'[t].number = cert[t].number
    BY <2>1 DEF Shape, TypeOK, CertRows
  <2>4. \A t \in Students \ {s} : cert'[t] = cert[t]
    BY <2>1 DEF Shape, TypeOK
  <2> HIDE DEF s
  <2>5. Fits(job'[w])
    BY <1>4, StampMoves, IdleJob DEF Fits
  <2>6. \A t \in Students :
          cert'[t].file => cert[t].file \/ (cert[t].status # "none" /\ cert[t].number \in stored)
    BY <2>2, <2>4
  <2>7. stored \subseteq stored'
    BY <2>1
  <2> QED
    BY <1>4, <2>3, <2>5, <2>6, <2>7, StampMoves, CertsKept
<1> QED
  BY <1>1, <1>2, <1>3, <1>4 DEF CertStep

\* Numbers are given without a gap, each once, and only for what was checked.
LEMMA CertsNext ==
  ASSUME Shape, CertsOK, [Next]_vars
  PROVE  CertsOK'
<1>1. ASSUME UNCHANGED <<cert, stored, done, job>> PROVE CertsOK'
  BY <1>1 DEF CertsOK, AllGiven, CertOK, Certifies, Issued
<1>2. CASE UNCHANGED vars
  BY <1>1, <1>2 DEF vars, awards, study
<1>3. CASE Calendar
  BY <1>1, <1>3, CalendarKeepsShape DEF awards, study
<1>4. ASSUME NEW s \in Students, Around(s) PROVE CertsOK'
  <2>1. CASE Leave(s) \/ Pay(s)
    <3>1. UNCHANGED <<cert, stored, done, job>>
      BY <2>1 DEF Leave, Pay, AtOnce, awards, study
    <3> QED
      BY <1>1, <3>1
  <2>2. CASE Archive(s)
    <3>1. UNCHANGED <<stored, done, job>> /\ cert[s].status = "issued"
          /\ cert' = [cert EXCEPT ![s].status = "archived"]
      BY <2>2 DEF Archive, AtOnce, study
    <3>2. \A t \in Students :
            /\ cert'[t].status = "none" <=> cert[t].status = "none"
            /\ cert'[t].number = cert[t].number
            /\ cert'[t].file = cert[t].file
      BY <3>1 DEF Shape, TypeOK, CertRows
    <3>3. \A t \in Students :
            cert'[t].file => cert[t].file \/ (cert[t].status # "none" /\ cert[t].number \in stored)
      BY <3>2
    <3> QED
      BY <3>1, <3>2, <3>3, CertsWhole
  <2> QED
    BY <1>4, <2>1, <2>2 DEF Around
<1>5. ASSUME NEW w \in Workers, StudyBegins(w) \/ QuizBegins(w) PROVE CertsOK'
  <2>1. UNCHANGED <<cert, stored>>
    BY <1>5, BeginsFrame DEF Begins, awards
  <2>2. job'[w].step \notin CertSteps /\ \A v \in Workers \ {w} : job'[v] = job[v]
    BY <1>5, StudyBeginsTurn, QuizBeginsTurn DEF CertSteps, QuizSteps
  <2> QED
    BY <2>1, <2>2, CertsQuiet
<1>6. ASSUME NEW w \in Workers, Flush(w) PROVE CertsOK'
  <2>1. job'[w].step \notin CertSteps
    BY <1>6, FlushMoves, IdleJob DEF CertSteps
  <2> QED
    BY <1>6, <2>1, FlushMoves, CertsQuiet DEF awards
<1>7. ASSUME NEW w \in Workers, Commit(w) PROVE CertsOK'
  BY <1>7, CommitMoves, IdleJob, CertsQuiet DEF awards, CertSteps
<1>8. ASSUME NEW w \in Workers, QuizStep(w) \/ Ends(w) PROVE CertsOK'
  BY <1>8, QuizFrame, EndsFrame, IdleJob, CertsQuiet DEF awards, CertSteps
<1>9. ASSUME NEW w \in Workers, Wipe(w) PROVE CertsOK'
  BY <1>9, WipeMoves, CertsQuiet DEF awards, CertSteps
<1> QED
  BY <1>2, <1>3, <1>4, <1>5, <1>6, <1>7, <1>8, <1>9, CertBeginsCerts, CertStepCerts, Kinds
     DEF Begins, Acts, StudyStep

-----------------------------------------------------------------------------
(* Lessons: completed in order, and where they were attended.              *)

\* What a behaviour consists of and the class days stand; days only pass.
LEMMA DaysPass ==
  ASSUME Shape, CertsOK, [Next]_vars
  PROVE  UNCHANGED <<mix, class>> /\ today <= today'
<1>0. today \in Int
  BY ClassworkAssumption DEF Shape, TypeOK, Days
<1>1. CASE Calendar
  BY <1>0, <1>1 DEF Calendar, NextDay, IssueQr, ExpireQr
<1>2. UNCHANGED calendar => UNCHANGED <<mix, class>> /\ today <= today'
  BY <1>0 DEF calendar
<1>3. UNCHANGED vars => UNCHANGED calendar
  BY DEF vars, calendar
<1>4. ASSUME NEW s \in Students, Around(s) PROVE UNCHANGED calendar
  BY <1>4, AroundKeepsShape
<1>5. ASSUME NEW w \in Workers, Begins(w) \/ Flush(w) \/ Commit(w) \/ Wipe(w) \/ QuizStep(w) \/ CertStep(w)
               \/ Ends(w)
      PROVE  UNCHANGED calendar
  BY <1>5, BeginsFrame, FlushMoves, CommitMoves, WipeMoves, QuizFrame, CertFrame, EndsFrame
<1> QED
  BY <1>1, <1>2, <1>3, <1>4, <1>5, Kinds DEF Acts, StudyStep

\* Due, after the step.
DueAfter(s, l) ==
  \/ \A k \in 1..(l - 1) : k \in done'[s]
  \/ class'[l] # None /\ class'[l] <= today'

\* What is due stays due: lessons stay completed, and days only pass.
LEMMA DueStays ==
  ASSUME Shape, CertsOK, [Next]_vars, NEW s \in Students, NEW l \in Lessons, Due(s, l)
  PROVE  DueAfter(s, l)
<1>1. class[l] # None => class[l] \in Int
  BY ClassworkAssumption DEF Shape, TypeOK, Days
<1>2. today \in Int /\ today' \in Int
  <2>1. Shape'
    BY ShapeNext
  <2> QED
    BY <2>1, ClassworkAssumption DEF Shape, TypeOK, Days
<1> QED
  BY <1>1, <1>2, DaysPass, DoneGrows DEF Due, DueAfter

\* Studies, of a job after the step.
StudiesAfter(j) ==
  j.step \in StudySteps =>
    /\ DueAfter(j.s, j.i)
    /\ j.op # "mark" => j.yes
    /\ j.step = "flush" /\ j.op = "scan" => j.k = 1
    /\ j.step = "commit" /\ ~CheckIn(j) => j.adds
    /\ Stayed /\ j.step = "flush" /\ CheckIn(j) => j.s \in enrolled'
    /\ Stayed /\ j.step = "commit" /\ CheckIn(j) /\ j.yes => j.adds

\* Where it matters, nobody leaves while attendance is being taken.
LEMMA LeaveAlone ==
  ASSUME Stayed, NEW s \in Students, Around(s), NEW w \in Workers
  PROVE  At(w, "idle") \/ UNCHANGED enrolled
<1>1. CASE Leave(s)
  BY <1>1 DEF Stayed, Leave, AtOnce, Admitted
<1>2. CASE Pay(s) \/ Archive(s)
  BY <1>2 DEF Pay, Archive, study
<1> QED
  BY <1>1, <1>2 DEF Around

\* Where it matters, who is being taught is not removed meanwhile.
LEMMA EnrolledStays ==
  ASSUME Shape, CertsOK, [Next]_vars, Stayed, NEW w \in Workers, ~At(w, "idle")
  PROVE  UNCHANGED enrolled
<1>1. UNCHANGED study => UNCHANGED enrolled
  BY DEF study
<1>2. Calendar \/ UNCHANGED vars => UNCHANGED study
  BY CalendarKeepsShape DEF vars, study
<1>3. ASSUME NEW s \in Students, Around(s) PROVE UNCHANGED enrolled
  BY <1>3, LeaveAlone
<1>4. ASSUME NEW v \in Workers, Begins(v) \/ Flush(v) \/ Wipe(v) \/ QuizStep(v) \/ CertStep(v) \/ Ends(v)
      PROVE  UNCHANGED study
  BY <1>4, BeginsFrame, FlushMoves, WipeMoves, QuizFrame, CertFrame, EndsFrame
<1>5. ASSUME NEW v \in Workers, Commit(v) PROVE UNCHANGED enrolled
  BY <1>5, CommitMoves
<1> QED
  BY <1>1, <1>2, <1>3, <1>4, <1>5, Kinds DEF Acts, StudyStep

\* What a thread does on a lesson is as due after a step as before.
LEMMA StudyGoesOn ==
  ASSUME Shape, CertsOK, StudyOK, [Next]_vars, NEW v \in Workers
  PROVE  StudiesAfter(job[v])
<1> DEFINE j == job[v]
<1>1. CASE j.step \in StudySteps
  <2>1. Studies(j) /\ j.s \in Students /\ j.i \in Lessons
    BY <1>1 DEF StudyOK, Shape, Named
  <2>2. DueAfter(j.s, j.i)
    BY <1>1, <2>1, DueStays DEF Studies
  <2>3. Stayed => UNCHANGED enrolled
    BY <1>1, EnrolledStays DEF StudySteps, At
  <2>4. Stayed /\ j.step = "flush" /\ CheckIn(j) => j.s \in enrolled'
    BY <1>1, <2>1, <2>3 DEF Studies
  <2>5. /\ j.op # "mark" => j.yes
        /\ j.step = "flush" /\ j.op = "scan" => j.k = 1
        /\ j.step = "commit" /\ ~CheckIn(j) => j.adds
        /\ Stayed /\ j.step = "commit" /\ CheckIn(j) /\ j.yes => j.adds
    BY <1>1, <2>1, Zenon DEF Studies
  <2> QED
    BY <2>2, <2>4, <2>5 DEF StudiesAfter
<1>2. CASE j.step \notin StudySteps
  BY <1>2 DEF StudiesAfter
<1> QED
  BY <1>1, <1>2

\* The parts of StudyOK, after the step.
LEMMA StudyWhole ==
  ASSUME Shape, CertsOK, StudyOK, [Next]_vars,
         \A l \in Lessons : qr'[l] # "none" => class'[l] # None /\ class'[l] <= today',
         \A s \in Students : note'[s] \subseteq done'[s] /\ \A l \in done'[s] : DueAfter(s, l),
         \A v \in Workers : job'[v] = job[v] \/ StudiesAfter(job'[v]),
         \A v \in Workers : ScansFirst(v)',
         Stayed => \A s \in Students, l \in Lessons : attendance'[s][l].status = "attended" => l \in done'[s]
  PROVE  StudyOK'
<1>1. \A v \in Workers : StudiesAfter(job'[v])
  BY StudyGoesOn
<1>2. Stayed' <=> Stayed
  BY DaysPass DEF Stayed, Alone
<1>3. ASSUME NEW v \in Workers PROVE Studies(job[v])'
  BY <1>1, <1>2 DEF StudiesAfter, Studies, DueAfter, Due
<1>4. AttendedIsDone'
  BY <1>2 DEF AttendedIsDone
<1>5. \A s \in Students : \A l \in done'[s] : Due(s, l)'
  BY DEF DueAfter, Due
<1> QED
  BY <1>3, <1>4, <1>5 DEF StudyOK

\* The code on the screen is that of a class whose day has come.
LEMMA CodesInTime ==
  ASSUME Shape, CertsOK, StudyOK, [Next]_vars, NEW l \in Lessons, qr'[l] # "none"
  PROVE  class'[l] # None /\ class'[l] <= today'
<1>1. today \in Int /\ today' \in Int /\ (class[l] # None => class[l] \in Int)
  <2>1. Shape'
    BY ShapeNext
  <2> QED
    BY <2>1, ClassworkAssumption DEF Shape, TypeOK, Days
<1>2. CASE qr[l] # "none"
  BY <1>1, <1>2, DaysPass DEF StudyOK
<1>3. CASE UNCHANGED qr
  BY <1>2, <1>3
<1>4. CASE Calendar
  <2>1. CASE NextDay \/ \E m \in Lessons : ExpireQr(m)
    <3>1. qr[l] # "none"
      BY <2>1 DEF NextDay, ExpireQr, Shape, TypeOK
    <3> QED
      BY <1>2, <3>1
  <2>2. ASSUME NEW m \in Lessons, IssueQr(m) PROVE class'[l] # None /\ class'[l] <= today'
    <3>1. CASE l = m
      <4>1. class[l] = today /\ UNCHANGED <<today, class>>
        BY <2>2, <3>1 DEF IssueQr
      <4> QED
        BY <1>1, <4>1, ClassworkAssumption
    <3>2. CASE l # m
      BY <1>2, <2>2, <3>2 DEF IssueQr, Shape, TypeOK
    <3> QED
      BY <3>1, <3>2
  <2> QED
    BY <1>4, <2>1, <2>2 DEF Calendar
<1>5. UNCHANGED calendar \/ UNCHANGED vars => UNCHANGED qr
  BY DEF calendar, vars
<1>6. ASSUME NEW s \in Students, Around(s) PROVE UNCHANGED calendar
  BY <1>6, AroundKeepsShape
<1>7. ASSUME NEW w \in Workers, Begins(w) \/ Flush(w) \/ Commit(w) \/ Wipe(w) \/ QuizStep(w) \/ CertStep(w)
               \/ Ends(w)
      PROVE  UNCHANGED calendar
  BY <1>7, BeginsFrame, FlushMoves, CommitMoves, WipeMoves, QuizFrame, CertFrame, EndsFrame
<1> QED
  BY <1>3, <1>4, <1>5, <1>6, <1>7, Kinds DEF Acts, StudyStep

\* A step elsewhere leaves the lessons and those at work on them as they are.
LEMMA StudyQuiet ==
  ASSUME Shape, CertsOK, StudyOK, [Next]_vars, UNCHANGED <<attendance, done, note>>,
         \A v \in Workers : job'[v] = job[v] \/ job'[v].step \notin StudySteps
  PROVE  StudyOK'
<1>1. \A s \in Students : note'[s] \subseteq done'[s] /\ \A l \in done'[s] : DueAfter(s, l)
  BY DueStays DEF StudyOK, Shape, TypeOK
<1>2. \A v \in Workers : job'[v] = job[v] \/ StudiesAfter(job'[v])
  BY DEF StudiesAfter
<1>3. \A v \in Workers : ScansFirst(v)'
  BY DEF StudyOK, ScansFirst, At, StudySteps
<1>4. Stayed => \A s \in Students, l \in Lessons : attendance'[s][l].status = "attended" => l \in done'[s]
  BY DEF StudyOK, AttendedIsDone
<1> QED
  BY <1>1, <1>2, <1>3, <1>4, CodesInTime, StudyWhole

\* A thread that begins, or goes on to its commit, with what it has seen.
LEMMA StudyMoves ==
  ASSUME Shape, CertsOK, StudyOK, [Next]_vars, UNCHANGED <<attendance, done, note>>,
         NEW w \in Workers, \A v \in Workers \ {w} : job'[v] = job[v], StudiesAfter(job'[w]),
         \A v \in Workers : ScansFirst(v)'
  PROVE  StudyOK'
<1>1. \A s \in Students : note'[s] \subseteq done'[s] /\ \A l \in done'[s] : DueAfter(s, l)
  BY DueStays DEF StudyOK, Shape, TypeOK
<1>2. \A v \in Workers : job'[v] = job[v] \/ StudiesAfter(job'[v])
  OBVIOUS
<1>4. Stayed => \A s \in Students, l \in Lessons : attendance'[s][l].status = "attended" => l \in done'[s]
  BY DEF StudyOK, AttendedIsDone
<1> QED
  BY <1>1, <1>2, <1>4, CodesInTime, StudyWhole

\* A request on a lesson begins where the lesson is due.
LEMMA BeginsDue ==
  ASSUME Shape, CertsOK, StudyOK, [Next]_vars, NEW w \in Workers, StudyBegins(w)
  PROVE  StudiesAfter(job'[w])
<1>1. UNCHANGED enrolled
  BY BeginsFrame DEF Begins, study
<1>2. ASSUME NEW s \in Students, NEW l \in Lessons, BeginScan(w, s, l) PROVE StudiesAfter(job'[w])
  <2>1. Due(s, l) /\ s \in enrolled
    BY <1>2 DEF BeginScan, StudyOK, Due
  <2> QED
    BY <1>1, <1>2, <2>1, DueStays, ScanBegins DEF StudiesAfter
<1>3. ASSUME NEW s \in Students, NEW l \in Lessons, NEW attended \in BOOLEAN, BeginMark(w, s, l, attended)
      PROVE  StudiesAfter(job'[w])
  <2>1. Due(s, l) /\ s \in enrolled
    BY <1>3 DEF BeginMark, Due
  <2> QED
    BY <1>1, <1>3, <2>1, DueStays, MarkBegins DEF StudiesAfter, CheckIn
<1>4. ASSUME NEW s \in Students, NEW l \in Lessons, \E op \in {"complete", "note"} : BeginLesson(w, s, l, op)
      PROVE  StudiesAfter(job'[w])
  <2>1. ~Gated(s, l) /\ s \in enrolled
    BY <1>4, LessonBegins
  <2>2. Due(s, l)
    <3>1. class[l] # None => class[l] \in Int
      BY ClassworkAssumption DEF Shape, TypeOK, Days
    <3>2. today \in Int
      BY ClassworkAssumption DEF Shape, TypeOK, Days
    <3> QED
      BY <2>1, <3>1, <3>2 DEF Gated, Due
  <2> QED
    BY <1>1, <1>4, <2>1, <2>2, DueStays, LessonBegins DEF StudiesAfter, CheckIn
<1> QED
  BY <1>2, <1>3, <1>4 DEF StudyBegins

\* A request on a lesson begins without writing.
LEMMA BeginsStudy ==
  ASSUME Shape, CertsOK, StudyOK, [Next]_vars, NEW w \in Workers, StudyBegins(w)
  PROVE  StudyOK'
<1>1. UNCHANGED <<attendance, done, note>>
  BY BeginsFrame DEF Begins, study
<1>2. job'[w].step = "flush" /\ \A v \in Workers \ {w} : job'[v] = job[v]
  BY StudyBeginsTurn
<1>3. ASSUME NEW v \in Workers PROVE ScansFirst(v)'
  BY <1>1, <1>2 DEF StudyOK, ScansFirst, At
<1> QED
  BY <1>1, <1>2, <1>3, BeginsDue, StudyMoves

\* Until its commit a scan keeps others from recording the same class.
LEMMA FlushStudy ==
  ASSUME Shape, CertsOK, StudyOK, [Next]_vars, NEW w \in Workers, Flush(w)
  PROVE  StudyOK'
<1> DEFINE j == job[w]
           h == job'[w]
<1>1. /\ UNCHANGED <<attendance, done, note, enrolled>> /\ ~Blocked(w) /\ j.step = "flush"
      /\ \A v \in Workers \ {w} : job'[v] = job[v]
  BY FlushMoves DEF study, At
<1>2. CASE h = Idle
  BY <1>1, <1>2, IdleJob, StudyQuiet DEF StudySteps
<1>3. CASE h # Idle
  <2>1. /\ ~Refused(j)
        /\ h.step = "commit" /\ h.op = j.op /\ h.s = j.s /\ h.i = j.i /\ h.yes = j.yes
        /\ h.adds <=> Completes(j)
    BY <1>3, FlushMoves
  <2>2. Studies(j) /\ j.s \in Students /\ j.i \in Lessons
    BY <1>1 DEF StudyOK, Shape, Named, StudySteps
  <2>3. StudiesAfter(j)
    BY StudyGoesOn
  <2>4. CheckIn(h) <=> CheckIn(j)
    BY <2>1 DEF CheckIn
  <2>5. ~CheckIn(j) => j.yes
    BY <1>1, <2>2 DEF Studies, CheckIn, StudySteps
  <2>6. StudiesAfter(h)
    <3>1. DueAfter(h.s, h.i)
      BY <1>1, <2>1, <2>3 DEF StudiesAfter, StudySteps
    <3>2. h.op # "mark" => h.yes
      BY <1>1, <2>1, <2>2 DEF Studies, StudySteps
    <3>3. ~CheckIn(h) => h.adds
      BY <2>1, <2>4, <2>5 DEF Completes
    <3>4. Stayed /\ CheckIn(j) => j.s \in enrolled
      BY <1>1, <2>2 DEF Studies, StudySteps
    <3>5. Stayed /\ CheckIn(h) /\ h.yes => h.adds
      BY <2>1, <2>4, <3>4 DEF Completes
    <3> HIDE DEF h
    <3> QED
      BY <2>1, <3>1, <3>2, <3>3, <3>5 DEF StudiesAfter
  <2>7. ASSUME NEW v \in Workers \ {w}, At(v, "commit"), CheckIn(job[v]), CheckIn(j)
        PROVE  ~Same(job[v], j)
    BY <1>1, <2>7 DEF Blocked, Same, CheckIn
  <2>8. ScansFirst(w)'
    <3>1. j.op = "scan" => attendance[j.s][j.i].status = "none"
      BY <1>1, <2>1, <2>2 DEF Studies, StudySteps, Refused, CheckIn
    <3>2. ASSUME h.op = "scan", NEW v \in Workers \ {w}, job'[v].step = "commit", CheckIn(job'[v])
          PROVE  ~Same(job'[v], h)
      BY <1>1, <2>1, <2>7, <3>2 DEF At, CheckIn, Same
    <3> QED
      BY <1>1, <2>1, <3>1, <3>2 DEF ScansFirst, At
  <2>9. ASSUME NEW v \in Workers \ {w} PROVE ScansFirst(v)'
    <3>1. SUFFICES ASSUME job[v].step = "commit", job[v].op = "scan"
                   PROVE  /\ attendance[job[v].s][job[v].i].status = "none"
                          /\ \A u \in Workers \ {v} : job'[u].step = "commit" /\ CheckIn(job'[u]) => ~Same(job'[u], job[v])
      BY <1>1 DEF ScansFirst, At
    <3>2. ScansFirst(v)
      BY DEF StudyOK
    <3>3. CheckIn(h) => ~Same(h, job[v])
      BY <2>1, <2>4, <2>7, <3>1 DEF At, CheckIn, Same
    <3> QED
      BY <1>1, <3>1, <3>2, <3>3 DEF ScansFirst, At
  <2> QED
    BY <1>1, <2>6, <2>8, <2>9, StudyMoves
<1> QED
  BY <1>2, <1>3

\* A commit records what the request was about, and nothing else.
LEMMA CommitStudy ==
  ASSUME Shape, CertsOK, StudyOK, [Next]_vars, NEW w \in Workers, Commit(w)
  PROVE  StudyOK'
<1> DEFINE j == job[w]
<1>1. /\ j.step = "commit" /\ j.s \in Students /\ j.i \in Lessons /\ j \in Jobs
      /\ job'[w] = Idle /\ \A v \in Workers \ {w} : job'[v] = job[v]
  BY CommitMoves DEF At
<1>2. Studies(j) /\ StudiesAfter(j)
  BY StudyGoesOn DEF StudyOK
<1>3. /\ attendance' = IF CheckIn(j) THEN [attendance EXCEPT ![j.s][j.i] = Record(j)] ELSE attendance
      /\ note' = IF j.op = "note" THEN [note EXCEPT ![j.s] = @ \cup {j.i}] ELSE note
      /\ done' = IF j.adds THEN [done EXCEPT ![j.s] = @ \cup {j.i}] ELSE done
  BY DEF Commit, Completed
<1>4. ScansFirst(w)' /\ \A v \in Workers \ {w} : ScansFirst(v)
  BY <1>1, IdleJob DEF ScansFirst, At, StudyOK
<1>5. attendance \in [Students -> [Lessons -> AttendanceRows]] /\ done \in [Students -> SUBSET Lessons]
      /\ note \in [Students -> SUBSET Lessons]
  BY DEF Shape, TypeOK
<1> HIDE DEF j
<1>6. \A s \in Students : \A l \in done'[s] : l \in done[s] \/ (s = j.s /\ l = j.i)
  BY <1>1, <1>3, <1>5
<1>7. ASSUME NEW s \in Students PROVE note'[s] \subseteq done'[s] /\ \A l \in done'[s] : DueAfter(s, l)
  <2>1. \A l \in done'[s] : DueAfter(s, l)
    BY <1>1, <1>2, <1>5, <1>6, DueStays DEF StudyOK, StudiesAfter, StudySteps
  <2>2. j.op = "note" => j.adds
    BY <1>1, <1>2 DEF Studies, CheckIn, StudySteps
  <2>3. note[s] \subseteq done[s]
    BY DEF StudyOK
  <2>4. note'[s] \subseteq done'[s]
    BY <1>1, <1>3, <1>5, <2>2, <2>3
  <2> QED
    BY <2>1, <2>4
<1>8. ASSUME NEW s \in Students, NEW l \in Lessons, s # j.s \/ l # j.i PROVE attendance'[s][l] = attendance[s][l]
  BY <1>1, <1>3, <1>5, <1>8
<1>9. ASSUME NEW v \in Workers \ {w} PROVE ScansFirst(v)'
  <2>1. SUFFICES ASSUME job[v].step = "commit", job[v].op = "scan"
                 PROVE  /\ attendance'[job[v].s][job[v].i].status = "none"
                        /\ \A u \in Workers \ {v} : job'[u].step = "commit" /\ CheckIn(job'[u]) => ~Same(job'[u], job[v])
    BY <1>1 DEF ScansFirst, At
  <2>2. /\ attendance[job[v].s][job[v].i].status = "none"
        /\ \A u \in Workers \ {v} : job[u].step = "commit" /\ CheckIn(job[u]) => ~Same(job[u], job[v])
    BY <1>4, <2>1 DEF ScansFirst, At
  <2>3. CheckIn(j) => ~Same(j, job[v])
    BY <1>1, <2>2 DEF j
  <2>4. job[v].s \in Students /\ job[v].i \in Lessons
    BY <2>1 DEF Shape, Named, StudySteps
  <2>5. attendance'[job[v].s][job[v].i] = attendance[job[v].s][job[v].i]
    BY <1>3, <1>8, <2>3, <2>4 DEF Same
  <2>6. \A u \in Workers \ {v} : job'[u].step = "commit" => u # w
    BY <1>1, IdleJob
  <2> QED
    BY <1>1, <2>2, <2>5, <2>6
<1>10. Stayed => \A s \in Students, l \in Lessons : attendance'[s][l].status = "attended" => l \in done'[s]
  <2>1. SUFFICES ASSUME Stayed, NEW s \in Students, NEW l \in Lessons, attendance'[s][l].status = "attended"
                 PROVE  l \in done'[s]
    OBVIOUS
  <2>2. CASE attendance[s][l].status = "attended"
    BY <2>1, <2>2, DoneGrows DEF StudyOK, AttendedIsDone
  <2>3. CASE attendance[s][l].status # "attended"
    <3>1. CheckIn(j) /\ s = j.s /\ l = j.i
      BY <1>3, <1>8, <2>1, <2>3
    <3>2. attendance'[s][l] = Record(j)
      BY <1>3, <1>5, <3>1
    <3>3. j.yes
      BY <2>1, <3>2 DEF Record
    <3>4. j.adds
      BY <1>1, <1>2, <2>1, <3>1, <3>3 DEF Studies, StudySteps
    <3> QED
      BY <1>3, <1>5, <3>1, <3>4
  <2> QED
    BY <2>2, <2>3
<1>11. \A v \in Workers : job'[v] = job[v] \/ StudiesAfter(job'[v])
  BY <1>1, IdleJob DEF StudiesAfter, StudySteps
<1>12. \A v \in Workers : ScansFirst(v)'
  BY <1>4, <1>9
<1> QED
  BY <1>7, <1>10, <1>11, <1>12, CodesInTime, StudyWhole

\* However scans, marks, notes and completions interleave, lessons are completed in
\* order, and attendance completes them.
LEMMA StudyNext ==
  ASSUME Shape, CertsOK, StudyOK, [Next]_vars
  PROVE  StudyOK'
<1>1. UNCHANGED study => UNCHANGED <<attendance, done, note>>
  BY DEF study
<1>2. CASE UNCHANGED vars
  BY <1>1, <1>2, StudyQuiet DEF vars, study
<1>3. CASE Calendar
  BY <1>1, <1>3, CalendarKeepsShape, StudyQuiet
<1>4. ASSUME NEW s \in Students, Around(s) PROVE StudyOK'
  BY <1>4, AroundKeepsShape, StudyQuiet
<1>5. ASSUME NEW w \in Workers, UNCHANGED study, \A v \in Workers \ {w} : job'[v] = job[v],
             job'[w].step \notin StudySteps
      PROVE  StudyOK'
  BY <1>1, <1>5, StudyQuiet
<1>6. ASSUME NEW w \in Workers, QuizBegins(w) PROVE StudyOK'
  BY <1>5, <1>6, BeginsFrame, QuizBeginsTurn DEF Begins, QuizSteps, StudySteps
<1>7. ASSUME NEW w \in Workers, CertBegins(w) PROVE StudyOK'
  BY <1>5, <1>7, BeginsFrame, CertBeginsTurn DEF Begins, StudySteps
<1>8. ASSUME NEW w \in Workers, QuizStep(w) \/ Ends(w) PROVE StudyOK'
  BY <1>5, <1>8, QuizFrame, EndsFrame, IdleJob DEF StudySteps
<1>9. ASSUME NEW w \in Workers, CertStep(w) PROVE StudyOK'
  BY <1>5, <1>9, CertFrame DEF StudySteps, CertSteps
<1>10. ASSUME NEW w \in Workers, Wipe(w) PROVE StudyOK'
  BY <1>5, <1>10, WipeMoves DEF StudySteps
<1> QED
  BY <1>2, <1>3, <1>4, <1>6, <1>7, <1>8, <1>9, <1>10, BeginsStudy, FlushStudy, CommitStudy, Kinds
     DEF Begins, Acts, StudyStep

-----------------------------------------------------------------------------
(* One request at a time.                                                  *)

\* Who acts is alone.
LEMMA Turns ==
  ASSUME Shape, CertsOK, Alone, OneBusy, NEW w \in Workers, Begins(w) \/ Acts(w)
  PROVE  /\ \A v \in Workers \ {w} : job'[v] = job[v] /\ job[v].step = "idle"
         /\ OneBusy'
<1>1. Begins(w) => \A v \in Workers \ {w} : job'[v] = job[v] /\ job[v].step = "idle"
  BY BeginsTurn DEF At
<1>2. ASSUME Acts(w) PROVE \A v \in Workers \ {w} : job'[v] = job[v] /\ job[v].step = "idle"
  <2>1. ~At(w, "idle") /\ \A v \in Workers \ {w} : job'[v] = job[v]
    BY <1>2, FlushMoves, CommitMoves, WipeMoves, QuizFrame, CertFrame, EndsFrame
       DEF Acts, StudyStep, At, QuizSteps, CertSteps
  <2> QED
    BY <2>1 DEF OneBusy, At
<1>3. \A v \in Workers \ {w} : job'[v] = job[v] /\ job[v].step = "idle"
  BY <1>1, <1>2
<1> QED
  BY <1>3 DEF OneBusy, At

\* An idle thread relies on nothing.
LEMMA IdleStill ==
  ASSUME NEW w \in Workers, job'[w].step = "idle"
  PROVE  StillTrue(job[w])'
BY DEF StillTrue

\* What a request has read still holds when its step leaves the tables alone.
LEMMA ReadStill ==
  ASSUME UNCHANGED <<study, exams, paid>>, NEW w \in Workers, StillTrue(job'[w])
  PROVE  StillTrue(job[w])'
<1>1. UNCHANGED <<enrolled, done, progress, quiz, attempt, paid>>
  BY DEF study, exams
<1>2. job'[w].step = "flush" => job'[w].n = progress'[job'[w].s]
  BY <1>1 DEF StillTrue
<1>3. job'[w].step = "commit" =>
        /\ job'[w].adds => job'[w].n = Counted(job[w].s, job[w].i)'
        /\ job'[w].k = 1 <=> job'[w].adds /\ job'[w].n # progress'[job'[w].s]
  BY <1>1 DEF StillTrue, Counted
<1>4. job'[w].step = "quiz" /\ job'[w].yes => ~Clashes(job[w].i)'
  <2>1. Active' = Active
    BY <1>1 DEF Active
  <2> QED
    BY <2>1 DEF StillTrue, Clashes
<1>5. job'[w].step \in {"replace", "drop"} => MayChange(job[w].i, job[w].yes)'
  <2>1. AttemptsOf(job[w].i)' = AttemptsOf(job'[w].i)
    BY <1>1 DEF AttemptsOf
  <2> QED
    BY <2>1 DEF StillTrue, MayChange
<1>6. job'[w].step = "start" =>
        /\ OpenOf(job[w].s, job[w].i)' = {} /\ AttemptsLeft(job[w].s, job[w].i)'
        /\ job'[w].k = quiz'[job'[w].i].limit
  <2>1. /\ OpenOf(job[w].s, job[w].i)' = OpenOf(job'[w].s, job'[w].i)
        /\ FinishedOf(job[w].s, job[w].i)' = FinishedOf(job'[w].s, job'[w].i)
    BY <1>1 DEF OpenOf, FinishedOf, AttemptsOf
  <2> QED
    BY <1>1, <2>1 DEF StillTrue, AttemptsLeft
<1>8. job'[w].step = "swap" => job'[w].rows = {} \/ job'[w].yes
  BY DEF StillTrue
<1>7. job'[w].step \in {"number", "insert"} /\ ~job'[w].yes => IsEligible(job[w].s)'
  <2>1. QuizzesPassed(job'[w].s) => QuizzesPassed(job[w].s)'
    BY <1>1 DEF QuizzesPassed, FinishedOf, AttemptsOf, Live, LowestOf
  <2> QED
    BY <1>1, <2>1 DEF StillTrue, IsEligible
<1> QED
  BY <1>2, <1>3, <1>4, <1>5, <1>6, <1>7, <1>8 DEF StillTrue

\* The parts of AloneOK, after a step of one thread.
LEMMA AloneWhole ==
  ASSUME Shape, CertsOK, [Next]_vars, Alone, AloneOK, NEW w \in Workers, Begins(w) \/ Acts(w),
         StillTrue(job[w])', ProgressCounts', OneActive', FewAttempts'
  PROVE  AloneOK'
<1>1. OneBusy
  BY DEF AloneOK
<1>2. \A v \in Workers : StillTrue(job[v])'
  BY <1>1, Turns, IdleStill
<1> QED
  BY <1>1, <1>2, Turns DEF AloneOK

\* Limits stay where their tables do.
LEMMA LimitsKept ==
  ASSUME Alone, AloneOK
  PROVE  /\ UNCHANGED <<done, progress>> => ProgressCounts'
         /\ UNCHANGED quiz => OneActive'
         /\ UNCHANGED attempt => FewAttempts'
<1>1. UNCHANGED <<done, progress>> => ProgressCounts'
  BY DEF AloneOK, ProgressCounts
<1>2. UNCHANGED quiz => OneActive'
  BY DEF AloneOK, OneActive, Active
<1>3. ASSUME UNCHANGED attempt PROVE FewAttempts'
  <2>1. ASSUME NEW a \in Attempts PROVE UpTo(a)' = UpTo(a) /\ (Used(a)' <=> Used(a))
    BY <1>3 DEF UpTo, AttemptsOf, Used
  <2> QED
    BY <1>3, <2>1 DEF AloneOK, FewAttempts
<1> QED
  BY <1>1, <1>2, <1>3

\* What a request reads as it begins.
LEMMA BeginsStill ==
  ASSUME Shape, NEW w \in Workers, Begins(w)
  PROVE  StillTrue(job'[w])
<1>1. ASSUME NEW s \in Students, NEW l \in Lessons, BeginScan(w, s, l) PROVE StillTrue(job'[w])
  BY <1>1, ScanBegins DEF StillTrue
<1>2. ASSUME NEW s \in Students, NEW l \in Lessons, NEW attended \in BOOLEAN, BeginMark(w, s, l, attended)
      PROVE  StillTrue(job'[w])
  BY <1>2, MarkBegins DEF StillTrue
<1>3. ASSUME NEW s \in Students, NEW l \in Lessons, \E op \in {"complete", "note"} : BeginLesson(w, s, l, op)
      PROVE  StillTrue(job'[w])
  BY <1>3, LessonBegins DEF StillTrue
<1>4. ASSUME NEW q \in Quizzes \cup {0}, NEW active \in BOOLEAN, NEW limit \in Nat, NEW mark \in 0..100,
             BeginQuiz(w, q, active, limit, mark)
      PROVE  StillTrue(job'[w])
  <2>1. active => ~Clashes(q)
    BY <1>4 DEF BeginQuiz
  <2>2. job'[w].step = "quiz" /\ job'[w].i = q /\ job'[w].yes = active
    BY <1>4, QuizSaveBegins
  <2> QED
    BY <2>1, <2>2 DEF StillTrue
<1>5. ASSUME NEW q \in Quizzes, NEW op \in {"replace", "drop"}, NEW force \in BOOLEAN, BeginChange(w, q, op, force)
      PROVE  StillTrue(job'[w])
  <2>1. MayChange(q, force)
    BY <1>5 DEF BeginChange
  <2> QED
    BY <1>5, <2>1, ChangeBegins DEF StillTrue, MayChange
<1>6. ASSUME NEW q \in Quizzes, NEW s \in Students, BeginAttempt(w, s, q) PROVE StillTrue(job'[w])
  <2>1. OpenOf(s, q) = {} /\ AttemptsLeft(s, q)
    BY <1>6 DEF BeginAttempt
  <2> QED
    BY <1>6, <2>1, AttemptBegins DEF StillTrue
<1>7. ASSUME NEW a \in Attempts, NEW k \in Questions, NEW right \in BOOLEAN, BeginAnswer(w, a, k, right)
      PROVE  StillTrue(job'[w])
  BY <1>7, AnswerBegins DEF StillTrue
<1>8. ASSUME NEW a \in Attempts, BeginFinish(w, a) PROVE StillTrue(job'[w])
  BY <1>8, FinishBegins DEF StillTrue
<1>9. ASSUME NEW s \in Students, NEW op \in {"issue", "force"}, BeginIssue(w, s, op) PROVE StillTrue(job'[w])
  <2>1. op = "force" \/ IsEligible(s)
    BY <1>9 DEF BeginIssue
  <2> QED
    BY <1>9, <2>1, IssueBegins DEF StillTrue
<1>10. ASSUME NEW s \in Students, BeginRender(w, s) PROVE StillTrue(job'[w])
  BY <1>10, RenderBegins DEF StillTrue
<1>11. CASE StudyBegins(w)
  BY <1>1, <1>2, <1>3, <1>11 DEF StudyBegins
<1>12. CASE QuizBegins(w)
  BY <1>4, <1>5, <1>6, <1>7, <1>8, <1>12 DEF QuizBegins
<1>13. CASE CertBegins(w)
  BY <1>9, <1>10, <1>13 DEF CertBegins
<1> QED
  BY <1>11, <1>12, <1>13 DEF Begins

\* The progress a request writes is the number of lessons it leaves completed.
LEMMA FlushAlone ==
  ASSUME Shape, CertsOK, [Next]_vars, Alone, AloneOK, NEW w \in Workers, Flush(w)
  PROVE  AloneOK'
<1>1. UNCHANGED <<study, exams, paid>>
  BY FlushMoves DEF awards
<1>2. StillTrue(job'[w])
  <2>1. CASE job'[w] = Idle
    BY <2>1, IdleJob DEF StillTrue
  <2>2. CASE job'[w] # Idle
    <3>1. StillTrue(job[w]) /\ job[w].step = "flush"
      BY FlushMoves DEF AloneOK, At
    <3>2. job[w].n = progress[job[w].s]
      BY <3>1 DEF StillTrue
    <3> QED
      BY <2>2, <3>2, FlushMoves DEF StillTrue
  <2> QED
    BY <2>1, <2>2
<1>3. StillTrue(job[w])'
  BY <1>1, <1>2, ReadStill
<1> QED
  BY <1>1, <1>3, AloneWhole, LimitsKept DEF Acts, StudyStep, study, exams

\* A commit writes the progress together with the lesson it counts.
LEMMA CommitAlone ==
  ASSUME Shape, CertsOK, [Next]_vars, Alone, AloneOK, NEW w \in Workers, Commit(w)
  PROVE  AloneOK'
<1> DEFINE j == job[w]
<1>1. /\ j.step = "commit" /\ j.s \in Students /\ j.i \in Lessons
      /\ UNCHANGED exams /\ job'[w].step = "idle"
  BY CommitMoves, IdleJob DEF At
<1>2. /\ done' = IF j.adds THEN [done EXCEPT ![j.s] = @ \cup {j.i}] ELSE done
      /\ progress' = IF j.k = 1 THEN [progress EXCEPT ![j.s] = j.n] ELSE progress
  BY DEF Commit, Completed
<1>3. /\ j.adds => j.n = Counted(j.s, j.i)
      /\ j.k = 1 <=> j.adds /\ j.n # progress[j.s]
  BY <1>1 DEF AloneOK, StillTrue
<1>4. done \in [Students -> SUBSET Lessons] /\ progress \in [Students -> 0..NumLessons]
  BY DEF Shape, TypeOK
<1> HIDE DEF j
<1>5. ASSUME NEW s \in Students PROVE progress'[s] = Cardinality(done'[s])
  <2>1. progress[s] = Cardinality(done[s])
    BY DEF AloneOK, ProgressCounts
  <2>2. CASE j.adds /\ s = j.s
    <3>1. done'[s] = done[s] \cup {j.i}
      BY <1>2, <1>4, <2>2
    <3>2. progress'[s] = j.n
      BY <1>2, <1>3, <1>4, <2>2
    <3> QED
      BY <1>3, <2>2, <3>1, <3>2 DEF Counted
  <2>3. CASE ~j.adds \/ s # j.s
    <3>1. done'[s] = done[s]
      BY <1>2, <1>4, <2>3
    <3>2. progress'[s] = progress[s]
      BY <1>2, <1>3, <1>4, <2>3
    <3> QED
      BY <2>1, <3>1, <3>2
  <2> QED
    BY <2>2, <2>3
<1>6. ProgressCounts'
  BY <1>5 DEF ProgressCounts
<1> QED
  BY <1>1, <1>6, AloneWhole, LimitsKept, IdleStill DEF Acts, StudyStep, exams

\* One request at a time, a save leaves at most the quiz it saved active.
LEMMA SaveQuizAlone ==
  ASSUME Shape, Alone, AloneOK, NEW w \in Workers, SaveQuiz(w)
  PROVE  OneActive'
<1> DEFINE j == job[w]
<1>1. j.step = "quiz" /\ j.i \in Quizzes \cup {0} /\ quiz \in [Quizzes -> QuizRows] /\ j \in Jobs
  BY DEF SaveQuiz, At, Shape, TypeOK, Named
<1>2. CASE UNCHANGED quiz
  BY <1>2, LimitsKept
<1>3. CASE quiz' # quiz
  <2>1. PICK q \in Quizzes : (j.i # 0 => q = j.i) /\ quiz' = [quiz EXCEPT ![q] = Saved(quiz[q], j)]
    BY <1>1, <1>3 DEF SaveQuiz
  <2>2. quiz'[q] = Saved(quiz[q], j) /\ \A p \in Quizzes \ {q} : quiz'[p] = quiz[p]
    BY <1>1, <2>1
  <2>3. quiz'[q].status = "active" => quiz[q].status = "active" \/ j.yes
    BY <1>1, <2>2 DEF Saved, QuizRows
  <2>4. j.yes => Active \subseteq {q}
    <3>1. j.yes => Active \ {j.i} = {}
      BY <1>1 DEF AloneOK, StillTrue, Clashes
    <3>2. 0 \notin Quizzes
      BY ClassworkAssumption DEF Quizzes
    <3> QED
      BY <1>1, <2>1, <3>1, <3>2 DEF Active
  <2>5. CASE j.yes
    BY <2>2, <2>4, <2>5 DEF OneActive, Active
  <2>6. CASE ~j.yes
    BY <2>2, <2>3, <2>6 DEF AloneOK, OneActive, Active
  <2> QED
    BY <2>5, <2>6
<1> QED
  BY <1>2, <1>3

\* So many attempts are counted.
LEMMA AttemptsCounted ==
  ASSUME NEW S, S \subseteq Attempts
  PROVE  IsFiniteSet(S) /\ Cardinality(S) \in Nat
<1>1. IsFiniteSet(Attempts)
  <2>1. NumAttempts \in Int /\ 1 \in Int
    BY ClassworkAssumption
  <2> QED
    BY <2>1, FS_Interval DEF Attempts
<1> QED
  BY <1>1, FS_Subset, FS_CardinalityType

\* Attempts that end or are answered are not more than they were.
LEMMA NoMoreUsed ==
  ASSUME Shape, Alone, AloneOK,
         \A a \in Attempts : Used(a)' =>
           /\ Used(a) /\ attempt'[a].quiz = attempt[a].quiz /\ attempt'[a].s = attempt[a].s
           /\ attempt'[a].allowed = attempt[a].allowed
  PROVE  FewAttempts'
<1>1. ASSUME NEW a \in Attempts, Used(a)', attempt'[a].allowed # 0
      PROVE  Cardinality(UpTo(a)') <= attempt'[a].allowed
  <2>1. UpTo(a)' \subseteq UpTo(a) /\ UpTo(a) \subseteq Attempts
    BY <1>1 DEF UpTo, AttemptsOf, Used
  <2>2. Cardinality(UpTo(a)) <= attempt[a].allowed
    BY <1>1 DEF AloneOK, FewAttempts
  <2>3. Cardinality(UpTo(a)') <= Cardinality(UpTo(a))
    BY <2>1, AttemptsCounted, FS_Subset
  <2>4. Cardinality(UpTo(a)) \in Nat /\ Cardinality(UpTo(a)') \in Nat /\ attempt[a].allowed \in Nat
    BY <2>1, AttemptsCounted DEF Shape, TypeOK, AttemptRows
  <2> QED
    BY <1>1, <2>2, <2>3, <2>4
<1> QED
  BY <1>1 DEF FewAttempts

\* A replacement takes the attempts it has deleted.
LEMMA SwapAlone ==
  ASSUME Shape, Alone, AloneOK, NEW w \in Workers, Swap(w)
  PROVE  OneActive' /\ FewAttempts'
<1> DEFINE q == job[w].i
           rows == job[w].rows
           begun == AttemptsOf(q) \ rows
<1>1. q \in Quizzes /\ quiz \in [Quizzes -> QuizRows] /\ attempt \in [Attempts -> AttemptRows]
  BY DEF Swap, Shape, TypeOK, Named, At
<1>2. CASE UNCHANGED exams
  BY <1>2, LimitsKept DEF exams
<1>3. CASE exams' # exams
  <2>1. /\ quiz' = [quiz EXCEPT ![q].questions = TRUE]
        /\ attempt' = [a \in Attempts |->
             IF a \in rows THEN [attempt[a] EXCEPT !.status = "deleted"]
             ELSE IF a \in begun THEN [attempt[a] EXCEPT !.answered = {}, !.right = {}, !.swaps = @ + 1]
             ELSE attempt[a]]
    BY <1>3 DEF Swap
  <2> HIDE DEF q, rows, begun
  <2>2. \A p \in Quizzes : quiz'[p].status = quiz[p].status
    BY <1>1, <2>1 DEF QuizRows
  <2>3. OneActive'
    BY <2>2 DEF AloneOK, OneActive, Active
  <2>4. ASSUME NEW a \in Attempts, Used(a)'
        PROVE  /\ Used(a) /\ attempt'[a].quiz = attempt[a].quiz /\ attempt'[a].s = attempt[a].s
               /\ attempt'[a].allowed = attempt[a].allowed
    <3>1. CASE a \in rows
      BY <1>1, <2>1, <2>4, <3>1 DEF Used, AttemptRows
    <3>2. CASE a \notin rows
      BY <1>1, <2>1, <2>4, <3>2 DEF Used, AttemptRows
    <3> QED
      BY <3>1, <3>2
  <2> QED
    BY <2>3, <2>4, NoMoreUsed
<1> QED
  BY <1>2, <1>3

\* A quiz that is deleted takes all its attempts.
LEMMA DropAlone ==
  ASSUME Shape, Alone, AloneOK, NEW w \in Workers, Drop(w)
  PROVE  OneActive' /\ FewAttempts'
<1> DEFINE q == job[w].i
<1>1. q \in Quizzes /\ quiz \in [Quizzes -> QuizRows] /\ attempt \in [Attempts -> AttemptRows]
  BY DEF Drop, Shape, TypeOK, Named, At
<1>2. quiz' = [quiz EXCEPT ![q].status = "deleted"]
  BY DEF Drop
<1>3. attempt' = [a \in Attempts |->
        IF a \in AttemptsOf(q) THEN [attempt[a] EXCEPT !.status = "deleted"] ELSE attempt[a]]
  BY DEF Drop
<1> HIDE DEF q
<1>4. \A p \in Quizzes : quiz'[p].status \in {quiz[p].status, "deleted"}
  BY <1>1, <1>2 DEF QuizRows
<1>5. OneActive'
  BY <1>4 DEF AloneOK, OneActive, Active
<1>6. ASSUME NEW a \in Attempts, Used(a)'
      PROVE  /\ Used(a) /\ attempt'[a].quiz = attempt[a].quiz /\ attempt'[a].s = attempt[a].s
             /\ attempt'[a].allowed = attempt[a].allowed
  BY <1>1, <1>3, <1>6 DEF Used, AttemptRows
<1> QED
  BY <1>5, <1>6, NoMoreUsed

\* An attempt is started where none is open and some are left.
LEMMA StartAlone ==
  ASSUME Shape, ExamsOK, Alone, AloneOK, NEW w \in Workers, StartAttempt(w)
  PROVE  FewAttempts'
<1>1. CASE UNCHANGED attempt
  BY <1>1, LimitsKept
<1>2. CASE attempt' # attempt
  <2> DEFINE t == job[w].s
             q == job[w].i
             k == job[w].k
  <2>1. attempt \in [Attempts -> AttemptRows] /\ t \in Students /\ q \in Quizzes /\ k \in Nat
    BY DEF StartAttempt, Shape, TypeOK, Named, At, Jobs
  <2>2. PICK a \in Attempts :
          /\ LowestOf(a, {b \in Attempts : attempt[b].status = "absent"})
          /\ attempt' = [attempt EXCEPT ![a] = Begun(attempt[a], job[w])]
    BY <1>2, StartWrites
  <2>3. OpenOf(t, q) = {} /\ AttemptsLeft(t, q) /\ k = quiz[q].limit
    BY DEF StartAttempt, At, AloneOK, StillTrue
  <2> HIDE DEF t, q, k
  <2>4. /\ attempt'[a].status = "open" /\ attempt'[a].s = t /\ attempt'[a].quiz = q /\ attempt'[a].allowed = k
        /\ \A b \in Attempts \ {a} : attempt'[b] = attempt[b]
    BY <2>1, <2>2 DEF AttemptRows, Begun, t, q, k
  <2>5. attempt[a].status = "absent" /\ \A b \in Attempts : attempt[b].status # "absent" => b < a
    <3>1. attempt[a].status = "absent"
      BY <2>2 DEF LowestOf
    <3>2. ASSUME NEW b \in Attempts, attempt[b].status # "absent" PROVE b < a
      <4>1. ~(a < b) /\ a # b
        BY <3>1, <3>2 DEF ExamsOK, InOrder
      <4> QED
        BY <4>1, Naturals
    <3> QED
      BY <3>1, <3>2
  <2>6. ASSUME k # 0 PROVE Cardinality(UpTo(a)') <= k
    <3>1. UpTo(a)' \subseteq FinishedOf(t, q) \cup {a}
      <4>1. ASSUME NEW b \in UpTo(a)', b # a PROVE b \in FinishedOf(t, q)
        <5>1. b \in Attempts /\ attempt[b].status \in {"open", "finished"} /\ attempt[b].quiz = q /\ attempt[b].s = t
          BY <2>4, <4>1 DEF UpTo, AttemptsOf
        <5> QED
          BY <2>3, <5>1 DEF OpenOf, FinishedOf, AttemptsOf
      <4> QED
        BY <4>1
    <3>2. FinishedOf(t, q) \subseteq Attempts /\ a \notin FinishedOf(t, q)
      BY <2>5 DEF FinishedOf, AttemptsOf
    <3>3. IsFiniteSet(FinishedOf(t, q)) /\ Cardinality(FinishedOf(t, q)) \in Nat
      BY <3>2, AttemptsCounted
    <3>4. /\ Cardinality(FinishedOf(t, q) \cup {a}) = Cardinality(FinishedOf(t, q)) + 1
          /\ IsFiniteSet(FinishedOf(t, q) \cup {a})
      BY <3>2, <3>3, FS_AddElement
    <3>5. Cardinality(UpTo(a)') <= Cardinality(FinishedOf(t, q) \cup {a})
      BY <3>1, <3>4, FS_Subset
    <3>6. Cardinality(FinishedOf(t, q)) < k
      BY <2>3, <2>6 DEF AttemptsLeft
    <3>7. Cardinality(UpTo(a)') \in Nat
      <4>1. UpTo(a)' \subseteq Attempts
        BY DEF UpTo, AttemptsOf
      <4> QED
        BY <4>1, AttemptsCounted
    <3> QED
      BY <2>1, <3>3, <3>4, <3>5, <3>6, <3>7
  <2>7. ASSUME NEW b \in Attempts, b # a, Used(b)', attempt'[b].allowed # 0
        PROVE  Cardinality(UpTo(b)') <= attempt'[b].allowed
    <3>1. attempt'[b] = attempt[b] /\ Used(b) /\ b < a
      BY <2>4, <2>5, <2>7 DEF Used
    <3>2. ~(a <= b)
      BY <3>1, Naturals
    <3>3. UpTo(b)' = UpTo(b)
      <4>1. \A c \in Attempts : c \in UpTo(b)' <=> c \in UpTo(b)
        BY <2>4, <2>7, <3>1, <3>2 DEF UpTo, AttemptsOf
      <4>2. UpTo(b) \subseteq Attempts /\ UpTo(b)' \subseteq Attempts
        BY DEF UpTo, AttemptsOf
      <4> QED
        BY <4>1, <4>2
    <3> QED
      BY <2>7, <3>1, <3>3 DEF AloneOK, FewAttempts
  <2> QED
    BY <2>4, <2>6, <2>7 DEF FewAttempts
<1> QED
  BY <1>1, <1>2

\* An answer leaves the attempt open.
LEMMA AnswerAlone ==
  ASSUME Shape, Alone, AloneOK, NEW w \in Workers, Answer(w)
  PROVE  FewAttempts'
<1>1. attempt \in [Attempts -> AttemptRows] /\ job[w].i \in Attempts
  BY DEF Answer, Shape, TypeOK, Named, Holds, At
<1>2. \A a \in Attempts :
        /\ attempt'[a].status = attempt[a].status /\ attempt'[a].s = attempt[a].s
        /\ attempt'[a].quiz = attempt[a].quiz /\ attempt'[a].allowed = attempt[a].allowed
  BY <1>1 DEF Answer, AttemptRows
<1> QED
  BY <1>2, NoMoreUsed DEF Used

\* An attempt that is finished was the open one.
LEMMA FinishAlone ==
  ASSUME Shape, ExamsOK, Alone, AloneOK, NEW w \in Workers, FinishAttempt(w)
  PROVE  FewAttempts'
<1> DEFINE a == job[w].i
           row == Graded(attempt[a], job[w].seen, job[w].n)
<1>1. attempt \in [Attempts -> AttemptRows] /\ a \in Attempts /\ attempt[a].status = "open"
  BY DEF FinishAttempt, Shape, TypeOK, Named, Holds, At, ExamsOK, Sits
<1>2. attempt' = [attempt EXCEPT ![a] = row]
  BY DEF FinishAttempt
<1>3. row.s = attempt[a].s /\ row.quiz = attempt[a].quiz /\ row.allowed = attempt[a].allowed
  BY <1>1 DEF Graded, AttemptRows
<1> HIDE DEF a, row
<1>4. ASSUME NEW b \in Attempts, Used(b)'
      PROVE  /\ Used(b) /\ attempt'[b].quiz = attempt[b].quiz /\ attempt'[b].s = attempt[b].s
             /\ attempt'[b].allowed = attempt[b].allowed
  BY <1>1, <1>2, <1>3, <1>4 DEF Used
<1> QED
  BY <1>4, NoMoreUsed

\* One request at a time, a step on a quiz keeps to the limits.
LEMMA QuizStepAlone ==
  ASSUME Shape, CertsOK, ExamsOK, [Next]_vars, Alone, AloneOK, NEW w \in Workers, QuizStep(w)
  PROVE  AloneOK'
<1>1. UNCHANGED study /\ job'[w].step = "idle"
  BY QuizFrame, IdleJob
<1>3. OneActive'
  <2>1. UNCHANGED quiz \/ SaveQuiz(w) \/ Swap(w) \/ Drop(w)
    BY DEF QuizStep, StartAttempt, Answer, FinishAttempt
  <2> QED
    BY <2>1, LimitsKept, SaveQuizAlone, SwapAlone, DropAlone
<1>4. FewAttempts'
  <2>1. \/ UNCHANGED attempt \/ Swap(w) \/ Drop(w)
        \/ StartAttempt(w) \/ Answer(w) \/ FinishAttempt(w)
    BY DEF QuizStep, SaveQuiz
  <2> QED
    BY <2>1, LimitsKept, SwapAlone, DropAlone, StartAlone, AnswerAlone, FinishAlone
<1>5. ProgressCounts'
  BY <1>1, LimitsKept DEF study
<1> QED
  BY <1>1, <1>3, <1>4, <1>5, AloneWhole, IdleStill DEF Acts

\* A replacement that finds attempts to delete was forced.
LEMMA WipeAlone ==
  ASSUME Shape, CertsOK, [Next]_vars, Alone, AloneOK, NEW w \in Workers, Wipe(w)
  PROVE  AloneOK'
<1>1. UNCHANGED <<study, exams, paid>>
  BY WipeMoves DEF awards
<1>2. job[w].step = "replace" /\ MayChange(job[w].i, job[w].yes)
  BY WipeMoves DEF AloneOK, StillTrue, At
<1>3. StillTrue(job'[w])
  BY <1>2, WipeMoves DEF StillTrue, MayChange
<1>4. StillTrue(job[w])'
  BY <1>1, <1>3, ReadStill
<1> QED
  BY <1>1, <1>4, AloneWhole, LimitsKept DEF Acts, study, exams

\* So does one on a certificate, on what it has checked.
LEMMA CertStepAlone ==
  ASSUME Shape, CertsOK, [Next]_vars, Alone, AloneOK, NEW w \in Workers, CertStep(w)
  PROVE  AloneOK'
<1>1. UNCHANGED <<study, exams, paid>>
  BY CertFrame
<1>2. StillTrue(job[w])
  BY DEF AloneOK
<1>3. StillTrue(job'[w])
  <2>1. CASE NextNumber(w)
    BY <1>2, <2>1, NumberMoves DEF StillTrue, At
  <2>2. CASE InsertCert(w)
    BY <1>2, <2>2, InsertMoves, IdleJob DEF StillTrue, At
  <2>3. CASE Upload(w)
    BY <2>3, UploadMoves DEF StillTrue
  <2>4. CASE Stamp(w)
    BY <2>4, StampMoves, IdleJob DEF StillTrue
  <2> QED
    BY <2>1, <2>2, <2>3, <2>4 DEF CertStep
<1>4. StillTrue(job[w])'
  BY <1>1, <1>3, ReadStill
<1> QED
  BY <1>1, <1>4, AloneWhole, LimitsKept DEF Acts, study, exams

\* Around and the calendar leave alone what a request has read.
LEMMA WorldAlone ==
  ASSUME Shape, CertsOK, Alone, AloneOK, UNCHANGED <<mix, exams, job, done, progress>>,
         UNCHANGED <<study, paid>> \/ \A v \in Workers : At(v, "idle")
  PROVE  AloneOK'
<1>1. ProgressCounts' /\ OneActive' /\ FewAttempts'
  BY LimitsKept DEF exams
<1>2. OneBusy'
  BY DEF AloneOK, OneBusy, At
<1>3. \A v \in Workers : StillTrue(job'[v])
  BY DEF AloneOK
<1>4. ASSUME NEW v \in Workers PROVE StillTrue(job[v])'
  <2>1. CASE At(v, "idle")
    BY <2>1, IdleStill DEF At
  <2>2. CASE ~At(v, "idle")
    BY <1>3, <2>2, ReadStill
  <2> QED
    BY <2>1, <2>2
<1> QED
  BY <1>1, <1>2, <1>4 DEF AloneOK

\* Where requests come one at a time, no limit is passed and what was read holds.
LEMMA AloneNext ==
  ASSUME Shape, CertsOK, ExamsOK, AloneOK, [Next]_vars
  PROVE  AloneOK'
<1> SUFFICES ASSUME Alone PROVE AloneOK'
  BY DaysPass DEF AloneOK, Alone
<1>0. UNCHANGED mix
  BY DaysPass
<1>1. CASE UNCHANGED vars
  BY <1>0, <1>1, WorldAlone DEF vars, study, awards
<1>2. CASE Calendar
  BY <1>0, <1>2, CalendarKeepsShape, WorldAlone DEF study, awards
<1>3. ASSUME NEW s \in Students, Around(s) PROVE AloneOK'
  <2>1. \A v \in Workers : At(v, "idle")
    BY <1>3 DEF Around, Leave, Pay, Archive, AtOnce, Admitted
  <2> QED
    BY <1>0, <1>3, <2>1, AroundKeepsShape, WorldAlone
<1>4. ASSUME NEW w \in Workers, UNCHANGED <<study, exams, paid>>, Begins(w) \/ Ends(w), StillTrue(job'[w])
      PROVE  AloneOK'
  BY <1>4, ReadStill, AloneWhole, LimitsKept DEF Acts, study, exams
<1>5. ASSUME NEW w \in Workers, Begins(w) PROVE AloneOK'
  BY <1>4, <1>5, BeginsFrame, BeginsStill DEF awards
<1>6. ASSUME NEW w \in Workers, Ends(w) PROVE AloneOK'
  <2>1. StillTrue(job'[w])
    BY <1>6, EndsFrame, IdleJob DEF StillTrue
  <2> QED
    BY <1>4, <1>6, <2>1, EndsFrame DEF awards
<1> QED
  BY <1>1, <1>2, <1>3, <1>5, <1>6, FlushAlone, CommitAlone, WipeAlone, QuizStepAlone, CertStepAlone, Kinds
     DEF Acts, StudyStep

-----------------------------------------------------------------------------
(* The invariant and what follows from it.                                 *)

\* Nothing is taught, asked or certified at first.
LEMMA ClassworkInit ==
  ASSUME Init
  PROVE  IInv
<1>1. \A w \in Workers : job[w] = Idle
  BY DEF Init
<1>2. /\ Idle.step = "idle" /\ Idle.op = "alone" /\ Idle.s = None /\ Idle.i = 0 /\ Idle.k = 0
      /\ Idle.n = 0 /\ Idle.yes = FALSE /\ Idle.adds = FALSE /\ Idle.seen = {}
      /\ Idle.cols = {} /\ Idle.rows = {}
  BY DEF Idle
<1>3. Cardinality({}) = 0
  BY FS_EmptySet
<1>4. Shape
  <2>1. CalendarTyped
    BY MixBounds, ClassworkAssumption DEF Init, CalendarTyped, Days
  <2>2. StudyTyped
    BY MixBounds, ClassworkAssumption DEF Init, StudyTyped, AttendanceRows
  <2>3. ExamsTyped
    <3>1. quiz \in [Quizzes -> QuizRows]
      <4>1. PICK limit \in Nat, mark \in 0..100 :
              quiz = [q \in Quizzes |-> IF "ready" \in mix.ops /\ q = 1
                THEN [status |-> "active", questions |-> TRUE, limit |-> limit, mark |-> mark]
                ELSE [status |-> "absent", questions |-> FALSE, limit |-> 0, mark |-> 0]]
        BY MixBounds DEF Init
      <4> QED
        BY <4>1 DEF QuizRows
    <3>2. 1 \in Quizzes /\ 0 \in 0..Cardinality(Questions)
      BY ClassworkAssumption, RightCounted, <1>3 DEF Quizzes
    <3> DEFINE row == [status |-> "absent", quiz |-> 1, s |-> None, answered |-> {}, right |-> {},
                       correct |-> 0, passed |-> FALSE, allowed |-> 0, mark |-> 0, swaps |-> 0]
    <3>3. row \in AttemptRows
      BY <3>2 DEF AttemptRows
    <3>4. attempt = [a \in Attempts |-> row]
      BY DEF Init
    <3> HIDE DEF row
    <3> QED
      BY <3>1, <3>3, <3>4 DEF ExamsTyped
  <2>4. AwardsTyped
    BY MixBounds DEF Init, AwardsTyped, CertRows
  <2>5. job \in [Workers -> Jobs]
    BY IdleJob DEF Init
  <2>6. \A w \in Workers : Named(job[w])
    BY <1>1, IdleJob
  <2> QED
    BY <2>1, <2>2, <2>3, <2>4, <2>5, <2>6
       DEF Shape, TypeOK, CalendarTyped, StudyTyped, ExamsTyped, AwardsTyped, Jobs
<1>5. StudyOK
  BY <1>1, <1>2 DEF Init, StudyOK, Studies, StudySteps, ScansFirst, At, AttendedIsDone, Due
<1>6. ExamsOK
  <2>1. InOrder /\ GradedByItsAnswers
    BY DEF Init, InOrder, GradedByItsAnswers
  <2>2. \A w \in Workers : Sits(w) /\ RowsThere(w)
    BY <1>1, <1>2 DEF Sits, Holds, RowsThere, At
  <2> QED
    BY <2>1, <2>2 DEF ExamsOK
<1>7. CertsOK
  <2>1. Issued = {}
    BY DEF Init, Issued
  <2>2. AllGiven
    BY <1>3, <2>1 DEF AllGiven
  <2>3. \A s \in Students : CertOK(s)
    BY DEF Init, CertOK
  <2> QED
    BY <1>1, <1>2, <2>2, <2>3 DEF CertsOK, Certifies
<1>8. AloneOK
  <2>1. OneBusy /\ \A w \in Workers : StillTrue(job[w])
    BY <1>1, <1>2 DEF OneBusy, At, StillTrue
  <2>2. ProgressCounts
    BY <1>3 DEF Init, ProgressCounts
  <2>3. OneActive
    BY DEF Init, OneActive, Active
  <2>5. FewAttempts
    BY DEF Init, FewAttempts, Used
  <2> QED
    BY <2>1, <2>2, <2>3, <2>5 DEF AloneOK
<1> QED
  BY <1>4, <1>5, <1>6, <1>7, <1>8 DEF IInv

\* No step breaks the invariant.
LEMMA ClassworkNext ==
  ASSUME IInv, [Next]_vars
  PROVE  IInv'
BY ShapeNext, StudyNext, ExamsNext, CertsNext, AloneNext DEF IInv

\* Classwork keeps its inductive invariant.
THEOREM ClassworkInvariant == Spec => []IInv
<1>1. Init => IInv
  BY ClassworkInit
<1>2. IInv /\ [Next]_vars => IInv'
  BY ClassworkNext
<1> QED
  BY <1>1, <1>2, PTL DEF Spec

\* Every table and every request keeps its type, and a certificate its place among
\* as many numbers as there are students.
THEOREM ClassworkTypeCorrect == Spec => []TypeOK
<1>1. IInv => TypeOK
  BY DEF IInv, Shape
<1> QED
  BY <1>1, ClassworkInvariant, PTL

\* completion.py: a lesson is completed in course order or once its class day has
\* come, and a note completes its lesson.
THEOREM CompletedInOrderAlways == Spec => []CompletedInOrder
<1>1. IInv => CompletedInOrder
  BY DEF IInv, StudyOK, CompletedInOrder, Due
<1> QED
  BY <1>1, ClassworkInvariant, PTL

\* checkin.py: attendance completes the lesson, and without overlapping requests the
\* progress shown counts the lessons completed.
THEOREM AttendanceCountsAlways == Spec => []AttendanceCounts
<1>1. IInv => AttendanceCounts
  BY DEF IInv, StudyOK, AttendedIsDone, Stayed, AloneOK, ProgressCounts, AttendanceCounts
<1> QED
  BY <1>1, ClassworkInvariant, PTL

\* attempts.py: an attempt is graded on all the answers it ends with, unless it was
\* begun while its questions were being replaced.
THEOREM GradedByItsAnswersAlways == Spec => []GradedByItsAnswers
<1>1. IInv => GradedByItsAnswers
  BY DEF IInv, ExamsOK
<1> QED
  BY <1>1, ClassworkInvariant, PTL

\* Without overlapping requests an attempt is started only within the max_attempts of
\* that moment, however the limit is edited, and a lesson has one active quiz.
THEOREM QuizLimitsAlways == Spec => []QuizLimits
<1>1. ASSUME OneActive PROVE Cardinality(Active) <= 1
  <2>1. CASE Active = {}
    BY <2>1, FS_EmptySet
  <2>2. ASSUME NEW p \in Active PROVE Cardinality(Active) <= 1
    <3>1. Active = {p}
      BY <1>1, <2>2 DEF OneActive
    <3>2. Cardinality({p}) = 1
      BY FS_Singleton
    <3> QED
      BY <3>1, <3>2
  <2> QED
    BY <2>1, <2>2
<1>2. IInv => QuizLimits
  BY <1>1 DEF IInv, AloneOK, FewAttempts, Used, QuizLimits
<1> QED
  BY <1>2, ClassworkInvariant, PTL

\* issuing.py: no two certificates share a number, and a certificate that names its
\* file has it in S3.
THEOREM CertificatesSoundAlways == Spec => []CertificatesSound
<1>1. IInv => CertificatesSound
  BY DEF IInv, CertsOK, CertOK, CertificatesSound
<1> QED
  BY <1>1, ClassworkInvariant, PTL

-----------------------------------------------------------------------------
(* What no step does.                                                      *)

\* Only a commit writes attendance, only a step on a quiz writes attempts.
LEMMA WhoWrites ==
  ASSUME Shape, CertsOK, [Next]_vars
  PROVE  /\ UNCHANGED attendance \/ \E w \in Workers : Commit(w)
         /\ UNCHANGED attempt \/ \E w \in Workers : QuizStep(w)
<1>1. CASE UNCHANGED vars
  BY <1>1 DEF vars, study, exams
<1>2. CASE Calendar
  BY <1>2, CalendarKeepsShape DEF study, exams
<1>3. ASSUME NEW s \in Students, Around(s) PROVE UNCHANGED <<attendance, attempt>>
  BY <1>3, AroundKeepsShape DEF exams
<1>4. ASSUME NEW w \in Workers, Begins(w) \/ Ends(w) \/ CertStep(w) \/ Flush(w) \/ Wipe(w)
      PROVE  UNCHANGED <<attendance, attempt>>
  BY <1>4, BeginsFrame, EndsFrame, CertFrame, FlushMoves, WipeMoves DEF study, exams
<1>5. ASSUME NEW w \in Workers, Commit(w) PROVE UNCHANGED attempt
  BY <1>5, CommitMoves DEF exams
<1>6. ASSUME NEW w \in Workers, QuizStep(w) PROVE UNCHANGED attendance
  BY <1>6, QuizFrame DEF study
<1> QED
  BY <1>1, <1>2, <1>3, <1>4, <1>5, <1>6, Kinds DEF Acts, StudyStep

\* A certificate is written by its insert, its stamp and its archiving.
LEMMA WhoCertifies ==
  ASSUME Shape, CertsOK, [Next]_vars
  PROVE  \/ UNCHANGED cert
         \/ \E s \in Students : Archive(s)
         \/ \E w \in Workers : InsertCert(w) \/ Stamp(w)
<1>1. CASE UNCHANGED vars
  BY <1>1 DEF vars, awards
<1>2. CASE Calendar
  BY <1>2, CalendarKeepsShape DEF awards
<1>3. ASSUME NEW s \in Students, Leave(s) \/ Pay(s) PROVE UNCHANGED cert
  BY <1>3 DEF Leave, Pay, awards
<1>4. ASSUME NEW w \in Workers, Begins(w) \/ Ends(w) \/ Wipe(w) \/ QuizStep(w) \/ StudyStep(w)
      PROVE  UNCHANGED cert
  BY <1>4, BeginsFrame, EndsFrame, WipeMoves, QuizFrame, FlushMoves, CommitMoves DEF awards, StudyStep
<1>5. ASSUME NEW w \in Workers, NextNumber(w) \/ Upload(w) PROVE UNCHANGED cert
  BY <1>5, NumberMoves, UploadMoves DEF awards
<1> QED
  BY <1>1, <1>2, <1>3, <1>4, <1>5, Kinds DEF Acts, Around, CertStep

\* A scan records where there was nothing, so that what the teacher marked stands.
LEMMA MarksStand ==
  ASSUME Shape, CertsOK, StudyOK, [Next]_vars, NEW s \in Students, NEW l \in Lessons,
         attendance[s][l].status # "none", attendance[s][l].method = "manual"
  PROVE  attendance'[s][l].method = "manual"
<1>1. CASE UNCHANGED attendance
  BY <1>1
<1>2. ASSUME NEW w \in Workers, Commit(w) PROVE attendance'[s][l].method = "manual"
  <2> DEFINE j == job[w]
  <2>1. j.step = "commit" /\ j.s \in Students /\ j.i \in Lessons /\ attendance \in [Students -> [Lessons -> AttendanceRows]]
    BY <1>2, CommitMoves DEF At, Shape, TypeOK
  <2>2. attendance' = IF CheckIn(j) THEN [attendance EXCEPT ![j.s][j.i] = Record(j)] ELSE attendance
    BY <1>2 DEF Commit
  <2>3. j.op = "scan" => attendance[j.s][j.i].status = "none"
    BY <2>1 DEF StudyOK, ScansFirst, At
  <2>4. j.op # "scan" => Record(j).method = "manual"
    BY DEF Record
  <2> HIDE DEF j
  <2>5. CASE CheckIn(j) /\ s = j.s /\ l = j.i
    <3>1. attendance'[s][l] = Record(j)
      BY <2>1, <2>2, <2>5
    <3> QED
      BY <2>3, <2>4, <2>5, <3>1
  <2>6. CASE ~(CheckIn(j) /\ s = j.s /\ l = j.i)
    <3>1. attendance'[s][l] = attendance[s][l]
      BY <2>1, <2>2, <2>6
    <3> QED
      BY <3>1
  <2> QED
    BY <2>5, <2>6
<1> QED
  BY <1>1, <1>2, WhoWrites

\* One request at a time, a change that finds attempts to delete was forced.
LEMMA DeletedByForce ==
  ASSUME Shape, CertsOK, Alone, AloneOK, [Next]_vars, NEW a \in Attempts,
         attempt'[a].status = "deleted", attempt[a].status # "deleted"
  PROVE  \E w \in Workers : job[w].yes
<1>1. attempt \in [Attempts -> AttemptRows]
  BY DEF Shape, TypeOK
<1>2. PICK w \in Workers : QuizStep(w)
  BY WhoWrites
<1>3. job[w] \in Jobs /\ Named(job[w])
  BY DEF Shape
<1>4. CASE SaveQuiz(w)
  BY <1>4 DEF SaveQuiz
<1>5. CASE Drop(w)
  <2>1. a \in AttemptsOf(job[w].i) /\ job[w].step = "drop"
    BY <1>5 DEF Drop, At
  <2>2. MayChange(job[w].i, job[w].yes)
    BY <2>1 DEF AloneOK, StillTrue
  <2> QED
    BY <2>1, <2>2 DEF MayChange
<1>9. CASE Swap(w)
  <2>1. a \in job[w].rows
    <3> DEFINE rows == job[w].rows
               begun == AttemptsOf(job[w].i) \ rows
    <3>1. attempt' = [b \in Attempts |->
            IF b \in rows THEN [attempt[b] EXCEPT !.status = "deleted"]
            ELSE IF b \in begun THEN [attempt[b] EXCEPT !.answered = {}, !.right = {}, !.swaps = @ + 1]
            ELSE attempt[b]]
      BY <1>9 DEF Swap, exams
    <3> HIDE DEF begun, rows
    <3>2. a \in rows
      BY <1>1, <3>1 DEF AttemptRows
    <3> QED
      BY <3>2 DEF rows
  <2>2. job[w].step = "swap" /\ (job[w].rows = {} \/ job[w].yes)
    BY <1>9 DEF Swap, At, AloneOK, StillTrue
  <2> QED
    BY <2>1, <2>2
<1>6. CASE StartAttempt(w)
  BY <1>1, <1>6, StartWrites DEF Begun, AttemptRows
<1>7. CASE Answer(w)
  <2> DEFINE row == [attempt[job[w].i] EXCEPT !.answered = @ \cup {job[w].k},
                       !.right = IF job[w].yes THEN @ \cup {job[w].k} ELSE @]
  <2>1. job[w].i \in Attempts
    BY <1>3, <1>7 DEF Answer, At, Named, Holds
  <2>2. row.status = attempt[job[w].i].status
    BY <1>1, <2>1 DEF AttemptRows
  <2>3. UNCHANGED attempt \/ attempt' = [attempt EXCEPT ![job[w].i] = row]
    BY <1>7 DEF Answer
  <2> HIDE DEF row
  <2>4. attempt'[a].status = attempt[a].status
    BY <1>1, <2>1, <2>2, <2>3
  <2> QED
    BY <2>4
<1>8. CASE FinishAttempt(w)
  <2> DEFINE row == Graded(attempt[job[w].i], job[w].seen, job[w].n)
  <2>1. job[w].i \in Attempts
    BY <1>3, <1>8 DEF FinishAttempt, At, Named, Holds
  <2>2. row.status = "finished"
    BY <1>1, <2>1 DEF AttemptRows, Graded
  <2>3. attempt' = [attempt EXCEPT ![job[w].i] = row]
    BY <1>8 DEF FinishAttempt
  <2> HIDE DEF row
  <2>4. attempt'[a].status \in {"finished", attempt[a].status}
    BY <1>1, <2>1, <2>2, <2>3
  <2> QED
    BY <2>4
<1> QED
  BY <1>2, <1>4, <1>5, <1>6, <1>7, <1>8, <1>9 DEF QuizStep

\* What the teacher marked no scan takes over, and without overlapping requests only
\* a forced change of a quiz deletes attempts.
THEOREM RecordsStandAlways == Spec => RecordsStand
<1> DEFINE Stands ==
      /\ \A s \in Students, l \in Lessons :
           attendance[s][l].status # "none" /\ attendance[s][l].method = "manual" =>
             attendance'[s][l].method = "manual"
      /\ Alone => \A a \in Attempts :
           attempt'[a].status = "deleted" =>
             attempt[a].status = "deleted" \/ \E w \in Workers : job[w].yes
<1>1. IInv /\ [Next]_vars => Stands
  BY MarksStand, DeletedByForce DEF IInv
<1>2. IInv /\ [Next]_vars => [Stands]_vars
  BY <1>1
<1> QED
  BY <1>2, ClassworkInvariant, PTL DEF Spec, RecordsStand

\* A certificate that is inserted was checked for, or forced; what is inserted stays.
LEMMA CertificateStep ==
  ASSUME Shape, CertsOK, AloneOK, [Next]_vars, NEW s \in Students
  PROVE  IF cert[s].status = "none"
         THEN cert'[s].status # "none" /\ ~cert'[s].forced =>
                done[s] = Lessons /\ (Alone => IsEligible(s))
         ELSE cert'[s].status # "none" /\ cert'[s].number = cert[s].number
<1>1. cert \in [Students -> CertRows]
  BY DEF Shape, TypeOK
<1>2. CASE UNCHANGED cert
  BY <1>2
<1>3. ASSUME NEW t \in Students, Archive(t)
      PROVE  cert'[s].number = cert[s].number /\ (cert'[s].status = "none" <=> cert[s].status = "none")
  BY <1>1, <1>3 DEF Archive, CertRows
<1>4. ASSUME NEW w \in Workers, Stamp(w)
      PROVE  cert'[s].number = cert[s].number /\ (cert'[s].status = "none" <=> cert[s].status = "none")
  <2> DEFINE t == job[w].s
             row == [cert[t] EXCEPT !.file = TRUE]
  <2>1. t \in Students /\ cert' = [cert EXCEPT ![t] = row]
    BY <1>4, StampMoves
  <2>2. row.number = cert[t].number /\ row.status = cert[t].status
    BY <1>1, <2>1 DEF CertRows
  <2> HIDE DEF t, row
  <2>3. cert'[s].number = cert[s].number /\ cert'[s].status = cert[s].status
    BY <1>1, <2>1, <2>2
  <2> QED
    BY <2>3
<1>5. ASSUME NEW w \in Workers, InsertCert(w), cert' # cert
      PROVE  IF cert[s].status = "none"
             THEN cert'[s].status # "none" /\ ~cert'[s].forced =>
                    done[s] = Lessons /\ (Alone => IsEligible(s))
             ELSE cert'[s].status # "none" /\ cert'[s].number = cert[s].number
  <2> DEFINE j == job[w]
             row == [status |-> "issued", number |-> j.n, file |-> FALSE, forced |-> j.yes]
  <2>1. /\ At(w, "insert") /\ j.s \in Students /\ cert[j.s].status = "none"
        /\ cert' = [cert EXCEPT ![j.s] = row]
    BY <1>5, InsertMoves
  <2>2. row.forced <=> j.yes
    OBVIOUS
  <2>3. ~j.yes => done[j.s] = Lessons /\ (Alone => IsEligible(j.s))
    BY <2>1 DEF CertsOK, Certifies, AloneOK, StillTrue, At
  <2> HIDE DEF j, row
  <2>4. CASE s = j.s
    <3>1. cert'[s] = row
      BY <1>1, <2>1, <2>4
    <3> QED
      BY <2>1, <2>2, <2>3, <2>4, <3>1
  <2>5. CASE s # j.s
    <3>1. cert'[s] = cert[s]
      BY <1>1, <2>1, <2>5
    <3> QED
      BY <3>1
  <2> QED
    BY <2>4, <2>5
<1> QED
  BY <1>2, <1>3, <1>4, <1>5, WhoCertifies

\* issuing.py: a certificate nobody forced goes to a student who has completed every
\* lesson, without overlapping requests to one who meets every requirement, and no
\* certificate goes away or changes its number.
THEOREM CertificateEarnedAlways == Spec => CertificateEarned
<1> DEFINE Earned ==
      \A s \in Students :
        IF cert[s].status = "none"
        THEN cert'[s].status # "none" /\ ~cert'[s].forced =>
               done[s] = Lessons /\ (Alone => IsEligible(s))
        ELSE cert'[s].status # "none" /\ cert'[s].number = cert[s].number
<1>1. IInv /\ [Next]_vars => Earned
  BY CertificateStep DEF IInv
<1>2. IInv /\ [Next]_vars => [Earned]_vars
  BY <1>1
<1> QED
  BY <1>2, ClassworkInvariant, PTL DEF Spec, CertificateEarned
=============================================================================
