-------------------------------- MODULE Roster --------------------------------
(***************************************************************************)
(* Cohorts, the students enrolled in them, and their training contracts:   *)
(* src/app/services/cohorts.py, enrollments.py and contracts.  A contract  *)
(* is made and cancelled by whoever next lists contracts, from a snapshot  *)
(* taken under no lock; signing and resetting it lock its row, and put and *)
(* take away its file in S3 on different sides of their commit.            *)
(***************************************************************************)
EXTENDS Integers, FiniteSets

CONSTANTS
  Workers,     \* request threads
  Mixes,       \* the sets of requests a behaviour may consist of
  Cohorts, Students,
  Opened,      \* cohorts open for enrolment at the start
  Capacity,    \* cohort.capacity of a cohort at the start
  Capacities,  \* bound: what an edit can make it; None is no limit
  Resources,   \* teachers and classrooms
  Hours,       \* weekly meeting times, of which no two overlap
  MaxPrice,    \* prices of the course
  MaxPaid,     \* bound: what the ledger of an enrollment can reach
  MaxFiles,    \* bound: documents that can be written to S3
  None         \* no file, no price, no cohort

AllOps == {"enroll", "place", "cancel", "reprice", "pay", "list", "sign", "reset",
           "cohort", "resize", "delete", "fail", "crash", "alone"}

ASSUME RosterAssumption ==
  /\ Capacities \subseteq Nat \cup {None} /\ Capacity \in Capacities /\ MaxPrice \in Nat \ {0} /\ MaxPaid \in Nat /\ MaxFiles \in Nat
  /\ \A mix \in Mixes : mix \subseteq AllOps
  /\ Opened \subseteq Cohorts /\ IsFiniteSet(Students)
  /\ None \notin Nat \cup Cohorts

Enrollments == Cohorts \X Students  \* uq_enrollment_cohort_student; its contract has its name
Files == 1..MaxFiles
Prices == 1..MaxPrice
LowestOf(i, S) == i \in S /\ \A j \in S : i <= j

VARIABLES
  mix,        \* the requests of this behaviour
  price,      \* course.final_price_amount
  cohort,     \* table cohorts
  enrollment, \* table enrollments
  contract,   \* table student_contracts
  file,       \* S3: the figures a document shows
  job         \* what each thread is doing

vars == <<mix, price, cohort, enrollment, contract, file, job>>

\* "undated" has no dates and meets nobody; "anytime" has dates but no known time.
Times == Hours \cup {"undated", "anytime"}
CohortRows == [status: {"absent", "draft", "open", "closed", "deleted"}, uses: SUBSET Resources,
               when: Times, capacity: Capacities]
EnrollmentRows == [status: {"absent", "active", "cancelled"}, price: Prices \cup {None}, paid: 0..MaxPaid]
Figures == [due: Prices, paid: 0..MaxPaid]
NoFigures == [due |-> 1, paid |-> 0]
ContractRows == [status: {"absent", "pending", "signed", "cancelled"}, file: Files \cup {None}, figures: Figures]
FileRows == [stored: {"never", "yes", "removed"}, figures: Figures]
Steps == {"idle", "enroll", "bill", "freeze", "follow", "upload", "stamp", "clean", "cohort"}
Snapshots == [Enrollments -> [active: BOOLEAN, contract: {"absent", "pending", "signed", "cancelled"}]]
Jobs == [step: Steps, e: Enrollments \cup {None}, file: Files \cup {None}, figures: Figures,
         seen: Snapshots \cup {None}, cohort: Cohorts \cup {None}, row: CohortRows \cup {None},
         price: Prices \cup {None}]
Idle == [step |-> "idle", e |-> None, file |-> None, figures |-> NoFigures,
         seen |-> None, cohort |-> None, row |-> None, price |-> None]

-----------------------------------------------------------------------------

At(w, step) == job[w].step = step
Become(w, j) == job' = [job EXCEPT ![w] = j]
Go(w, step) == Become(w, [job[w] EXCEPT !.step = step])
Finish(w) == Become(w, Idle)

\* In an "alone" mix a request begins when the one before it has ended.
Alone == "alone" \in mix
Admitted(op) == op \in mix /\ (Alone => \A v \in Workers : At(v, "idle"))
Start(w, op, j) == At(w, "idle") /\ Admitted(op) /\ Become(w, j)
AtOnce(op) == Admitted(op) /\ UNCHANGED job

Standing(c) == cohort[c].status \notin {"absent", "deleted"}
ActiveIn(c) == {s \in Students : enrollment[<<c, s>>].status = "active"}

\* Seats left for one more, and as many as there are.
Below(n, c) == cohort[c].capacity # None => n < cohort[c].capacity
Within(n, c) == cohort[c].capacity # None => n <= cohort[c].capacity

\* Fault: a returning student is not counted.
SeatsAvailable_NewOnly(e) == enrollment[e].status # "absent" \/ Below(Cardinality(ActiveIn(e[1])), e[1])

\* seats_available, asked for a new enrollment and for a cancelled one alike.
SeatsAvailable(e) == Below(Cardinality(ActiveIn(e[1])), e[1])

-----------------------------------------------------------------------------
(* Enrolling.                                                              *)

\* enroll up to its commit: a student needs an open cohort, staff any but a draft.
BeginEnroll(w, e, op) ==
  /\ cohort[e[1]].status \in IF op = "enroll" THEN {"open"} ELSE {"open", "closed"}
  /\ enrollment[e].status # "active"
  /\ SeatsAvailable(e)
  /\ Start(w, op, [Idle EXCEPT !.step = "enroll", !.e = e, !.cohort =
       IF enrollment[e].status = "absent" THEN None ELSE e[1]])
  /\ UNCHANGED <<mix, price, cohort, enrollment, contract, file>>

\* The insert meets uq_enrollment_cohort_student; the update of a cancelled row
\* meets nothing, but the row may be gone with its cohort.
EnrollRefused(j) ==
  \/ ~Standing(j.e[1])
  \/ (j.cohort = None) # (enrollment[j.e].status = "absent")

Enroll(w) ==
  LET j == job[w] IN
  /\ At(w, "enroll")
  /\ IF EnrollRefused(j) THEN Finish(w) /\ UNCHANGED enrollment
     ELSE Go(w, "bill") /\ enrollment' = [enrollment EXCEPT ![j.e].status = "active"]
  /\ UNCHANGED <<mix, price, cohort, contract, file>>

\* Fault: every enrolment takes the price of the day.
Snapshot_Again(e) == price

\* snapshot_price: the price to write, if the row as it was loaded has none.
Snapshot(e) == IF enrollment[e].price = None THEN price ELSE None

\* on_enrolled, a transaction of its own: it reads the row and the course, under no
\* lock, ...
Bill(w) ==
  LET e == job[w].e IN
  /\ At(w, "bill")
  /\ IF enrollment[e].status = "absent" THEN Finish(w)
     ELSE Become(w, [job[w] EXCEPT !.step = "freeze", !.price = Snapshot(e)])
  /\ UNCHANGED <<mix, price, cohort, enrollment, contract, file>>

\* ... and commits the price over whatever is there now; plan and ledger are
\* Settlement's.
Freeze(w) ==
  LET j == job[w] IN
  /\ At(w, "freeze")
  /\ enrollment' = IF j.price = None \/ enrollment[j.e].status = "absent" THEN enrollment
                   ELSE [enrollment EXCEPT ![j.e].price = j.price]
  /\ Finish(w)
  /\ UNCHANGED <<mix, price, cohort, contract, file>>

\* cancel and remove
CancelEnrollment(e) ==
  /\ AtOnce("cancel")
  /\ enrollment[e].status = "active"
  /\ enrollment' = [enrollment EXCEPT ![e].status = "cancelled"]
  /\ UNCHANGED <<mix, price, cohort, contract, file>>

\* External: finance edits the course, and Settlement books money.
Reprice ==
  /\ AtOnce("reprice")
  /\ \E p \in Prices \ {price} : price' = p
  /\ UNCHANGED <<mix, cohort, enrollment, contract, file>>

Pay(e) ==
  /\ AtOnce("pay")
  /\ enrollment[e].price # None /\ enrollment[e].paid < MaxPaid
  /\ enrollment' = [enrollment EXCEPT ![e].paid = @ + 1]
  /\ UNCHANGED <<mix, price, cohort, contract, file>>

-----------------------------------------------------------------------------
(* Contracts.                                                              *)

\* SELECT FOR UPDATE holds a contract while its signing uploads.
RowFree(e) == \A w \in Workers : ~(job[w].step \in {"upload", "stamp"} /\ job[w].e = e)

\* sync: enrollments and contracts, read without a lock.
SyncRead ==
  [e \in Enrollments |-> [active |-> enrollment[e].status = "active", contract |-> contract[e].status]]

\* Fault: a signed contract is cancelled with its enrollment.
Followed_Signed(was) ==
  IF was.contract \in {"pending", "signed"} /\ ~was.active THEN "cancelled"
  ELSE IF was.contract \in {"absent", "cancelled"} /\ was.active THEN "pending"
  ELSE was.contract

\* _sync_once: what a contract becomes.
Followed(was) ==
  IF was.contract = "pending" /\ ~was.active THEN "cancelled"
  ELSE IF was.contract \in {"absent", "cancelled"} /\ was.active THEN "pending"
  ELSE was.contract

Follows(seen) == {e \in Enrollments : Followed(seen[e]) # seen[e].contract}

BeginSync(w) ==
  /\ Follows(SyncRead) # {}
  /\ Start(w, "list", [Idle EXCEPT !.step = "follow", !.seen = SyncRead])
  /\ UNCHANGED <<mix, price, cohort, enrollment, contract, file>>

\* A contract made meanwhile refuses the insert, and sync reads again.
SyncRefused(seen) ==
  \E e \in Follows(seen) : (seen[e].contract = "absent") # (contract[e].status = "absent")

\* _sync_once writes what it decided, whatever the rows have become since.
Sync(w) ==
  LET seen == job[w].seen IN
  /\ At(w, "follow")
  /\ IF SyncRefused(seen)
     THEN Become(w, [job[w] EXCEPT !.seen = SyncRead]) /\ UNCHANGED contract
     ELSE /\ \A e \in Follows(seen) : RowFree(e)
          /\ contract' = [e \in Enrollments |-> IF e \in Follows(seen)
                            THEN [contract[e] EXCEPT !.status = Followed(seen[e])] ELSE contract[e]]
          /\ Finish(w)
  /\ UNCHANGED <<mix, price, cohort, enrollment, file>>

\* finance: the ledger's figures, or the price of an enrollment without one.
Finance(e) ==
  [due |-> IF enrollment[e].price = None THEN price ELSE enrollment[e].price, paid |-> enrollment[e].paid]

\* Fault: a name is free again once no contract has it.
FreshFile_Reused(f, e) ==
  LowestOf(f, {g \in Files : /\ \A d \in Enrollments : contract[d].file # g
                             /\ \A w \in Workers : At(w, "clean") \/ job[w].file # g})

\* build_key: a name no document ever had.
FreshFile(f, e) == LowestOf(f, {g \in Files : file[g].stored = "never" /\ \A w \in Workers : job[w].file # g})

\* _own(lock), _ensure_signable, and the figures the document will show.
BeginSign(w, e) ==
  /\ RowFree(e)
  /\ contract[e].status = "pending" /\ enrollment[e].status = "active"
  /\ \E f \in Files :
       /\ FreshFile(f, e)
       /\ Start(w, "sign", [Idle EXCEPT !.step = "upload", !.e = e, !.file = f, !.figures = Finance(e)])
  /\ UNCHANGED <<mix, price, cohort, enrollment, contract, file>>

\* The signature and the document, one after the other.
Upload(w) ==
  LET j == job[w] IN
  /\ At(w, "upload")
  /\ file' = [file EXCEPT ![j.file] = [stored |-> "yes", figures |-> j.figures]]
  /\ Go(w, "stamp")
  /\ UNCHANGED <<mix, price, cohort, enrollment, contract>>

\* The commit of sign.
Stamp(w) ==
  LET j == job[w] IN
  /\ At(w, "stamp")
  /\ contract' = [contract EXCEPT ![j.e] = [status |-> "signed", file |-> j.file, figures |-> j.figures]]
  /\ Finish(w)
  /\ UNCHANGED <<mix, price, cohort, enrollment, file>>

\* reset commits the row, back to what its enrollment says ...
Reset(w, e) ==
  /\ RowFree(e)
  /\ contract[e].status = "signed"
  /\ contract' = [contract EXCEPT ![e] =
       [status |-> IF enrollment[e].status = "active" THEN "pending" ELSE "cancelled",
        file |-> None, figures |-> NoFigures]]
  /\ Start(w, "reset", [Idle EXCEPT !.step = "clean", !.e = e, !.file = contract[e].file])
  /\ UNCHANGED <<mix, price, cohort, enrollment, file>>

\* ... and then removes the old document.
Clean(w) ==
  /\ At(w, "clean")
  /\ file' = IF job[w].file = None THEN file ELSE [file EXCEPT ![job[w].file].stored = "removed"]
  /\ Finish(w)
  /\ UNCHANGED <<mix, price, cohort, enrollment, contract>>

\* S3 refuses: a signing is rolled back, a removal is left undone.
Fail(w) ==
  /\ "fail" \in mix
  /\ job[w].step \in {"upload", "clean"}
  /\ Finish(w)
  /\ UNCHANGED <<mix, price, cohort, enrollment, contract, file>>

\* A worker is killed; what it had not committed is gone.
Crash(w) ==
  /\ "crash" \in mix
  /\ ~At(w, "idle")
  /\ Finish(w)
  /\ UNCHANGED <<mix, price, cohort, enrollment, contract, file>>

-----------------------------------------------------------------------------
(* Cohorts and their timetable.                                            *)

\* _find_conflict: unknown dates never clash, unknown times always do.
Meets(a, b) ==
  /\ "undated" \notin {a, b}
  /\ "anytime" \in {a, b} \/ a = b

\* _check_conflicts, against every other cohort.
Conflicts(c, row) ==
  \E o \in Cohorts \ {c} :
    Standing(o) /\ cohort[o].uses \cap row.uses # {} /\ Meets(cohort[o].when, row.when)

\* Bound: an edit is of the capacity alone, or of anything else.
Edits(op, c, row) ==
  LET only == IF op = "resize" THEN [cohort[c] EXCEPT !.capacity = row.capacity]
              ELSE [row EXCEPT !.capacity = cohort[c].capacity]
  IN row = only /\ op \in {"cohort", "resize"} /\ row.status \in {"draft", "open", "closed"}

\* Fault: the timetable of an existing cohort is not looked at again.
BeginCohort_NewOnly(w, op, c, row) ==
  /\ cohort[c].status # "deleted" /\ Edits(op, c, row)
  /\ cohort[c].status = "absent" => row.status = "draft" /\ ~Conflicts(c, row)
  /\ Start(w, op, [Idle EXCEPT !.step = "cohort", !.cohort = c, !.row = row])
  /\ UNCHANGED <<mix, price, cohort, enrollment, contract, file>>

\* create_cohort and update_cohort up to the commit: nobody asks whether a new
\* capacity holds the students already there.
BeginCohort(w, op, c, row) ==
  /\ cohort[c].status # "deleted" /\ Edits(op, c, row)
  /\ cohort[c].status = "absent" => row.status = "draft"
  /\ ~Conflicts(c, row)
  /\ Start(w, op, [Idle EXCEPT !.step = "cohort", !.cohort = c, !.row = row])
  /\ UNCHANGED <<mix, price, cohort, enrollment, contract, file>>

SaveCohort(w) ==
  LET j == job[w] IN
  /\ At(w, "cohort")
  /\ cohort' = IF cohort[j.cohort].status = "deleted" THEN cohort ELSE [cohort EXCEPT ![j.cohort] = j.row]
  /\ Finish(w)
  /\ UNCHANGED <<mix, price, enrollment, contract, file>>

NoCohort(status) == [status |-> status, uses |-> {}, when |-> "undated", capacity |-> Capacity]
NoEnrollment == [status |-> "absent", price |-> None, paid |-> 0]
NoContract == [status |-> "absent", file |-> None, figures |-> NoFigures]

\* delete_cohort takes its enrollments, and they take their contracts.
DeleteCohort(c) ==
  /\ AtOnce("delete")
  /\ Standing(c)
  /\ \A s \in Students : RowFree(<<c, s>>)
  /\ cohort' = [cohort EXCEPT ![c] = NoCohort("deleted")]
  /\ enrollment' = [e \in Enrollments |-> IF e[1] = c THEN NoEnrollment ELSE enrollment[e]]
  /\ contract' = [e \in Enrollments |-> IF e[1] = c THEN NoContract ELSE contract[e]]
  /\ UNCHANGED <<mix, price, file>>

-----------------------------------------------------------------------------

Init ==
  /\ mix \in Mixes
  /\ price = 1
  /\ cohort = [c \in Cohorts |-> NoCohort(IF c \in Opened THEN "open" ELSE "absent")]
  /\ enrollment = [e \in Enrollments |-> NoEnrollment]
  /\ contract = [e \in Enrollments |-> NoContract]
  /\ file = [f \in Files |-> [stored |-> "never", figures |-> NoFigures]]
  /\ job = [w \in Workers |-> Idle]

CohortStep ==
  \/ Reprice
  \/ \E c \in Cohorts : DeleteCohort(c)
  \/ \E e \in Enrollments : CancelEnrollment(e) \/ Pay(e)

WorkerStep(w) ==
  \/ \E e \in Enrollments :
       \/ \E op \in {"enroll", "place"} : BeginEnroll(w, e, op)
       \/ BeginSign(w, e) \/ Reset(w, e)
  \/ Enroll(w) \/ Bill(w) \/ Freeze(w) \/ BeginSync(w) \/ Sync(w)
  \/ Upload(w) \/ Stamp(w) \/ Clean(w) \/ Fail(w) \/ Crash(w)
  \/ \E op \in {"cohort", "resize"} \cap mix, c \in Cohorts, row \in CohortRows : BeginCohort(w, op, c, row)
  \/ SaveCohort(w)

Next == CohortStep \/ \E w \in Workers : WorkerStep(w)

Spec == Init /\ [][Next]_vars

-----------------------------------------------------------------------------

\* Every table and every request in progress keeps its shape.
TypeOK ==
  /\ mix \in Mixes
  /\ price \in Prices
  /\ cohort \in [Cohorts -> CohortRows]
  /\ enrollment \in [Enrollments -> EnrollmentRows]
  /\ contract \in [Enrollments -> ContractRows]
  /\ file \in [Files -> FileRows]
  /\ job \in [Workers -> Jobs]

\* What a student downloads as signed is there, and shows the figures the row
\* keeps: however a signing, a reset and the removal of old files interleave.
SignedHasDocument ==
  \A e \in Enrollments : contract[e].status = "signed" /\ contract[e].file # None =>
    LET f == file[contract[e].file] IN f.stored = "yes" /\ f.figures = contract[e].figures

\* Nobody is taken in beyond a cohort's capacity, new or returning, through edits that
\* lower it below those already there, as long as requests come one at a time
\* (enrollments.py:22-25, cohorts.py:33-36, models/cohort.py:76-80).
NobodyBeyondCapacity ==
  [][Alone => \A c \in Cohorts :
       ActiveIn(c)' \subseteq ActiveIn(c) \/ Within(Cardinality(ActiveIn(c)'), c)]_vars

\* No teacher and no room has two cohorts at one time, while requests come singly.
NotDoubleBooked ==
  Alone => \A c \in Cohorts : Standing(c) => ~Conflicts(c, cohort[c])

\* A signed contract is a record of what was agreed: with one request at a time
\* only a reset takes the signature back, or the deletion of the whole cohort.
SignedStays ==
  [][\A e \in Enrollments :
       Alone /\ contract[e].status = "signed" /\ contract'[e].status # "signed"
         => cohort'[e[1]].status = "deleted" \/ \E w \in Workers : job'[w].step = "clean" /\ job'[w].e = e]_vars

\* The price of an enrollment, once frozen, moves with no later edit of the course
\* and no later cancellation and return; only a request that loaded the row before it
\* was frozen, while another froze it, still writes its own (plans.py:26-30, 66-74).
PriceStaysFrozen ==
  [][\A e \in Enrollments :
       enrollment[e].price # None /\ enrollment'[e].price # enrollment[e].price =>
         \/ cohort'[e[1]].status = "deleted"
         \/ ~Alone /\ \E w \in Workers : At(w, "freeze") /\ job[w].e = e /\ job[w].price # None]_vars

=============================================================================
