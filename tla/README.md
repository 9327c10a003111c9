# Formal models of the AI Academy Asia backend

The backend (`src/app`) is a Flask application over PostgreSQL. It runs under
gunicorn with two processes of four threads (`src/Dockerfile:25`); every request
has a database session of its own at READ COMMITTED, and an hourly tick
(`src/app/cli.py:91-109`) runs beside them. Rows are read without locks nearly
everywhere, so what two overlapping requests may do to one row is the main
question these modules ask. They are TLA+ specifications of the parts that carry
money, seats, records and access; TLC checks them on small instances and TLAPS
proves the most important properties for every value of the constants.

## The system

| Component (source) | State | Operations | What is hard | What makes it correct | Module |
|---|---|---|---|---|---|
| Payments (`services/payments`) | `invoices`, `payments`, `payment_installments`, `student_ledger` | create invoice, callback, poll, Golomt reconcile, gateway switch, plan create/add/update/waive/delete, refund, recompute | replayed and overlapping callbacks, short payments, a ledger recomputed from reads that other commits overtake | money is booked once and as collected; an invoice reads paid only for money; a full payment settles everything it should; the ledger adds up | `Settlement` |
| Gateways (`app/payments`) | what the bank or wallet took; a token per process | raise, verify, check, statement | answers come late, twice or never; threads share the token without a lock | whoever asks a gateway hands on the same payment; a transfer is found; no request with a dead token | `Gateways`, `TokenCache` |
| Public funnel (`services/enrolment`) | `seat_bookings`, `classroom_requests`, `promotions.used_count`, the invoice of a checkout | book, open invoice, poll, sweep, switch gateway | holds that lapse while the QR is open, seat races, the tick | one claim per seat; sold only for money; a sale is undone by a refund, or by a tick that had seen its hold run out | `SeatSale`, `SeatBooking` |
| Catalogue and seeds (`services/enrolment`, `seeds.py`) | courses, runs, `cohort_legacy_schedules`, promotions | cards, course pages, schedules, coupons, the price of a booking | two id spaces behind one parameter, deposits, rounding | what is shown is what is booked and billed | `Catalogue` |
| Refunds (`services/refunds.py`) | none of its own | void receipt, return money, issue replacement, give the seat back | a crash between steps, retries | no money back with a live receipt for more than is kept | `Receipts`, `Settlement`, `SeatBooking` |
| eBarimt (`services/ebarimt`) | `ebarimt_receipts`, receipts at the tax authority | issue, persist or void, return, replace, reissue, flush | the tax authority acts before the row is committed | at most one valid receipt per payment, known to the table | `Receipts` |
| Cohorts, enrollments, contracts | `cohorts`, `enrollments`, `student_contracts`, S3 | save and delete a cohort, enroll, cancel, return, sync, sign, reset | check-then-insert; the sync writes what it loaded; a file and a row go by two steps | nobody taken in beyond capacity, nobody double-booked, a signature stays and has its document, a price stays frozen | `Roster` |
| Sessions and handover (`attendance/{sessions,generate}.py`, `schedule_changes`) | `class_sessions`, `schedule_change_requests` | add, edit, delete, lay out; send, accept, reject, cancel, expire | row locks in some handlers only | no teacher covers two classes at once; a decision stands | `Handover` |
| Classwork (`attendance/checkin.py`, `learning`, `quizzes`, `certificates`) | `attendance`, `lesson_progress`, `lesson_notes`, exams and attempts, `certificates` | scan, mark, complete, note; quiz edits, start, answer, finish; issue, render, archive | scan and mark race, grading races answering, requirements checked long before the insert | lessons complete in order, a grade counts the answers, a certificate is earned | `Classwork` |
| Homework and files (`assignments`, `materials.py`, `courses.py`) | `assignments`, submissions, `student_files`, `lesson_materials`, templates, S3 | create, close, delete, upload, submit, review, clean up; put and remove materials and templates | versions by retry, a clean-up that acts on an old list, rows and objects in different orders | versions without gaps, no row without its object, nothing thrown away | `Homework` |
| Accounts (`app/auth`, `users.py`, `password_reset.py`) | `auth_accounts`, `refresh_tokens`, `otp_verifications` | login, rotate, logout, change, reset, codes, create, rename, deactivate, delete | rotation without a lock, resets that race logins | no session outlives account or password; a code survives few guesses | `Accounts` |
| Access (`auth/decorators.py`, `permissions.py`, `routes`, `access.py`) | none | every endpoint's guard | many endpoints, one forgotten check | content of a class ahead is not served; teachers keep to their cohorts | `Access` |
| Notifications, mail, PDF, storage, classrooms, timetables, configuration, migrations | rows edited one at a time, I/O | CRUD | nothing concurrent of interest | - | - |

Interactions: `checkout._invoice_for` and the polls of the funnel call
`payments.create_invoice`, `check_status` and, through it, `settle`; `settle`
calls `recompute_ledger` before its commit and the receipt issue after it;
`refunds.refund` calls the receipt, money and seat steps one after the other,
each with a commit of its own; enrolling calls `plans.on_enrolled`; attending
completes a lesson, and completed lessons, passed quizzes and a cleared balance
earn a certificate. There are no messages between components other than these
calls and the shared tables; where a module depends on another's table, it has an
action marked external that changes it (`Pay`, `Leave`, `Reprice`).

## Modules

| Module | What it is |
|---|---|
| `Settlement`, `SettlementProofs`, `MCSettlement` | Payments of one enrollment and of public checkouts. |
| `SeatSale` | What the public funnel promises about seats: an abstract specification. |
| `SeatBooking`, `SeatBookingProofs`, `MCSeatBooking` | The funnel itself: checkout, polls, sweep and the seat step of a refund. |
| `Receipts`, `ReceiptsProofs`, `MCReceipts` | The tax receipts of one payment: issue, replay, void, and what a refund does to them. |
| `Roster`, `RosterProofs`, `MCRoster` | Cohorts, enrollments and contracts. |
| `Handover`, `HandoverProofs`, `MCHandover` | Class sessions and their handover between teachers. |
| `Classwork`, `ClassworkProofs`, `MCClasswork` | Attendance, lessons, quizzes, certificates. |
| `Homework`, `HomeworkProofs`, `MCHomework` | Assignments, submissions, and the files of a course in S3. |
| `Accounts`, `MCAccounts` | Accounts, refresh tokens, reset codes. |
| `Access` | Who is served what: guards and endpoints, as functions of the tables. |
| `Catalogue` | What the marketing site is shown and what a booking costs, as functions of the tables. |
| `Gateways`, `TokenCache` | What is settled because of a gateway's answer; the token threads share. |
| `School`, `SchoolProofs` | The constants `Access`, `Catalogue` and `Gateways` have in common; the theorems about these three, `TokenCache` and `Accounts`. |

A `Proofs` module holds theorems only; an `MC` module the instances TLC explores.
Operators whose name ends in `_` and a word (`Protected_NotHanded`) are faults:
each replaces the operator it is named after to confirm that a property notices.

**Mixes.** Most modules have a variable `mix`, chosen at the start and never
changed: the set of requests the behaviour consists of. It lets one run explore
several combinations of operations that would be too many together. A mix that
contains `"alone"` serves one request at a time (a request begins when no other is
in progress; it may still fail or die half way). `Alone` in a property says: this
much is claimed only then, because overlapping requests do break it; the parts
outside it hold through every overlap.

### Settlement

Variables `invoice`, `payment`, `installment` and `ledger` are the tables; the
unique key of `payments` is its domain, so "two rows under one key" shows up as a
write to a recorded key. `collected` and `credit` are what the gateways know.
`job[w]` is what the request in thread `w` has loaded and where it is; `books[w]`
is what its `recompute_ledger` has read.

A request is cut where another one can run: after what it loaded (`Ask`,
`BeginEdit`, `BeginRefund`, ...), after the look-up of the existing payment
(`Lookup`), at the flush, at each of the three reads of `recompute_ledger`
(`SumPayments`, `SumPlan`, `ReadLedger`) and at the commit (`Commit`). The flush
locks row by row: a settlement the invoice (`LockInvoice`), the payment (`Flush`)
and the installment (`LockRest`), a delete the installment and then the invoices
that bill it. `WaitsFor` is who holds the row a request wants next, `Circle` a set of
requests that wait for one another, and `BreakCircle` PostgreSQL, which ends one of
them. From the flush on, a request's writes are visible to itself only:
`PaymentsSeen`, `InvoicesSeen` and `InstallmentsSeen` are the tables as its own
transaction sees them. `LedgerAfter` writes only the columns that differ from the
loaded row, as the ORM does. `Abort` is any failure before the next commit. Short
payments, replays, payments on cancelled invoices, a second first-recompute refused
by the unique key, and deletions that null the invoice's link are all in.

`Reports(i)` is what a gateway may say of an invoice. QPay says what it took in all,
under the id of whichever payment it lists first, so an invoice paid twice may be
reported under two ids (`"again"`); QPay and StorePay may name no amount, and the
billed one is booked (`"silent"`, `SaidPaid`). A Golomt line names any set of
invoices and matches each whose amount it has; a line without an id is booked under
the invoice's own reference (`"idless"`, `LineKey`). `settle` looks a payment up by
its id alone, so a line that names two invoices is one row of `payments` and marks
both invoices paid.

### SeatSale and SeatBooking

`SeatSale` has a claim per seat and four steps: hold a free seat, sell a seat that
is free or one's own to a buyer whose money arrived, release overdue holds, give
a seat back to whom money was returned. `SeatBooking` refines it
(`KeepsPromise`): the claim of a seat is its row with status `held` or `paid`.

`booking`, `invoice`, `lead` and `used` are the tables (`invoice[i].by` is a
history field: the checkout that raised it; `lost` another: the invoices whose request
died before the booking had them), `lapsed` says whose `expires_at` has
passed, `collected` what buyers have paid, `money` the payment's fate. Requests
are cut at every commit and at every read that is later acted upon:
`BeginBook` (with the commit of `_retire_lapsed_holds`), `PickSeat`,
`InsertBooking`, `RepickSeat` for a hold; `BeginOpen`, `AskOldGateway`,
`RetireInvoice`, `RenewInvoice`, `RaiseInvoice`, `LinkInvoice` for an invoice;
`BeginPoll`, `Verify`, `Reload`, `CheckLate`, `Sell` for a poll; `BeginSweep`,
`ReleaseRows` for the tick; `BeginRefund`, `FindSeat`, `GiveBackSeat` for the seat
step of a refund. `settle` is one step here (`Settled`): its interleavings are the
subject of `Settlement`. A request that finds the row it wants to write unchanged
in its own copy writes nothing (`marks`).

The tick reads the overdue holds and releases them a step later, so beside a sale it
takes back what was paid meanwhile. `SeatSale` has that as a release of a sold seat,
allowed only of a buyer whose hold ran out and only where the tick runs beside the
sales (`beside`, `SweepsBeside`).

### Receipts

`receipt` is the table, `filed` what the tax authority holds, `payment` the row of
one settled payment, `temp` the temp mode of the deployment. The PosAPI is asked
outside any transaction, so a request is cut before and after it: `Mint` then
`Store` (or `Restamp` for a replay), `Void` then `Mark`. `Store` is
`_persist_or_void`: a row the index refuses sends the request on to `Unmint`, which
hands the receipt back. A refund is `BeginRefund` (which reads the payment and
decides what is kept and whether the receipt stands), `Void` and `Mark`, `Pay`, and
`Replace` with the issue behind it. `Pay` writes the columns that differ from the
row it loaded (`seen`), which `Mark`'s commit makes it load again. `Fail` is a step
the PosAPI or the database refuses, `Crash` a thread that dies; what either leaves
between the tax authority and the table goes to the history variable `stranded`, so
that the invariants say that nothing else is ever left there. The status `failed`
is listed in `models/ebarimt.py` but nothing writes it, so the model has none.
A refund may name a receipt by its present or by an old number (`Named`,
`"old_number"`).

### Roster

`cohort`, `enrollment` and `contract` are the tables (an enrollment is a cohort and a
student, the unique key), `file` the documents in S3 with the figures they show.
Enrolling is cut between its check and its commit, between that and `on_enrolled`,
which reads the price in `Bill`, and its writing of the price in `Freeze`; an edit of
a cohort may move its capacity below the students it has (`"resize"`); a sync between
its read of the enrollments and its writes (`BeginSync`, `Sync`; `Followed` is the
rule table of `_sync_once`); signing into `BeginSign` (which locks the row,
`RowFree`), `Upload`, `Stamp`; a reset into `Reset` and `Clean`. A cohort's dates,
days and times are one of `Hours`, of which no two overlap, or unknown (`anytime`,
meets every hour) or absent (`undated`, meets none). One document stands for the
signed PDF and its signature image. The course has a template throughout.

### Handover

`session` and `request` are the tables, `now` the clock over the slots.
`BeginCreate`/`Send`, `BeginAccept`/`Clash`/`Book`, `BeginExpire`/`Expire` and
`BeginGenerate`/`Layout` are the requests cut in two or three; `Open` locks the
request row, `TeacherFree` the teacher's. Each teacher has one cohort, named after
the teacher. History: `moved`, the sessions whose slot was ever changed by an edit,
and `overlapped`, whether something was done while another request was half way.

### Classwork

The course is one module of `NumLessons` lessons, each with a fixed class day or
none; the quizzes are made for the first lesson. `progress` stands for `progress_pct`
as the number of lessons it was computed from. Completing a lesson goes by `Flush`
(the unique key, with the savepoint of `mark_completed`) and `Commit`; attempts are
locked (`AttemptFree`); issuing a certificate checks, then finds a number and inserts
it, five times (`BeginIssue`, `NextNumber`, `InsertCert`). Answers right and wrong
are sets of questions; `is_required` is true of every quiz. An edit of a quiz sets
whether it is active, its `max_attempts` and its `pass_percent`, and writes the
columns that differ (`BeginQuiz`, `SaveQuiz`); an attempt remembers the limit it was
begun under (`allowed`) and the mark it was graded against. Replacing the questions
deletes the attempts and is seen by nobody until it commits (`Wipe`, `Swap`); an
attempt begun in between keeps its row and loses its answers with the old questions
(`swaps`). A deletion and a replacement of one quiz can wait for one another, and
PostgreSQL ends one: here the deletion waits. The status of an attendance row is
attended (present, late) or missed (absent, excused).

### Homework

`bucket` is S3: the set of keys it holds. A student file and a material have keys of
their own, a template one per extension. Every operation that touches both is cut
between row and object in the order of the code: `Put` then `SaveFile`;
`DeleteMaterial` then `Sweep`; `ClearObject` then `ClearRow`; `Clean` (the object)
then `Purge` (the rows, one commit at the end). `Submit` takes the next version and
starts again, three times, when `VersionTaken`.

### Accounts

`account`, `token` and `code` are the tables. A password is an era: each change
begins a new one, whatever it is changed to, and a login remembers the era it
compared. `token[t].login` is the first token of its session, `code[c].guesses` the
wrong guesses it was compared with: both history. Requests are cut between what
they read and what they commit (`BeginLogin`/`Login`, `BeginRotate`/`Rotate`,
`BeginGuess`/`WrongGuess` or `ResetPassword`, ...); a bulk revocation and its commit
are one step. Access tokens (stateless), profiles and the flag
`must_change_password` (see `Access`) are left out.

### Access

A constant-level module: the tables at the moment of a request are CONSTANTS, an
account is a record, an endpoint is Flask's `blueprint.function`. `Routes(u)` is the
set of endpoints whose decorators let the account `u` through, one operator per
blueprint or part of one; `Serves(u, op, on)` adds what the handler and its service
ask of the object the endpoint is called on. `Outlines` and `BegunWork` name the
endpoints of lessons, quizzes and homework that do not ask whether the module is open.

### Gateways and TokenCache

`Gateways` is constant-level too: what QPay, StorePay and the Golomt statements hold
at a moment is given, `Statement` the rows of each account in the bank's order, and
`ByCallback`, `ByPoll` and `ByReconcile` are the payments handed to `settle`. Each
search ends at its first match, QPay's at its first paid row (`Match`, `MatchOfAll`,
`QPayReports`). An HTTP error is nothing reported. `Settlement` takes the same reports
as its environment. `TokenCache` has the steps of `get` and `set`
in the threads of one process, with a clock. `Timely` is the assumption that the
gateway's answer takes at most `Latency` and a thread rests at most `Delay` between
two steps, with `Latency + 2 * Delay <= Margin`: the margin is 30 s
(`base.py:134`) and the HTTP timeout 20 s (`base.py:90-92`), which leaves 5 s for
each of two steps. `Ttl` is one for all tokens.

### Catalogue

Constant-level: the tables are CONSTANTS, 0 an empty column, money in cents,
percentages in hundredths. `Card`, `ProgrammePage` and `Schedules` are what the site
is told, `Booked` what a booking with those answers gets, `SeededCourse`,
`SeededCohort` and `SeededTerms` what seeding makes of an entry (a course takes the
price of the first entry of its group). An id of our own may be a number of the old
system, which stands for something else: `ScheduleTaken` and `CourseTaken`. Texts and
labels are left out; `Round` is `quantize` with half to even.


## Runs

Bounds are the CONSTANTS of each cfg; there are no state constraints. A row of a
table is a model value or a number, so the number of rows bounds the number of
inserts, and operators such as `RowsLeft` keep a free row for every request that
will insert one.

| Run | Question | Bounds, and why they are enough |
|---|---|---|
| `settle` | Do overlapping settlements, refunds and new invoices keep payments, invoices, installments and ledger consistent? | 7 mixes: payments, refunds and invoices; a second payment of an invoice; answers without an amount; bank lines with plan edits; lines that name one invoice or both, with and without an id; plan edits under QPay; every operation alone, any dying. 2 threads, 2 invoices, 2 statement lines, 2 installments, price 2, amounts to 2 overlapping and 3 alone: short and full payments, a lower refund after a higher. Two threads suffice for a circle |
| `live` | Does all money reach the books? | 2 threads, 1 invoice, fair scheduling and polling, circles of requests included |
| `seat_sell` | One seat: held, lapsed, resold, paid late, swept, refunded. | 3 mixes: two requests and the tick that overlap and may die; two gateways alone, with callbacks; the sweep, a promotion and deaths alone. 3 bookings so that a seat changes hands twice, 2 invoices, 1 seat |
| `seat_live` | Does money that arrived become a sale? | 2 threads, 2 seats: collisions and a second seat to move to |
| `refunded_again` | `RefundedBookingStaysClosed`: violated by one request at a time. | 1 thread, 1 booking |
| `receipts` | Do the tax authority, the table and the payment agree after overlapping issues, replays, returns and refunds? | 4 mixes, old receipt numbers in each: overlapping with reissues and with receipts kept, and the same alone with crashes. 2 threads, 4 rows, 4 receipts, amount 3: an original, its replacement, a further one, and two partial refunds before the full one |
| `replayed_return` | `NeverTwoValid` with replays: violated by one request at a time. | 1 thread, 3 rows |
| `handover` | Do locks and indexes keep a teacher from covering two classes, while sessions move and disappear? | 2 threads, 2 teachers, 2 sessions, 2 requests, 1 day of 2 starts, sessions 2 long, so that different starts overlap |
| `roster` | Are places, timetable, contracts and prices kept? | 6 mixes. 2 cohorts, 2 students, 1 place (edited to none, one or no limit), 1 teacher, 2 hours, 2 documents, 2 prices: a second student for the one place, a second document after a reset |
| `classwork` | Do completion, grades and certificates follow from what was attended and answered? | 9 mixes. 2 lessons with class days before, on, after today or none; 2 quizzes, 2 attempts, an attempt limit of 1 that may be lifted, pass marks of 0, 70 and 100, questions of 1 and 3 points (at 70 % one answer passes, the other does not); 2 students for the certificate numbers |
| `homework` | Are versions, rows and objects in step? | 6 mixes. 1 assignment, 2 students, 2 uploads, 3 submissions (a retry after two), 3 materials, 2 template types |
| `accounts` | What is left of sessions and codes when account or password changes? | 8 mixes. 2 threads, 2 accounts, 2 emails, 4 tokens (two sessions rotated once), 3 codes of which 2 may be sent in an hour, 2 wrong guesses, 2 changes of a password |

Symmetry is used in safety runs only, over values the module treats alike: threads
everywhere, rows that are not numbered (in `Settlement` and `SeatBooking`),
students, teachers, emails. Seats, receipts, tokens, codes and
versions are numbers, because the code asks for the lowest or the newest.
`CHECK_DEADLOCK FALSE` is set where all rows of a table can be used up and nothing
is left to request (`handover`, `roster`, `classwork`, `homework`, `accounts`).

What the passing runs show.

- *Money.* Every row of `payments` is borne out by its gateway, for the very invoice
  it is booked to, and by no more than was taken unless the gateway named no amount. An
  invoice reads paid only when one recorded payment that names it covers it. A full
  payment leaves neither its invoice nor its installment open, whatever plan edit
  overlaps it; a payment returned in full reads refunded. The ledger never credits
  money that is not on the books, and is exact as long as requests do not overlap.
  Requests wait for one another in a circle only where an installment is being
  deleted, and money reaches the books through such circles too.
- *Seats.* A seat has one claim, is sold for money of that checkout, and every step
  is one `SeatSale` allows. A lead reads paid only while it has a sale, or had one
  that the tick took back.
- *Receipts.* The tax authority holds at most one valid receipt that issuing left
  there, and the table knows it; a receipt is not void there and live here unless a
  request broke off at that very point; one request at a time, no money goes back
  while a receipt for more than the buyer keeps stands, unless the refund asked for
  it or named a receipt returned before.
- *Classes.* A teacher who accepts from two devices covers no two sessions at one
  time, unless one was moved afterwards; one request at a time a decision is terminal,
  and under overlap only an expiry which had read the request before writes over
  it; a schedule laid out
  again leaves handed-over sessions where they are.
- *Records.* A contract that reads signed has its document, with the figures of its
  row, through every overlap of signing, reset and crash. One request at a time nobody
  is taken in beyond the capacity of the moment and no attempt is started past the limit
  of the moment, though either may be lowered under what is used already. A grade counts
  exactly the answers the attempt ends with. What a teacher marked no scan replaces.
  Lessons are completed in order. A certificate nobody forced goes to a student who
  has completed every lesson, and numbers are unique. Submission versions have no
  gap. No material points at a missing object.
- *Accounts.* No session outlives its account, a code is compared with no more
  wrong guesses than it may survive, and with one request at a time every live
  session knows the present password.

What the violated ones show. `refunded_again`: a poll after a full refund sells the
seat again. `replayed_return`: a temporary receipt that was returned can be
replayed beside its replacement.

**Seen while modelling.** The parts of the properties under `Alone` are there
because overlapping requests break them; TLC shows each within seconds when
`"alone"` is taken out of a mix.

- A gateway that says paid and names no amount is booked with the billed one
  (`settlement.py:37`, `qpay.py:126-128`, `storepay.py:140`), whatever it took; and
  QPay's total is booked under the id of the first row (`qpay.py:125-131`), so that an
  invoice paid twice can be on the books twice, each time with all that was there.
- One transfer whose description names two invoices of its amount marks both paid
  (`golomt.py:267-274`, `settlement.py:26-38`), and is on the books once.
- Two overlapping `recompute_ledger` write the ledger from sums another commit has
  overtaken (`ledger.py:41`), so that `LedgerFollows` needs `Alone`.
- Of two overlapping refunds the lower total may win; a gateway switch may retire
  an invoice that was paid meanwhile; a waiver may be written over a settled
  installment. A settlement and the delete of its installment can deadlock; PostgreSQL
  ends one of them.
- Two loads of a checkout page raise an invoice each, and one that dies between the
  two commits (`checkout.py:137-145`) leaves an invoice no booking points at; two polls
  count one use of a promotion twice; the sweep may release a seat sold since it
  looked, and the lead goes on reading paid.
- A refund that names an older, returned receipt leaves the live replacement
  standing (`refund_refs.py:62-68`, `refunds.py:144-145`), where `refunds.py:5-7` says
  the receipt goes first. `RefundTakesReceiptBack` names this as its one exception
  besides what the caller asked for; without it TLC finds a refund after a partial one,
  one request at a time.
- An expiry that loaded a request as pending writes over the decision taken meanwhile
  (`requests.py:91-102`), where `docs/schedule_change_api_v1.md:27` and
  `models/schedule_change.py:12` call decided requests terminal. `DecisionStands` keeps
  to the docs one request at a time, and names this as the one way they fail.
- Overlapping enrolments overfill a cohort, overlapping saves double-book a teacher
  or a room, and a contract sync that loaded a contract as pending writes over the
  signature it got since. `update_cohort` takes a capacity below the students there
  are (`cohorts.py:33-36`), which `models/cohort.py:80` reckons with.
- `on_enrolled` reads the price at `plans.py:27` and commits it at `plans.py:66-74`:
  two that overlap, with an edit of the course in between, write over a frozen price.
- Overlapping starts exceed `max_attempts`; overlapping saves leave a lesson with two
  active quizzes. A `max_attempts` lowered later (`authoring.py:80-81`) leaves the
  attempts already used standing, which `summary.py:35` reckons with.
- A quiz attempt begun while its questions are replaced loses its answers
  (`questions.py:67-81`).
- Overlapping uploads of a template with different file types may leave the row
  pointing at a removed object (`courses.py:180-192`); the clean-up of uploads may
  remove a file that was attached after its read.
- Overlapping rotations of one refresh token both issue a successor; overlapping
  requests for a reset code leave two codes open.
- `continue_target` (`path.py:134`) may name a lesson whose class is still ahead,
  where `docs/course_learning_api_contract_v1.md:124` reads otherwise. No module has
  it: nothing depends on it.
- A legacy id may equal an id of this system, and nothing prevents it (legacy schedule
  ids run from 22 to 75, our own from 1): the site then posts back a number that stands for
  something else. `CardBooksItsRun` and `ListedIsBookable` say exactly when.
- `quizzes.get_attempt` and `quizzes.finish_attempt` hand out the questions of an attempt
  once begun without asking whether the module is open (`attempts.py:113-114, 159-176`).
- A few endpoints of attendance, timetable and classroom schedules look at the
  caller themselves instead of going through `login_required`; `Access` has them as
  they are, and the theorem that a password change comes first names them.

## Fairness

`Settlement!Fairness`: a thread that can step does (weak fairness of `Progress`), and
a request waiting for a row lock gets it in turn, because PostgreSQL queues waiters
(strong fairness of the steps that wait). A circle of waits ends because PostgreSQL
breaks it (`BreakCircle`, weak), at the cost of one of its requests. `Polling`: the
payer's page asks again until the invoice is paid and the gateway repeats its
callback; strong, because a poll needs a free thread. `SeatBooking!Fairness` is the
same: threads run on, and the checkout page polls (`src/app/routes/public.py:73-76`).
Nothing is assumed about buyers, banks, expiry, refunds or the sweep. The other
modules state no fairness: nothing in that code repeats a request, so nothing is
promised to happen eventually.

`PaidCheckoutIsSold` allows that the seat went to another buyer after the hold
lapsed, and that the booking points at another invoice by now: the code promises
neither.

## Proofs

`SettlementProofs` proves, from `BoundsAssumption` and `NamesAssumption` alone,
for any number of threads, invoices, installments and statement lines and any
price,

- `TypeCorrect`: `Spec => []TypeOK`;
- `RecordedIsCollectedAlways`: `Spec => []RecordedIsCollected`;
- `PaidInvoiceCoveredAlways`: `Spec => []PaidInvoiceCovered`;
- `FullPaymentSettlesAlways`: `Spec => []FullPaymentSettles`;
- `PaidStaysPaidAlways`: `Spec => PaidStaysPaid`;
- `LedgerFollowsAlways`: `Spec => []LedgerFollows`;
- `LedgerHonestAlways`: `Spec => []LedgerHonest`.

None of them is inductive, and each layer of the argument rests on those before it.

1. `IInv`. A request carries the gateway's report from its first step to its commit,
   so the invariant says of every open request that what it carries is still borne
   out by the gateway (`RequestOK`, `Backed`; it stays so, because money only comes in
   and listed lines stay, `Borne`), and that two open transactions never hold
   one payment key and the key an open settlement holds is still free (`LocksOK`):
   this is what the row lock at the flush gives, and without it a second settlement
   would rewrite a payment that an invoice already rests on. Type correctness and the
   first two properties follow.
2. `Promise`: what a request knows about the plan and the payments when it commits
   (`Told`), that a plan is laid in order and what an invoice bills exists (`PlanOK`),
   and that what is booked is money for an invoice that was raised (`PaymentsOK`). `FullPaymentSettles`
   is in it.
3. `Singly`: under `Alone` one request is in progress, and what it has read is still
   true (`StillTrue`). With it each step keeps what `PaidStaysPaid` says.
4. `Figured` and `AllPlaced`: ledger and sums are integers, and a settlement that was
   told of an enrollment has an invoice of it.
5. `Follows`, for `LedgerFollows`: under `Alone` the ledger is `Totals` of the tables
   (`Current`), and what a recompute has read so far it would read again
   (`Reckoned`). Every step that moves money or plan therefore has a recompute
   before it ends.
6. `Solvent`, the first half of `LedgerHonest`, under any overlap: `Booked`, what was
   ever booked for the enrollment, never falls (`BookedGrows`), and what a request about
   to commit sees is no more than that and its own payment. The ledger may be stale; it
   is a sum that was true once.
7. `Balanced`, the second half: columns that differ from the loaded row are written
   one by one, so a row can mix two recomputes. Without plan edits what is due is
   always `Price`, and in every row, written or loaded, the balance is that less what
   is paid (`Priced`); `Written` says whether there is a row to load.

`NetPaid`, `TotalDue` and `Booked` are sums over functions, which the library defines
by a fold. The section on sums proves what is needed of them (the sum of no terms, of
one more, of a smaller set, of equal terms, of two sets together) for every
finite set, by descent to a smallest counterexample under the well-founded order of
cardinalities (`SmallestPart`), since the library's induction schemes are out of the
provers' reach.

`SeatBookingProofs` proves, from `CohortAssumption` and `RowsAssumption` alone and
with every request able to die at any step,

- `SeatTypeCorrect`: `Spec => []TypeOK`;
- `OneClaimPerSeatAlways`: `Spec => []OneClaimPerSeat`;
- `SoldForMoneyAlways`: `Spec => []SoldForMoney`;
- `PromotionCountedAtSaleAlways`: `Spec => PromotionCountedAtSale`;
- `PaidLeadHasSaleAlways`: `Spec => []PaidLeadHasSale`;
- `KeepsPromiseAlways`: `Spec => KeepsPromise`, the refinement of `SeatSale`;
- `OneOpenInvoiceAlways`: `Spec => []OneOpenInvoice`.

`OneClaimPerSeat` is held by the unique index alone: the check `_mark_paid` makes
before it sells is stale by the time it commits, and no lemma uses it.
`SoldForMoney` is not inductive, because `Sell` acts on an invoice read some
commits ago. The strengthening `IInv` adds `JobsOK`, which says that a request on
its way to sell carries an invoice of its own checkout that the buyer has paid,
and `LinksOK`, which says that a booking points at an invoice of its own and that
an invoice reads paid only with money behind it. Both survive the steps of other
requests because an invoice keeps its owner and collected money stays collected
(`Lasting`, `JobStep`). The step lemmas are grouped by what a step writes: nothing
(`ReadingKeeps`, `ChoosingKeeps`), invoices, new or sold claims, released ones.

The last three have no condition on the mixes. `SweepOK` says that the rows a sweep is
about to release are overdue, and still holds where it is served by itself; a
row it takes from a sale is one `SeatSale` lets it take (`SweepsBeside`), and keeps its
lead (`Backs`). Each step of `SeatBooking` is then a step of `SeatSale` or none: picking
and inserting a hold, selling, sweeping and giving back map to its four actions, all
others leave the claims alone. `_invoice_for` commits the invoice before the booking
points at it; `OpenOK` follows the open invoice from the retirement of the old one to
the link of the new one (`Linked`), and the invoice of a request that dies in between
is in `lost`, which `OneOpenInvoice` leaves out.

`ReceiptsProofs` proves, from `ReceiptsAssumption` alone and with every operation, every
refusal and every crash enabled,

- `ReceiptTypeCorrect`: `Spec => []TypeOK`;
- `ValidReceiptIsKnownAlways`: `Spec => []ValidReceiptIsKnown`;
- `OneValidReceiptAlways`: `Spec => []OneValidReceipt`;
- `RefundCanBeRetriedAlways`: `Spec => []RefundCanBeRetried`;
- `KeptIsReceiptedAlways`: `Spec => []KeptIsReceipted`;
- `RefundTakesReceiptBackAlways`: `Spec => RefundTakesReceiptBack`.

The invariant says where a receipt is: a DDTD is in the hands of one request
(`Carrying`, `Holding`) or in one row, never in both (`JobsOK`, `RowsOK`). `Known` and
`Marked` strengthen the two middle properties by naming who knows of a valid receipt
and who is about to mark a void one; both would be lost when a row is overwritten,
so `JobOK` adds that a replay overwrites only a receipt that issuing did not leave
(`Replaced`) and that a row about to be marked holds nothing valid (`Gone`), although
another request may have replayed it since it was loaded. `OneValidReceipt` then
follows from `Known` and from `OneLive`, which the unique index keeps up. The last
two are about refunds that nothing overlaps: `Lone` follows the figure a refund works
out from the loaded payment to the receipt it ends with, and `AllTakeBack` says that
a refund about to take a receipt back takes the only live one, and that one about to
pay has, unless it was told not to or named one that was returned before
(`TakesBack`).

`SchoolProofs` proves of `Accounts`, from `AccountsAssumption` alone,

- `AccountsTypeCorrect`: `Spec => []TypeOK`;
- `OneAccountPerEmailAlways`: `Spec => []OneAccountPerEmail`;
- `SessionsSoundAlways`: `Spec => []SessionsSound`;
- `CodesSoundAlways`: `Spec => []CodesSound`.

`SessionsSound` and `CodesSound` say two kinds of things: what holds through every
overlap, and what holds one request at a time. For the first, `TokensOK` and
`CodesOK` describe the rows and `JobsOK` what a request carries: a guess being
compared holds the lock on a code that is still open, which is why a wrong guess
cannot be lost. For the second, `AloneOK` says, under `Alone`, that one request is in
progress (`OneBusy`), that what it has read is therefore still true (`StillTrue`),
that a session knows the present password and has one live token (`NoneLeft`), and
that no more codes of an hour exist than allowed (`FewCodes`).

`HandoverProofs` proves, from `HandoverAssumption` alone,

- `HandoverTypeCorrect`: `Spec => []TypeOK`;
- `CoveredOnceAlways`: `Spec => []CoveredOnce`;
- `DecisionStandsAlways`: `Spec => DecisionStands`;
- `HandoverPinsSessionAlways`: `Spec => HandoverPinsSession`.

An acceptance searches for clashes, and books a step later. `HandoverInv` says why
nothing comes between: a request row that is locked is open (`HeldIsOpen`) and has one
holder (`HeldByOne`), and what the search found clear stays clear until the booking
(`BookIsClear`), because any other acceptance of that teacher waits for the teacher's
row. `AcceptedOnce`, `ExpiryIsDue`, `PlanHasCohort` and `PlanIsFresh` do the same for
decisions, the expiry and the layout of a timetable.

`RosterProofs` proves, from `RosterAssumption` alone,

- `RosterTypeCorrect`: `Spec => []TypeOK`;
- `SignedHasDocumentAlways`: `Spec => []SignedHasDocument`;
- `NobodyBeyondCapacityAlways`: `Spec => NobodyBeyondCapacity`;
- `NotDoubleBookedAlways`: `Spec => []NotDoubleBooked`;
- `PriceStaysFrozenAlways`: `Spec => PriceStaysFrozen`;
- `SignedStaysAlways`: `Spec => SignedStays`.

`Documents` tracks who may still remove a file: a document is named by one row or
held by one request, a file a reset is about to remove is no row's any more
(`FilesOK`, `HandsOK`). That gives `SignedHasDocument` through every overlap and
crash. The four others need `Singly`: under `Alone` one request runs (`OneBusy`), and
the seats, the timetable and the enrollments it checked are still so when it commits
(`StillTrue`). `NobodyBeyondCapacity` counts, with the library's facts about
cardinalities. Of `PriceStaysFrozen` the part about overlaps is about one step: only
`Freeze` writes a price, and only where the request had read the row before it had
one.

`HomeworkProofs` proves, from `HomeworkAssumption` alone,

- `HomeworkTypeCorrect`: `Spec => []TypeOK`;
- `VersionsInOrderAlways`: `Spec => []VersionsInOrder`;
- `FilesAreThereAlways`: `Spec => []FilesAreThere`;
- `HomeworkKeptAlways`: `Spec => HomeworkKept`.

Type and versions are proved together (`Invariance`): that a version is at most the
number of submissions needs that the versions of a student have no gap, and that a
submission takes a free row. `MaterialsOK` says that a material's object is put before
its row and removed after it, under any overlap. Templates and uploads go row and
object the other way round, so `TemplateOK` and `UploadsOK` hold only when requests
come one at a time and none dies (`Sheltered`), with `Singly` for what the clean-up has
read. `Licensed` says that a request in progress is one of its mix.

`ClassworkProofs` proves, from `ClassworkAssumption` alone (that there are finitely many
students is needed to count certificates),

- `ClassworkInvariant`: `Spec => []IInv`, and `ClassworkTypeCorrect`: `Spec => []TypeOK`;
- `CompletedInOrderAlways`: `Spec => []CompletedInOrder`;
- `AttendanceCountsAlways`: `Spec => []AttendanceCounts`;
- `GradedByItsAnswersAlways`: `Spec => []GradedByItsAnswers`;
- `QuizLimitsAlways`: `Spec => []QuizLimits`;
- `CertificatesSoundAlways`: `Spec => []CertificatesSound`;
- `RecordsStandAlways`: `Spec => RecordsStand`;
- `CertificateEarnedAlways`: `Spec => CertificateEarned`.

`IInv` has five parts. `Shape` is the types, with what a request in progress names.
`StudyOK` says that a lesson some request is about to complete is due already (`Due`
only becomes truer: lessons stay completed, days pass), and that a scan about to
commit commits the first record of its class (`ScansFirst`), which is why no scan
takes over a teacher's mark. `ExamsOK` says that an attempt being answered or graded
is open, held by one request and not about to be deleted by a replacement of the
questions (`Sits`, `RowsThere`), with the answers it has read. `CertsOK` says that
the numbers given are `1..n` for `n` certificates: a number found free is then the
next one, within as many as there are students, and `Certifies` carries the check of
the requirements to the insert. `AloneOK` is about requests that do not overlap: the
progress about to be written counts the lessons, no other quiz is active, no attempt
is open and one is left, at the step that relies on it (`StillTrue`).

Of the rest, `SchoolProofs` is about `Access`, `Catalogue` and `Gateways`, which are
functions of the tables, and about `TokenCache`:

- `NothingAheadIsServed`, `TeachersKeepToTheirCohorts`, `PasswordChangeComesFirst`
  and `OfficeIsStaffOnly`, for any tables: every endpoint of lessons, quizzes and
  homework that serves a student serves a module that is open to a cohort of the
  student's, or is an outline, or one of the student's own begun attempts and handed-in
  files; staff endpoints of a class serve a teacher for the teacher's cohorts only;
  with a temporary password nothing but the account's own endpoints, and those named
  as exceptions, answers; no role of a student or a teacher reaches the back office.
- `RoutedByCourseAlways`, `TransferIsFoundAlways` and `OneAnswerAlways`: a course's fees
  go to an account that collects for it; a transfer made as instructed, or another of
  that sum under that reference, is handed to `settle` by the poll and by the reconcile
  alike, however many accounts are configured and transfers match; and webhook, poll and
  reconcile, each with its own search for a first match, hand `settle` the same payment,
  which `settle` relies on, as it knows payments by their id alone - unless a transfer
  under the reference went to an account the buyer was not shown. `SentWhileGoodAlways`:
  `Timely /\ CacheSpec => []SentWhileGood`, from an invariant that bounds the age of the
  cached token and of what a thread took (`CacheOK`, `ThreadOK`).
- `CardBooksItsRunAlways`, `ListedIsBookableAlways`, `DepositAsPublishedAlways`,
  `ChargeIsBoundedAlways`, `CouponIsHonouredAlways`, `SeedIsPublishedAlways` and
  `SeedSellsAtPriceAlways`, where `Tables` is the shape of the columns with their
  unique keys. Nothing is assumed of how legacy ids and ids of this system lie: the
  first two say what becomes of a run whose id is taken.

Only model-checked: liveness (`MoneyReachesBooks`, `PaidCheckoutIsSold`), which is
out of the prover's reach, and `CircleNeedsDelete`, which TLC checks for two threads.
Only proved: `Access`, `Gateways`, `TokenCache` and `Catalogue`, whose theorems
quantify over tables and need no instance.

## Simplifications

- A commit is one step, and so is a bulk UPDATE with its commit. READ COMMITTED is
  modelled as reads of the committed tables at the step they are made; a row the
  session has loaded is kept until its commit, as the ORM does.
- A row lock is an operator (`RowFree`, `TeacherFree`, `AttemptFree`, `CodeFree`,
  `WaitsFor`, ...) over the jobs that hold it. Only `Settlement` takes the locks of one
  flush one by one; elsewhere they are taken together, and the one deadlock that order
  allows, of two changes of one quiz, is a wait. A unique index is an operator that refuses an insert
  (`IndexRefuses`, `VersionTaken`, `NumberTaken`, `EmailTaken`, `LayoutRefused`).
- An S3 call, a PosAPI call and a gateway call may be refused; for S3 and the
  PosAPI, the thread may also die before or after it. Mails are sent or not, and
  nothing depends on it.
- One enrollment, one payment, one course at a time, in the modules that follow one.
  Rows of different ones do not meet in the code.

## Not modelled, and why

Gateway HTTP, signatures, payload formatting, PDF, mail and push are I/O
whose outcome is "answered" or "failed". Listings, dashboards and the read-only
pages only read. Classrooms, profiles, titles and order of lessons, notifications and
links are edited one row at a time. Texts, galleries and most tables of the seeds,
configuration and migrations are data set up before the system runs; the unique
indexes the migrations create are in the models.

## Plan

1. `Refund`, which composes the receipt, money and seat steps under crashes and
   retries: a seat that a retried refund never frees.
2. Of the invariants that `Alone` guards, what still holds when only requests about
   different students overlap.
