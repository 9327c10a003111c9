------------------------------- MODULE Receipts -------------------------------
(***************************************************************************)
(* The tax receipts of one settled payment: src/app/services/ebarimt       *)
(* issues, replays and voids them, src/app/services/refunds.py takes them  *)
(* back around a refund.  The PosAPI of the tax authority is asked outside *)
(* any transaction, so what it holds and what the table says can come      *)
(* apart; how the refund itself is booked is Settlement's concern, what it *)
(* does to the seat is SeatBooking's.                                      *)
(***************************************************************************)
EXTENDS Integers, FiniteSets

CONSTANTS
  Workers,     \* request threads
  Mixes,       \* the sets of requests a behaviour may consist of
  Amount,      \* payment.amount
  Totals,      \* bound: the refund totals asked for while requests overlap
  MaxRows,     \* rows of ebarimt_receipts that can be inserted
  MaxFiled,    \* receipts the tax authority can hand out
  None         \* no row, no receipt

AllOps == {"issue", "reissue", "return", "refund", "keep", "old_number", "fail", "crash", "alone"}

ASSUME ReceiptsAssumption ==
  /\ Amount \in Nat \ {0} /\ Totals \subseteq 1..(Amount + 1) /\ MaxRows \in Nat /\ MaxFiled \in Nat
  /\ \A mix \in Mixes : mix \subseteq AllOps
  /\ None \notin 1..MaxRows /\ None \notin 1..MaxFiled

Rows == 1..MaxRows     \* ids of receipts: a later one is larger
Filed == 1..MaxFiled   \* their DDTDs
LowestOf(i, S) == i \in S /\ \A j \in S : i <= j

VARIABLES
  mix,       \* the requests of this behaviour
  temp,      \* EBARIMT_TEMP_MODE
  receipt,   \* table ebarimt_receipts
  filed,     \* what the tax authority holds
  payment,   \* row of payments
  job,       \* what each thread is doing
  stranded   \* history: receipts whose request broke off between the two

vars == <<mix, temp, receipt, filed, payment, job, stranded>>

Statuses == {"absent", "temp", "issued", "returned"}
ReceiptRows == [status: Statuses, temp: BOOLEAN, total: 0..Amount, ddtd: Filed \cup {None}]
FiledRows == [status: {"none", "valid", "void"}, by: {"issue", "reissue", None}]
PaymentRows == [status: {"paid", "partially_refunded", "refunded"}, refunded: 0..Amount]
Steps == {"idle", "mint", "store", "unmint", "restamp", "void", "mark", "pay", "replace", "end"}
Jobs == [op: AllOps, step: Steps, row: Rows \cup {None}, ddtd: Filed \cup {None},
         total: 0..Amount, kept: 0..Amount, keep: BOOLEAN, seen: PaymentRows]
Unrefunded == [status |-> "paid", refunded |-> 0]
Idle == [op |-> "issue", step |-> "idle", row |-> None, ddtd |-> None,
         total |-> 0, kept |-> 0, keep |-> FALSE, seen |-> Unrefunded]

-----------------------------------------------------------------------------

At(w, step) == job[w].step = step
Become(w, j) == job' = [job EXCEPT ![w] = j]
Finish(w) == Become(w, Idle)
Go(w, step) == Become(w, [job[w] EXCEPT !.step = step])
\* In an "alone" mix a request begins when the one before it has ended.
Alone == "alone" \in mix
Start(w, op, request) ==
  /\ At(w, "idle")
  /\ op \in mix
  /\ Alone => \A v \in Workers : At(v, "idle")
  /\ Become(w, [request EXCEPT !.op = op])

Existing == {r \in Rows : receipt[r].status # "absent"}
Live == {r \in Rows : receipt[r].status \in {"temp", "issued"}}

\* Fault: the index was never created.
IndexRefuses_Never(r) == FALSE

\* uq_ebarimt_receipts_payment: another row of the payment is not returned.
IndexRefuses(r) == Live \ {r} # {}

\* _receipt_for: the live receipt, else the newest.
Standing(r) ==
  IF Existing = {} THEN r = None
  ELSE LET S == IF Live # {} THEN Live ELSE Existing
       IN r \in S /\ \A q \in S : q <= r

\* Where a receipt to be issued goes first: temp mode asks nobody.
IssueStep == IF temp THEN "store" ELSE "mint"

\* Bound: a row and a receipt are kept for every request that may need one, and
\* overlapping requests leave the last of each unused.
RoomLeft ==
  LET busy == Cardinality({w \in Workers : ~At(w, "idle")}) + (IF Alone THEN 0 ELSE 1) IN
  /\ busy < Cardinality(Rows \ Existing)
  /\ busy < Cardinality({d \in Filed : filed[d].status = "none"})

-----------------------------------------------------------------------------
(* Issuing.                                                                *)

\* External: the merchant rights arrive and the service is redeployed.
GoLive ==
  /\ temp
  /\ \A w \in Workers : At(w, "idle")
  /\ temp' = FALSE
  /\ UNCHANGED <<mix, receipt, filed, payment, job, stranded>>

\* issue_for_payment, from settle, from finance or from the buyer's answer: any
\* receipt the payment has is returned as it is.
BeginIssue(w) ==
  /\ Existing = {}
  /\ RoomLeft
  /\ Start(w, "issue", [Idle EXCEPT !.step = IssueStep, !.kept = Amount])
  /\ UNCHANGED <<mix, temp, receipt, filed, payment, stranded>>

\* reissue and each round of reissue_all_temp: a temp receipt goes to the PosAPI.
\* reissue does not ask for the status.
BeginReissue(w, r) ==
  /\ ~temp
  /\ receipt[r].status # "absent" /\ receipt[r].temp
  /\ RoomLeft
  /\ Start(w, "reissue", [Idle EXCEPT !.step = "mint", !.row = r, !.kept = receipt[r].total])
  /\ UNCHANGED <<mix, temp, receipt, filed, payment, stranded>>

\* _send_to_posapi
Mint(w) ==
  LET reissue == job[w].op = "reissue" IN
  /\ At(w, "mint")
  /\ \E d \in Filed :
       /\ LowestOf(d, {e \in Filed : filed[e].status = "none"})
       /\ filed' = [filed EXCEPT ![d] =
            [status |-> "valid", by |-> IF reissue THEN "reissue" ELSE "issue"]]
       /\ Become(w, [job[w] EXCEPT !.ddtd = d, !.step = IF reissue THEN "restamp" ELSE "store"])
  /\ UNCHANGED <<mix, temp, receipt, payment, stranded>>

AfterStore(w) == IF job[w].op = "refund" THEN Go(w, "end") ELSE Finish(w)

NewRow(j) ==
  [status |-> IF j.ddtd = None THEN "temp" ELSE "issued",
   temp |-> j.ddtd = None, total |-> j.kept, ddtd |-> j.ddtd]

\* Fault: a refused insert leaves the minted receipt behind.
Store_NoVoid(w) ==
  /\ At(w, "store")
  /\ IF IndexRefuses(None) THEN Finish(w) /\ UNCHANGED receipt
     ELSE /\ \E r \in Rows :
               /\ LowestOf(r, Rows \ Existing)
               /\ receipt' = [receipt EXCEPT ![r] = NewRow(job[w])]
          /\ AfterStore(w)
  /\ UNCHANGED <<mix, temp, filed, payment, stranded>>

\* _persist_or_void: the row and its commit, unless the index refuses it.
Store(w) ==
  /\ At(w, "store")
  /\ IF IndexRefuses(None)
     THEN /\ IF job[w].ddtd = None THEN Finish(w) ELSE Go(w, "unmint")
          /\ UNCHANGED receipt
     ELSE /\ \E r \in Rows :
               /\ LowestOf(r, Rows \ Existing)
               /\ receipt' = [receipt EXCEPT ![r] = NewRow(job[w])]
          /\ AfterStore(w)
  /\ UNCHANGED <<mix, temp, filed, payment, stranded>>

\* ... and then hands the receipt back.
Unmint(w) ==
  /\ At(w, "unmint")
  /\ filed' = [filed EXCEPT ![job[w].ddtd].status = "void"]
  /\ Finish(w)
  /\ UNCHANGED <<mix, temp, receipt, payment, stranded>>

\* The row of a replayed receipt is stamped, whatever has become of it.
Restamp(w) ==
  LET r == job[w].row IN
  /\ At(w, "restamp")
  /\ receipt' = IF receipt[r].status = "returned" /\ IndexRefuses(r) THEN receipt
                ELSE [receipt EXCEPT ![r].status = "issued", ![r].temp = FALSE,
                                     ![r].ddtd = job[w].ddtd]
  /\ Finish(w)
  /\ UNCHANGED <<mix, temp, filed, payment, stranded>>

-----------------------------------------------------------------------------
(* Voiding.                                                                *)

\* return_receipt: a temp receipt is unknown to the PosAPI.
VoidStep(r) == IF receipt[r].temp THEN "mark" ELSE "void"

BeginReturn(w, r) ==
  /\ r \in Live
  /\ Start(w, "return", [Idle EXCEPT !.step = VoidStep(r), !.row = r, !.ddtd = receipt[r].ddtd])
  /\ UNCHANGED <<mix, temp, receipt, filed, payment, stranded>>

\* The PosAPI refuses to void a receipt twice, and that ends the request.
Void(w) ==
  LET d == job[w].ddtd IN
  /\ At(w, "void")
  /\ IF filed[d].status = "valid"
     THEN filed' = [filed EXCEPT ![d].status = "void"] /\ Go(w, "mark")
     ELSE Finish(w) /\ UNCHANGED filed
  /\ UNCHANGED <<mix, temp, receipt, payment, stranded>>

\* Fault: a return leaves its row to the commit of a caller that never comes.
Mark_LeftToCaller(w) ==
  /\ At(w, "mark")
  /\ IF job[w].op = "refund"
     THEN /\ receipt' = [receipt EXCEPT ![job[w].row].status = "returned"]
          /\ Become(w, [job[w] EXCEPT !.step = "pay", !.seen = payment])
     ELSE Finish(w) /\ UNCHANGED receipt
  /\ UNCHANGED <<mix, temp, filed, payment, stranded>>

\* The commit; a refund then reads the payment again.
Mark(w) ==
  /\ At(w, "mark")
  /\ receipt' = [receipt EXCEPT ![job[w].row].status = "returned"]
  /\ IF job[w].op = "refund" THEN Become(w, [job[w] EXCEPT !.step = "pay", !.seen = payment])
     ELSE Finish(w)
  /\ UNCHANGED <<mix, temp, filed, payment, stranded>>

-----------------------------------------------------------------------------
(* refund: receipt, money, replacement.                                    *)

\* What a request can name: the payment, or any receipt by its number.
Named(r) == Standing(r) \/ ("old_number" \in mix /\ r \in Existing)

\* Fault: the amount is taken for what goes back now.
Kept_Increment(total) ==
  IF payment.status = "refunded" \/ payment.refunded + total >= Amount THEN 0
  ELSE Amount - payment.refunded - total

\* _kept_after_refund: total is the running total returned.
Kept(total) == IF payment.status = "refunded" THEN 0 ELSE Amount - total

\* Fault: a receipt that covers what is kept is taken for the replacement.
Corrected_Covers(r, kept) == kept > 0 /\ receipt[r].total >= kept

\* Already the replacement this refund would issue.
Corrected(r, kept) == kept > 0 /\ receipt[r].total = kept

\* compute_refund_amount
Allowed(total) ==
  payment.status = "refunded" \/ (total >= payment.refunded /\ total <= Amount)

\* The receipt step looks at the receipt as it was loaded.
BeginRefund(w, r, total, keep) ==
  LET kept == Kept(total)
      standing == r = None \/ keep \/ receipt[r].status = "returned" \/ Corrected(r, kept)
  IN
  /\ Named(r)
  /\ Allowed(total)
  /\ keep => "keep" \in mix
  /\ kept > 0 /\ ~keep => RoomLeft
  /\ Start(w, "refund",
       [Idle EXCEPT !.step = IF standing THEN "pay" ELSE VoidStep(r), !.row = r,
                    !.ddtd = IF standing THEN None ELSE receipt[r].ddtd,
                    !.total = IF payment.status = "refunded" THEN payment.refunded ELSE total,
                    !.kept = kept, !.keep = keep, !.seen = payment])
  /\ UNCHANGED <<mix, temp, receipt, filed, payment, stranded>>

\* The row as the request writes it: only columns that differ from the loaded ones.
Refunded(j) ==
  LET status == IF j.total >= Amount THEN "refunded" ELSE "partially_refunded" IN
  [status |-> IF status = j.seen.status THEN payment.status ELSE status,
   refunded |-> IF j.total = j.seen.refunded THEN payment.refunded ELSE j.total]

\* payments.refund: refuses a total that was overtaken when the row was read.  Only
\* a partial refund of a receipted sale goes on to the replacement.
Pay(w) ==
  LET j == job[w]
      done == j.seen.status = "refunded"
      paid == [j EXCEPT !.ddtd = None, !.total = 0, !.seen = Unrefunded]
  IN
  /\ At(w, "pay")
  /\ IF ~done /\ j.total < j.seen.refunded THEN Finish(w) /\ UNCHANGED payment
     ELSE /\ payment' = IF done THEN payment ELSE Refunded(j)
          /\ IF j.row # None /\ ~j.keep /\ j.kept > 0 /\ payment'.status = "partially_refunded"
             THEN Become(w, [paid EXCEPT !.step = "replace"])
             ELSE Become(w, [paid EXCEPT !.step = "end"])
  /\ UNCHANGED <<mix, temp, receipt, filed, stranded>>

\* issue_replacement: a live receipt for the same figure is reused.
Replace(w) ==
  /\ At(w, "replace")
  /\ IF \E r \in Live : receipt[r].total = job[w].kept THEN Go(w, "end") ELSE Go(w, IssueStep)
  /\ UNCHANGED <<mix, temp, receipt, filed, payment, stranded>>

\* The answer, after the seat step.
Answer(w) ==
  /\ At(w, "end")
  /\ Finish(w)
  /\ UNCHANGED <<mix, temp, receipt, filed, payment, stranded>>

\* What a request that breaks off leaves between the tax authority and the table:
\* a receipt minted but not stored, or voided but not marked.
LeftBehind(w) ==
  IF job[w].step \in {"store", "unmint", "restamp", "mark"} THEN {job[w].ddtd} \ {None} ELSE {}

\* The PosAPI or the database refuses a step.  A refused insert still goes on to
\* hand its receipt back; nothing else is undone.
Fail(w) ==
  /\ "fail" \in mix
  /\ ~At(w, "idle") /\ ~At(w, "end")
  /\ IF At(w, "store") /\ job[w].ddtd # None
     THEN Go(w, "unmint") /\ UNCHANGED stranded
     ELSE Finish(w) /\ stranded' = stranded \cup LeftBehind(w)
  /\ UNCHANGED <<mix, temp, receipt, filed, payment>>

\* The thread dies anywhere, or an answer of the PosAPI is lost.
Crash(w) ==
  /\ "crash" \in mix
  /\ ~At(w, "idle")
  /\ stranded' = stranded \cup LeftBehind(w)
  /\ Finish(w)
  /\ UNCHANGED <<mix, temp, receipt, filed, payment>>

-----------------------------------------------------------------------------

Init ==
  /\ mix \in Mixes
  /\ temp \in BOOLEAN
  /\ receipt = [r \in Rows |-> [status |-> "absent", temp |-> FALSE, total |-> 0, ddtd |-> None]]
  /\ filed = [d \in Filed |-> [status |-> "none", by |-> None]]
  /\ payment = Unrefunded
  /\ job = [w \in Workers |-> Idle]
  /\ stranded = {}

Arrival(w) ==
  \/ BeginIssue(w)
  \/ \E r \in Rows : BeginReissue(w, r) \/ BeginReturn(w, r)
  \/ \E r \in Rows \cup {None}, total \in IF Alone THEN 1..(Amount + 1) ELSE Totals, keep \in BOOLEAN :
       BeginRefund(w, r, total, keep)

Progress(w) ==
  \/ Mint(w) \/ Store(w) \/ Unmint(w) \/ Restamp(w)
  \/ Void(w) \/ Mark(w) \/ Pay(w) \/ Replace(w) \/ Answer(w)

Next == GoLive \/ \E w \in Workers : Arrival(w) \/ Progress(w) \/ Fail(w) \/ Crash(w)

Spec == Init /\ [][Next]_vars

-----------------------------------------------------------------------------
(* Properties.                                                             *)

\* Type invariant.
TypeOK ==
  /\ mix \in Mixes
  /\ temp \in BOOLEAN
  /\ receipt \in [Rows -> ReceiptRows]
  /\ filed \in [Filed -> FiledRows]
  /\ payment \in PaymentRows
  /\ job \in [Workers -> Jobs]
  /\ stranded \subseteq Filed

Carried == {job[w].ddtd : w \in {v \in Workers : job[v].step \in {"store", "unmint", "restamp"}}}

\* The tax authority never holds two valid receipts that issuing left it with, apart
\* from those still under way and those a broken-off request left (issuance.py:73-81,
\* c1d4f2a70b83:11-12).
OneValidReceipt ==
  Cardinality({d \in Filed : filed[d].status = "valid" /\ filed[d].by = "issue"}
              \ (Carried \cup stranded)) <= 1

\* The same whoever filed them, replays included: "a payment must never hold two
\* valid DDTDs" (c1d4f2a70b83:9-10).
NeverTwoValid ==
  Cardinality({d \in Filed : filed[d].status = "valid"} \ (Carried \cup stranded)) <= 1

\* A valid receipt that issuing left with the tax authority stands live in the
\* table, so that it can be voided by its number (issuance.py:75-79).
ValidReceiptIsKnown ==
  \A d \in Filed \ (Carried \cup stranded) :
    filed[d].status = "valid" /\ filed[d].by = "issue" =>
      \E r \in Rows : receipt[r].ddtd = d /\ receipt[r].status = "issued"

\* A receipt is void at the tax authority and still live in the table only while a
\* request is between the two, or broke off right there: left so by anything else,
\* the refund could not be retried, as the second void is refused
\* (refunds.py:14-19, posapi.py:75-76).
RefundCanBeRetried ==
  \A r \in Live :
    receipt[r].ddtd \notin stranded \cup {None} /\ filed[receipt[r].ddtd].status = "void" =>
      \E w \in Workers : At(w, "mark") /\ job[w].row = r

\* One request at a time, no money goes back while a live receipt covers more than the
\* buyer keeps (refunds.py:5-7, 111-114), unless the request asked for it or named a
\* receipt returned before.  The second the docs do not grant: resolve takes an old
\* number (refund_refs.py:62-68), the receipt step reports it already returned
\* (refunds.py:144-145), and the live replacement stands while the money goes back.
RefundTakesReceiptBack ==
  [][Alone /\ payment' # payment =>
       \/ \A r \in Live : receipt[r].total <= Amount - payment'.refunded
       \/ \E w \in Workers : At(w, "pay") /\ ~At(w, "pay")' /\ (job[w].keep \/ job[w].row \notin Live)]_vars

\* When a partial refund answers, a live receipt stands for just what was kept, if
\* nothing overlapped it (refunds.py:24-29).
KeptIsReceipted ==
  \A w \in Workers :
    Alone /\ At(w, "end") /\ job[w].row # None /\ ~job[w].keep /\ payment.status = "partially_refunded" =>
      \E r \in Live : receipt[r].total = Amount - payment.refunded
=============================================================================
