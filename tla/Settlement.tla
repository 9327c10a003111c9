------------------------------ MODULE Settlement ------------------------------
(***************************************************************************)
(* Money coming in and going out for one enrollment, and for the public    *)
(* checkouts that belong to no enrollment: src/app/services/payments.      *)
(*                                                                         *)
(* Every request is served by a gunicorn thread with a database session of *)
(* its own, at READ COMMITTED.  A request is modelled as the steps between *)
(* which another request can run: what it loaded, the gateway's answer,    *)
(* the flush (from here its rows are locked and its writes are visible to  *)
(* itself only), the three reads of recompute_ledger, and the commit.      *)
(***************************************************************************)
EXTENDS Integers, FiniteSets, Functions

CONSTANTS
  Invoices,         \* rows of table invoices that can be inserted
  GolomtInvoices,   \* those raised through Golomt: paid by bank transfer
  Credits,          \* lines of the Golomt statement, and further QPay payments
  Workers,          \* request threads
  Mixes,            \* the sets of requests a behaviour may consist of
  MaxInstallments,  \* bound: rows a plan can ever have
  InstallmentCount, \* course.installment_count
  Price,            \* enrollment.price_amount
  MaxAmount,        \* bound: largest single amount
  MaxAlone,         \* bound: invoices raised one request at a time
  None              \* no row

Balance == 0        \* bills the enrollment, no installment in particular
Public == -1        \* bills a public checkout: no enrollment behind it
Installments == 1..MaxInstallments
Figures == 1..(Price + MaxInstallments * MaxAmount)  \* what a balance can come to
Keys == Invoices \cup Credits  \* the unique (provider, provider_payment_id)

SettleOps == {"settle", "switch"}
EditOps == {"plan", "add", "update", "delete", "waive"}
CreateOps == {"create", "checkout"}
Worlds == {"golomt", "idless", "silent", "again"}
AllOps == SettleOps \cup EditOps \cup CreateOps \cup Worlds \cup {"refund", "view", "abort", "alone"}

ASSUME BoundsAssumption ==
  /\ MaxInstallments \in Nat /\ InstallmentCount \in 1..MaxInstallments
  /\ Price \in Nat /\ MaxAmount \in Nat
ASSUME NamesAssumption ==
  /\ IsFiniteSet(Invoices) /\ IsFiniteSet(Credits)
  /\ GolomtInvoices \subseteq Invoices /\ Invoices \cap Credits = {}
  /\ None \notin Keys /\ (\A mix \in Mixes : mix \subseteq AllOps)

VARIABLES
  mix,          \* the requests of this behaviour
  invoice,      \* table invoices
  payment,      \* table payments, by its unique key
  installment,  \* table payment_installments
  ledger,       \* the enrollment's row of table student_ledger
  collected,    \* what QPay or StorePay has taken on an invoice so far
  credit,       \* what carries an id of its own: statement lines, QPay payments
  job,          \* what each request thread is doing
  books         \* what its recompute_ledger has read so far

vars == <<mix, invoice, payment, installment, ledger, collected, credit, job, books>>
tables == <<invoice, payment, installment, ledger>>
gateway == <<mix, collected, credit>>

\* In an "alone" mix a request begins when the one before it has ended; requests
\* that may overlap get by with amounts one smaller (bound).
Alone == "alone" \in mix
Amounts == 1..(IF Alone THEN MaxAmount ELSE MaxAmount - 1)

InvoiceRows == [status: {"absent", "pending", "paid", "cancelled"},
                on: Installments \cup {Balance, Public}, amount: Nat]
PaymentRows == [status: {"absent", "paid", "partially_refunded", "refunded"},
                inv: Invoices \cup {None}, amount: Nat, refunded: Nat]
InstallmentRows == [status: {"absent", "pending", "overdue", "paid", "waived", "deleted"},
                    amount: Nat]
CreditRows == [names: SUBSET Invoices, amount: Nat, own: BOOLEAN]
Steps == {"idle", "lookup", "mark", "hold", "flush", "rest", "sum", "plan", "row", "commit",
          "cancel", "quote", "gateway"}
Jobs == [op: AllOps, step: Steps, inv: Invoices \cup {None}, key: Keys \cup {None},
         on: Installments \cup {Balance, Public}, amt: Nat, was: Nat,
         saw: {"absent", "pending", "paid", "cancelled", "partially_refunded", "refunded"}]

Idle == [op |-> "view", step |-> "idle", inv |-> None, key |-> None,
         on |-> Balance, amt |-> 0, was |-> 0, saw |-> "absent"]
NoRow == [exists |-> FALSE, paid |-> 0, due |-> 0, balance |-> 0]
NothingRead == [paid |-> 0, due |-> 0, row |-> NoRow]

-----------------------------------------------------------------------------
(* What the tables add up to.                                              *)

\* The payments not wholly returned on the enrollment's invoices.
Held(pay, inv) == {k \in Keys : /\ pay[k].status \notin {"absent", "refunded"}
                                /\ inv[pay[k].inv].on # Public}

\* Fault: an invoice with any payment counts as paid in full.
NetPaid_Billed(pay, inv) ==
  SumFunction([k \in Held(pay, inv) |-> inv[pay[k].inv].amount])

\* Money held: those payments net of refunds.
NetPaid(pay, inv) ==
  SumFunction([k \in Held(pay, inv) |-> pay[k].amount - pay[k].refunded])

\* What is owed: the plan's installments that are not waived, or the price.
TotalDue(inst) ==
  LET plan == {n \in Installments : inst[n].status \notin {"absent", "deleted"}}
  IN IF plan = {} THEN Price
     ELSE SumFunction([n \in {m \in plan : inst[m].status # "waived"} |-> inst[n].amount])

Totals(paid, due) == [exists |-> TRUE, paid |-> paid, due |-> due, balance |-> due - paid]

\* Equal whole parts; the first carries the remainder.
Split(total, count) ==
  [n \in 1..count |-> IF n = 1 THEN total - (total \div count) * (count - 1)
                      ELSE total \div count]

\* create_default_plan: nothing is laid out for a free enrollment.
DefaultPlan ==
  LET parts == Split(Price, InstallmentCount)
  IN [n \in Installments |->
        IF n \in 1..InstallmentCount /\ Price > 0
        THEN [status |-> "pending", amount |-> parts[n]]
        ELSE [status |-> "absent", amount |-> 0]]

\* Invoices to be paid by bank transfer, where a behaviour has any.
Golomt(i) == "golomt" \in mix /\ i \in GolomtInvoices

\* A statement line without an id is booked under the invoice's own reference.
LineKey(c, i) == IF credit[c].own THEN c ELSE i

\* QPay lists the invoice's payments and the first in its list gives the id, in
\* whatever order it lists them; StorePay has one id per invoice.
PaymentIds(i) == {i} \cup {c \in Credits : i \in credit[c].names}

\* What QPay or StorePay says was paid: everything collected on the invoice, or,
\* where it names no amount, what was billed.
SaidPaid(i) == {collected[i]} \cup (IF "silent" \in mix THEN {invoice[i].amount} ELSE {})

\* What a gateway may say of an invoice.  Golomt's answer is the first statement
\* line, in the bank's order, that names the invoice, perhaps beside others, and
\* matches its amount exactly.
Reports(i) ==
  IF Golomt(i)
  THEN {[key |-> LineKey(c, i), amount |-> credit[c].amount] :
          c \in {d \in Credits : i \in credit[d].names /\ credit[d].amount = invoice[i].amount}}
  ELSE IF collected[i] > 0
  THEN {[key |-> id, amount |-> said] : id \in PaymentIds(i), said \in SaidPaid(i)}
  ELSE {}

-----------------------------------------------------------------------------
(* A request's own transaction.                                            *)

At(w, step) == job[w].step = step
Settling(w) == job[w].op \in SettleOps
Short(w) == job[w].amt < invoice[job[w].inv].amount
Flushed(w) == job[w].step \in {"rest", "sum", "plan", "row", "commit"}
HasAllRows(w) == Flushed(w) /\ ~At(w, "rest")
NeedsLedger(w) == job[w].on # Public

WritesInvoice(w) == Settling(w) /\ ~Short(w) /\ job[w].saw # "paid"
WritesPayment(w) == Settling(w) \/ job[w].op = "refund"
WritesInstallment(w) ==
  /\ job[w].on \in Installments
  /\ job[w].op \in EditOps \/ (Settling(w) /\ ~Short(w))

\* Fault: a waived installment lets go of the invoices that bill it.
Unlinks_Waive(w, i) == job[w].op \in {"delete", "waive"} /\ invoice[i].on = job[w].on

\* Deleting an installment writes the invoices that bill it (ON DELETE SET NULL).
Unlinks(w, i) == job[w].op = "delete" /\ invoice[i].on = job[w].on

\* A flush takes its rows one by one: a settlement the invoice, the payment, then
\* the installment; a delete the installment, then the invoices that bill it.
HoldsInvoice(v, i) ==
  \/ WritesInvoice(v) /\ job[v].inv = i /\ (At(v, "flush") \/ Flushed(v))
  \/ Unlinks(v, i) /\ HasAllRows(v)
HoldsPayment(v, k) == WritesPayment(v) /\ job[v].key = k /\ Flushed(v)
HoldsInstallment(v, n) ==
  /\ WritesInstallment(v) /\ job[v].on = n
  /\ IF Settling(v) THEN HasAllRows(v) ELSE Flushed(v)

\* The other requests whose rows w is waiting for.
WaitsFor(w) ==
  {v \in Workers \ {w} :
     \/ job[w].step \in {"hold", "mark", "cancel"} /\ HoldsInvoice(v, job[w].inv)
     \/ /\ At(w, "flush")
        /\ \/ WritesPayment(w) /\ HoldsPayment(v, job[w].key)
           \/ ~Settling(w) /\ WritesInstallment(w) /\ HoldsInstallment(v, job[w].on)
     \/ /\ At(w, "rest")
        /\ \/ Settling(w) /\ HoldsInstallment(v, job[w].on)
           \/ \E i \in Invoices : Unlinks(w, i) /\ HoldsInvoice(v, i)}

\* Requests that wait for one another in a circle.
Circle(ws) == ws # {} /\ \A w \in ws : WaitsFor(w) \cap ws # {}

\* A refund writes the running total and the status; like every ORM update it
\* touches only the columns whose value differs from the one it loaded.
AfterRefund(row, j) ==
  LET status == IF j.amt >= row.amount THEN "refunded" ELSE "partially_refunded"
  IN [row EXCEPT !.refunded = IF j.amt = j.was THEN @ ELSE j.amt,
                 !.status = IF status = j.saw THEN @ ELSE status]

\* Fault: books what was billed, not what was received.
PaymentsSeen_Billed(w) ==
  LET j == job[w] IN
  IF Settling(w)
  THEN [payment EXCEPT ![j.key] = [status |-> "paid", inv |-> j.inv,
                                   amount |-> invoice[j.inv].amount, refunded |-> 0]]
  ELSE IF j.op = "refund" THEN [payment EXCEPT ![j.key] = AfterRefund(@, j)]
  ELSE payment

PaymentsSeen(w) ==
  LET j == job[w] IN
  IF Settling(w)
  THEN [payment EXCEPT ![j.key] =
          [status |-> "paid", inv |-> j.inv, amount |-> j.amt, refunded |-> 0]]
  ELSE IF j.op = "refund" THEN [payment EXCEPT ![j.key] = AfterRefund(@, j)]
  ELSE payment

InvoicesSeen(w) ==
  LET j == job[w] IN
  IF WritesInvoice(w) THEN [invoice EXCEPT ![j.inv].status = "paid"]
  ELSE IF j.op = "delete"   \* ON DELETE SET NULL
  THEN [i \in Invoices |-> IF invoice[i].on = j.on
                           THEN [invoice[i] EXCEPT !.on = Balance] ELSE invoice[i]]
  ELSE invoice

InstallmentAfter(row, w) ==
  LET j == job[w] IN
  CASE Settling(w)      -> [row EXCEPT !.status = "paid"]
    [] j.op = "waive"   -> [row EXCEPT !.status = "waived"]
    [] j.op = "delete"  -> [row EXCEPT !.status = "deleted"]
    [] j.op = "update"  -> [row EXCEPT !.amount = IF j.amt = j.was THEN @ ELSE j.amt]
    [] j.op = "add"     -> [status |-> "pending", amount |-> j.amt]

InstallmentsSeen(w) ==
  LET j == job[w] IN
  IF ~WritesInstallment(w) THEN installment
  ELSE IF j.op = "plan" THEN DefaultPlan
  ELSE [installment EXCEPT ![j.on] = InstallmentAfter(@, w)]

\* The ledger row once w's columns are written over whatever is there now.
LedgerAfter(w) ==
  LET new == Totals(books[w].paid, books[w].due)
      old == books[w].row
  IN [f \in DOMAIN new |-> IF new[f] # old[f] THEN new[f] ELSE ledger[f]]

\* Two first recomputes both insert: the unique enrollment_id refuses one.
LedgerClash(w) == NeedsLedger(w) /\ ~books[w].row.exists /\ ledger.exists

Finish(w) == job' = [job EXCEPT ![w] = Idle]
Go(w, step) == job' = [job EXCEPT ![w].step = step]
Start(w, request) ==
  /\ At(w, "idle")
  /\ request.op \in mix
  /\ Alone => \A v \in Workers : At(v, "idle")
  /\ job' = [job EXCEPT ![w] = request]
  /\ UNCHANGED <<tables, gateway, books>>

-----------------------------------------------------------------------------
(* The outside world: the buyer's bank.                                    *)

\* External: the buyer pays any amount against a QPay or StorePay invoice; what is
\* paid after the first payment may come under an id of its own.
BuyerPays(i, amount) ==
  /\ ~Golomt(i)
  /\ invoice[i].status # "absent"
  /\ collected[i] + amount \in Amounts
  /\ collected' = [collected EXCEPT ![i] = @ + amount]
  /\ \/ UNCHANGED credit
     \/ /\ "again" \in mix /\ collected[i] > 0
        /\ \E c \in Credits :
             /\ credit[c].names = {}
             /\ credit' = [credit EXCEPT ![c] = [names |-> {i}, amount |-> amount, own |-> TRUE]]
  /\ UNCHANGED <<mix, tables, job, books>>

\* External: a transfer is posted whose description names these invoices; the bank
\* may give the line no id.
BankPosts(c, named, amount) ==
  /\ named # {} /\ \A i \in named : Golomt(i) /\ invoice[i].status # "absent"
  /\ credit[c].names = {}
  /\ \E own \in BOOLEAN :
       /\ own \/ "idless" \in mix
       /\ credit' = [credit EXCEPT ![c] = [names |-> named, amount |-> amount, own |-> own]]
  /\ UNCHANGED <<mix, tables, collected, job, books>>

-----------------------------------------------------------------------------
(* Settlement: a callback, a status poll, a Golomt reconcile, or the check *)
(* of the old invoice when a public buyer switches gateway.                *)

\* Fault: only invoices still open are asked about.
Ask_OnlyPending(w, i) ==
  /\ invoice[i].status = "pending"
  /\ \E report \in Reports(i) :
       Start(w, [Idle EXCEPT !.op = "settle", !.step = "lookup", !.inv = i,
                             !.key = report.key, !.amt = report.amount,
                             !.on = invoice[i].on, !.saw = invoice[i].status])

Ask(w, i) ==
  /\ invoice[i].status # "absent"
  /\ \E report \in Reports(i) :
       Start(w, [Idle EXCEPT !.op = "settle", !.step = "lookup", !.inv = i,
                             !.key = report.key, !.amt = report.amount,
                             !.on = invoice[i].on, !.saw = invoice[i].status])

SwitchGateway(w, i) ==
  LET request == [Idle EXCEPT !.op = "switch", !.inv = i, !.on = Public, !.saw = "pending"]
  IN /\ invoice[i].status = "pending"
     /\ invoice[i].on = Public
     /\ \/ /\ Reports(i) = {}
           /\ Start(w, [request EXCEPT !.step = "cancel"])
        \/ \E report \in Reports(i) :
             Start(w, [request EXCEPT !.step = "lookup", !.key = report.key,
                                      !.amt = report.amount])

\* Fault: a payment already on the books settles its invoice, short or not.
Lookup_ShortSettles(w) ==
  /\ At(w, "lookup")
  /\ Go(w, IF payment[job[w].key].status # "absent" THEN "mark"
           ELSE IF WritesInvoice(w) THEN "hold" ELSE "flush")
  /\ UNCHANGED <<tables, gateway, books>>

\* settle: is this payment already on the books?
Lookup(w) ==
  LET j == job[w] IN
  /\ At(w, "lookup")
  /\ IF payment[j.key].status = "absent"
     THEN Go(w, IF WritesInvoice(w) THEN "hold" ELSE "flush")
     ELSE IF payment[j.key].amount >= invoice[j.inv].amount THEN Go(w, "mark")
     ELSE IF j.op = "switch" THEN Go(w, "cancel")
     ELSE Finish(w)
  /\ UNCHANGED <<tables, gateway, books>>

\* settle, payment already recorded in full: make the invoice reflect it.
MarkInvoicePaid(w) ==
  LET j == job[w] IN
  /\ At(w, "mark")
  /\ WaitsFor(w) = {}
  /\ invoice' = IF j.saw = "paid" THEN invoice
                ELSE [invoice EXCEPT ![j.inv].status = "paid"]
  /\ Finish(w)
  /\ UNCHANGED <<payment, installment, ledger, gateway, books>>

\* The gateway switch retires the old invoice it believes unpaid.
CancelInvoice(w) ==
  /\ At(w, "cancel")
  /\ WaitsFor(w) = {}
  /\ invoice' = [invoice EXCEPT ![job[w].inv].status = "cancelled"]
  /\ Finish(w)
  /\ UNCHANGED <<payment, installment, ledger, gateway, books>>

-----------------------------------------------------------------------------
(* Finance: plan edits, refunds, and anything that only recomputes.        *)

\* on_enrolled, and finance's create_default_plan: only where there is no plan.
BeginPlan(w) ==
  /\ \A n \in Installments : installment[n].status = "absent"
  /\ Start(w, [Idle EXCEPT !.op = "plan", !.step = "flush", !.on = 1])

\* add_installment: seq is one past the last.
BeginAdd(w, n, amount) ==
  /\ installment[n].status = "absent"
  /\ \A m \in 1..(n - 1) : installment[m].status # "absent"
  /\ Start(w, [Idle EXCEPT !.op = "add", !.step = "flush", !.on = n, !.amt = amount])

Editable(n) == installment[n].status \in {"pending", "overdue"}

\* update_installment, waive_installment and delete_installment; an installment
\* that any invoice points at may not be deleted.
BeginEdit(w, op, n, amount) ==
  /\ Editable(n)
  /\ op = "delete" => \A i \in Invoices : invoice[i].on # n
  /\ Start(w, [Idle EXCEPT !.op = op, !.step = "flush", !.on = n, !.amt = amount,
                           !.was = installment[n].amount])

\* Fault: a lower figure is accepted after a higher one.
BeginRefund_NoFloor(w, k, total) ==
  /\ payment[k].status \in {"paid", "partially_refunded"}
  /\ total <= payment[k].amount
  /\ Start(w, [Idle EXCEPT !.op = "refund", !.step = "flush", !.key = k, !.amt = total,
                           !.on = invoice[payment[k].inv].on,
                           !.was = payment[k].refunded, !.saw = payment[k].status])

\* refund: total is the running amount returned, earlier refunds included.
BeginRefund(w, k, total) ==
  /\ payment[k].status \in {"paid", "partially_refunded"}
  /\ total <= payment[k].amount
  /\ total >= payment[k].refunded
  /\ Start(w, [Idle EXCEPT !.op = "refund", !.step = "flush", !.key = k, !.amt = total,
                           !.on = invoice[payment[k].inv].on,
                           !.was = payment[k].refunded, !.saw = payment[k].status])

\* plan(), POST .../recompute, on_enrolled for an enrollment that has its plan.
BeginView(w) == Start(w, [Idle EXCEPT !.op = "view", !.step = "sum"])

\* What the database refuses at flush: a second row under one unique key, or an
\* update of a row deleted since it was loaded.
Refused(w) ==
  LET j == job[w] IN
  \/ Settling(w) /\ payment[j.key].status # "absent"
  \/ j.op \in {"plan", "add"} /\ installment[j.on].status # "absent"
  \/ j.op \in {"update", "waive", "delete"} /\ installment[j.on].status = "deleted"

\* Fault: settling forgets the installment.
Marks_Nothing(w) == IF invoice[job[w].inv].on = Public THEN Public ELSE Balance

\* The installment a settlement marks: its own, unless that is paid or gone.
Marks(w) ==
  LET n == invoice[job[w].inv].on IN
  IF n \in Installments /\ installment[n].status \in {"absent", "deleted", "paid"}
  THEN Balance ELSE n

\* The rows still to be had once the first are: the installment a settlement
\* closes, the invoices a delete lets go of.
RowsRemain(w) ==
  \/ Settling(w) /\ ~Short(w) /\ Marks(w) \in Installments
  \/ \E i \in Invoices : Unlinks(w, i)

\* The request once its first rows are written and held.
Locked(w) ==
  [job[w] EXCEPT !.step = IF RowsRemain(w) THEN "rest"
                          ELSE IF NeedsLedger(w) THEN "sum" ELSE "commit",
                 !.on = IF Settling(w) THEN Marks(w) ELSE @]

\* Fault: a short payment is booked without refreshing the ledger.
Flush_ShortSkipsLedger(w) ==
  /\ At(w, "flush")
  /\ WaitsFor(w) = {}
  /\ IF Refused(w) THEN Finish(w)
     ELSE IF Settling(w) /\ Short(w)
     THEN job' = [job EXCEPT ![w] = [@ EXCEPT !.step = "commit", !.on = Public]]
     ELSE job' = [job EXCEPT ![w] = Locked(w)]
  /\ UNCHANGED <<tables, gateway, books>>

\* settle, flushing: first the invoice row, then the payment, then, its status
\* having been read without a lock, the installment.  Rows are kept to the commit.
LockInvoice(w) ==
  /\ At(w, "hold")
  /\ WaitsFor(w) = {}
  /\ Go(w, "flush")
  /\ UNCHANGED <<tables, gateway, books>>

Flush(w) ==
  /\ At(w, "flush")
  /\ WaitsFor(w) = {}
  /\ IF Refused(w) THEN Finish(w)
     ELSE job' = [job EXCEPT ![w] = Locked(w)]
  /\ UNCHANGED <<tables, gateway, books>>

LockRest(w) ==
  /\ At(w, "rest")
  /\ WaitsFor(w) = {}
  /\ IF Settling(w) /\ installment[job[w].on].status = "deleted"
     THEN Finish(w) ELSE Go(w, "sum")
  /\ UNCHANGED <<tables, gateway, books>>

\* External: PostgreSQL ends one of the transactions of a circle.
BreakCircle(w) ==
  /\ \E ws \in SUBSET Workers : w \in ws /\ Circle(ws)
  /\ Finish(w)
  /\ UNCHANGED <<tables, gateway, books>>

-----------------------------------------------------------------------------
(* recompute_ledger, read by read, and the commit.                         *)

SumPayments(w) ==
  /\ At(w, "sum")
  /\ books' = [books EXCEPT ![w].paid = NetPaid(PaymentsSeen(w), InvoicesSeen(w))]
  /\ Go(w, "plan")
  /\ UNCHANGED <<tables, gateway>>

SumPlan(w) ==
  /\ At(w, "plan")
  /\ books' = [books EXCEPT ![w].due = TotalDue(InstallmentsSeen(w))]
  /\ Go(w, "row")
  /\ UNCHANGED <<tables, gateway>>

ReadLedger(w) ==
  /\ At(w, "row")
  /\ books' = [books EXCEPT ![w].row = ledger]
  /\ Go(w, IF job[w].op = "create" THEN "quote" ELSE "commit")
  /\ UNCHANGED <<tables, gateway>>

\* After a short payment a gateway switch still finds its invoice pending.
StillToCancel(w) ==
  job[w].op = "switch" /\ InvoicesSeen(w)[job[w].inv].status = "pending"

Commit(w) ==
  /\ At(w, "commit")
  /\ IF LedgerClash(w)
     THEN Finish(w) /\ UNCHANGED tables
     ELSE /\ payment' = PaymentsSeen(w)
          /\ invoice' = InvoicesSeen(w)
          /\ installment' = InstallmentsSeen(w)
          /\ ledger' = IF NeedsLedger(w) THEN LedgerAfter(w) ELSE ledger
          /\ IF StillToCancel(w) THEN Go(w, "cancel") ELSE Finish(w)
  /\ books' = [books EXCEPT ![w] = NothingRead]
  /\ UNCHANGED gateway

\* Anything not yet committed can fail: the gateway refuses, the thread is killed.
Abort(w) ==
  /\ "abort" \in mix
  /\ ~At(w, "idle")
  /\ Finish(w)
  /\ books' = [books EXCEPT ![w] = NothingRead]
  /\ UNCHANGED <<tables, gateway>>

-----------------------------------------------------------------------------
(* create_invoice: decide the amount, ask the gateway, insert.             *)

\* Bound: a row is kept for every request that is already raising an invoice; one
\* request at a time raises no more than MaxAlone.
RowsLeft ==
  /\ Cardinality({v \in Workers : job[v].op \in CreateOps})
       < Cardinality({i \in Invoices : invoice[i].status = "absent"})
  /\ Alone => Cardinality({i \in Invoices : invoice[i].status # "absent"}) < MaxAlone

BeginInstallmentInvoice(w, n) ==
  /\ RowsLeft
  /\ installment[n].status \notin {"absent", "deleted", "paid", "waived"}
  /\ Start(w, [Idle EXCEPT !.op = "create", !.step = "gateway", !.on = n,
                           !.amt = installment[n].amount])

\* amount = 0: the caller named none, so the whole balance is billed.
BeginBalanceInvoice(w, amount) ==
  /\ RowsLeft
  /\ Start(w, [Idle EXCEPT !.op = "create", !.step = "sum", !.amt = amount])

BeginPublicInvoice(w, amount) ==
  /\ RowsLeft
  /\ Start(w, [Idle EXCEPT !.op = "checkout", !.step = "gateway", !.on = Public, !.amt = amount])

\* _amount_owed for the balance: nothing due, or more than is due, is refused.
Quote(w) ==
  LET balance == books[w].due - books[w].paid IN
  /\ At(w, "quote")
  /\ \/ /\ balance <= 0 \/ job[w].amt > balance
        /\ Finish(w)
        /\ books' = [books EXCEPT ![w] = NothingRead]
     \/ \E value \in Figures :
          /\ value <= balance
          /\ value = IF job[w].amt = 0 THEN balance ELSE job[w].amt
          /\ job' = [job EXCEPT ![w] = [@ EXCEPT !.step = "gateway", !.amt = value]]
          /\ UNCHANGED books
  /\ UNCHANGED <<tables, gateway>>

\* The gateway has answered: insert the row and commit, together with the ledger
\* that a balance invoice recomputed before the gateway was asked.
RaiseInvoice(w, i) ==
  LET j == job[w] IN
  /\ At(w, "gateway")
  /\ invoice[i].status = "absent"
  /\ ~\E v \in Workers : Flushed(v) /\ job[v].op = "delete" /\ job[v].on = j.on
  /\ IF \/ j.on = Balance /\ LedgerClash(w)
        \/ j.on \in Installments /\ installment[j.on].status = "deleted"
     THEN UNCHANGED tables
     ELSE /\ invoice' = [invoice EXCEPT ![i] =
                           [status |-> "pending", on |-> j.on, amount |-> j.amt]]
          /\ ledger' = IF j.on = Balance THEN LedgerAfter(w) ELSE ledger
          /\ UNCHANGED <<payment, installment>>
  /\ Finish(w)
  /\ books' = [books EXCEPT ![w] = NothingRead]
  /\ UNCHANGED gateway

-----------------------------------------------------------------------------
(* on_enrolled has frozen the price and may have laid out the plan; a      *)
(* request that died before it leaves an enrollment with neither a plan    *)
(* nor a ledger.                                                           *)

Init ==
  /\ mix \in Mixes
  /\ invoice = [i \in Invoices |-> [status |-> "absent", on |-> Balance, amount |-> 0]]
  /\ payment = [k \in Keys |-> [status |-> "absent", inv |-> None, amount |-> 0, refunded |-> 0]]
  /\ \/ installment = DefaultPlan /\ ledger = Totals(0, Price)
     \/ /\ installment = [n \in Installments |-> [status |-> "absent", amount |-> 0]]
        /\ ledger = NoRow
  /\ collected = [i \in Invoices |-> 0]
  /\ credit = [c \in Credits |-> [names |-> {}, amount |-> 0, own |-> TRUE]]
  /\ job = [w \in Workers |-> Idle]
  /\ books = [w \in Workers |-> NothingRead]

World ==
  \/ \E i \in Invoices, amount \in Amounts : BuyerPays(i, amount)
  \/ \E c \in Credits, named \in SUBSET Invoices, amount \in Amounts : BankPosts(c, named, amount)

Arrival(w) ==
  \/ \E i \in Invoices : Ask(w, i) \/ SwitchGateway(w, i)
  \/ BeginPlan(w)
  \/ \E n \in Installments, amount \in Amounts : BeginAdd(w, n, amount)
  \/ \E n \in Installments, amount \in Amounts : BeginEdit(w, "update", n, amount)
  \/ \E op \in {"waive", "delete"}, n \in Installments : BeginEdit(w, op, n, 0)
  \/ \E k \in Keys, total \in Amounts : BeginRefund(w, k, total)
  \/ BeginView(w)
  \/ \E n \in Installments : BeginInstallmentInvoice(w, n)
  \/ \E amount \in Amounts \cup {0} : BeginBalanceInvoice(w, amount)
  \/ \E amount \in Amounts : BeginPublicInvoice(w, amount)

Progress(w) ==
  \/ Lookup(w) \/ MarkInvoicePaid(w) \/ CancelInvoice(w)
  \/ LockInvoice(w) \/ Flush(w) \/ LockRest(w) \/ BreakCircle(w)
  \/ SumPayments(w) \/ SumPlan(w) \/ ReadLedger(w) \/ Commit(w)
  \/ Quote(w) \/ \E i \in Invoices : RaiseInvoice(w, i)

Next == World \/ \E w \in Workers : Arrival(w) \/ Progress(w) \/ Abort(w)

Spec == Init /\ [][Next]_vars

\* Row locks are queued, so a waiting request gets its turn (SF); every other step
\* is the thread's own, or PostgreSQL's after its deadlock timeout (WF).
Fairness ==
  \A w \in Workers :
    /\ WF_vars(Progress(w))
    /\ SF_vars(LockInvoice(w) \/ Flush(w) \/ LockRest(w)
                 \/ MarkInvoicePaid(w) \/ CancelInvoice(w))

\* The payer's page polls until the invoice is paid, and the gateway calls back.
Polling == \A i \in Invoices : SF_vars(\E w \in Workers : Ask(w, i))

FairSpec == Spec /\ Fairness /\ Polling

-----------------------------------------------------------------------------
(* Properties.                                                             *)

Recorded(k) == payment[k].status # "absent"
Full(k) == payment[k].amount >= invoice[payment[k].inv].amount

\* Type invariant.
TypeOK ==
  /\ mix \in Mixes
  /\ invoice \in [Invoices -> InvoiceRows]
  /\ payment \in [Keys -> PaymentRows]
  /\ installment \in [Installments -> InstallmentRows]
  /\ collected \in [Invoices -> Nat]
  /\ credit \in [Credits -> CreditRows]
  /\ job \in [Workers -> Jobs]

\* The gateway bears out a payment of this amount, under this id, on invoice i: no
\* more than was taken, or what was billed where it named no amount, or just what a
\* bank line says.
Borne(k, i, amount) ==
  IF Golomt(i)
  THEN \E c \in Credits :
         i \in credit[c].names /\ k = LineKey(c, i) /\ amount = credit[c].amount
  ELSE /\ k \in PaymentIds(i) /\ collected[i] > 0
       /\ amount <= collected[i] \/ ("silent" \in mix /\ amount = invoice[i].amount)

\* Every payment row is borne out by the gateway, for the very invoice it is booked
\* to: whatever overlaps, replays or dies, none books more than was taken, unless
\* the gateway named no amount (settlement.py:26-59, qpay.py:125-138).
RecordedIsCollected ==
  \A k \in Keys : Recorded(k) => Borne(k, payment[k].inv, payment[k].amount)

\* The invoices a payment id stands for: a transfer can name several.
Names(k, i) == k = i \/ (k \in Credits /\ i \in credit[k].names)

\* An invoice reads paid only if one payment on the books that names it covers all
\* of it: a short payment, however often it is reported again, settles nothing.  The
\* payment need not be booked to the invoice: a transfer naming two invoices settles
\* both, and is on the books once (settlement.py:26-38, golomt.py:267-274).
PaidInvoiceCovered ==
  \A i \in Invoices : invoice[i].status = "paid" =>
    \E k \in Keys : Recorded(k) /\ Names(k, i) /\ payment[k].amount >= invoice[i].amount

\* Money booked in full leaves nothing half done: the enrollment's invoice reads
\* paid and its installment is no longer open (settlement.py:60-67, one commit).
\* Nor does money returned: no more than the payment goes back, however refunds
\* overlap, and a payment returned in full reads refunded (refund_money.py:68-71).
FullPaymentSettles ==
  \A k \in Keys : Recorded(k) =>
    /\ LET row == invoice[payment[k].inv] IN
       Full(k) /\ row.on # Public =>
         /\ row.status = "paid"
         /\ row.on \in Installments => installment[row.on].status \in {"paid", "waived"}
    /\ payment[k].refunded <= payment[k].amount
    /\ payment[k].refunded = payment[k].amount /\ payment[k].refunded > 0 =>
         payment[k].status = "refunded"

\* What has ever been booked for the enrollment, refunds left aside.
Booked(pay, inv) ==
  LET rows == {k \in Keys : pay[k].status # "absent" /\ inv[pay[k].inv].on # Public}
  IN SumFunction([k \in rows |-> pay[k].amount])

\* However stale the figures a recompute writes column by column, the ledger never
\* credits the student with money that is not on the books, and its balance is what
\* is due minus what is paid, unless a plan was edited meanwhile: of a new due and a
\* new paid total the later balance knows only one (ledger.py:41-66,
\* models/ledger.py:93-98).
LedgerHonest ==
  /\ ledger.paid <= Booked(payment, invoice)
  /\ Alone \/ mix \cap EditOps = {} => ledger.balance = ledger.due - ledger.paid

\* Between requests the ledger is what the source rows add up to (ledger.py:29-36).
LedgerCurrent ==
  ledger.exists /\ (\A w \in Workers : At(w, "idle"))
    => ledger = Totals(NetPaid(payment, invoice), TotalDue(installment))

\* The same when no two requests overlapped, though any of them may have died.
LedgerFollows == Alone => LedgerCurrent

\* Once recorded, a payment is never rewritten by a later settlement, replayed or
\* overlapping (models/payment.py:19-21).  One request at a time, a paid invoice is
\* never retired (checkout.py:118-119), finance cannot change a paid installment
\* (plans.py:120-123), and money handed back is not taken back by a lower figure
\* (refund_money.py:40).
PaidStaysPaid ==
  [][/\ \A k \in Keys : Recorded(k) =>
          /\ payment'[k].inv = payment[k].inv /\ payment'[k].amount = payment[k].amount
          /\ payment[k].status # "paid" => payment'[k].status \notin {"absent", "paid"}
     /\ Alone =>
          /\ \A i \in Invoices : invoice[i].status = "paid" => invoice'[i].status = "paid"
          /\ \A n \in Installments :
               installment[n].status = "paid" => installment'[n].status = "paid"
          /\ \A k \in Keys : payment'[k].refunded >= payment[k].refunded]_vars

\* Settlements, refunds, gateway switches and plan edits never wait for one another in
\* a circle; only the delete of an installment, which goes on to the invoices that
\* bill it, can be part of one (settlement.py:60-64, plans.py:137-144).
CircleNeedsDelete ==
  \A ws \in SUBSET Workers : Circle(ws) => \E w \in ws : job[w].op = "delete"

\* Money a gateway reports is eventually on the books, whatever races it
\* (callbacks.py:71-80).
MoneyReachesBooks ==
  \A i \in Invoices : collected[i] > 0 /\ ~Golomt(i) ~> Recorded(i)
=============================================================================
