-------------------------------- MODULE Gateways --------------------------------
(***************************************************************************)
(* What the gateways of src/app/payments answer about an invoice, and what  *)
(* services/payments/callbacks.py hands to settle because of it: a webhook, *)
(* a poll of one invoice, and a reconcile of the Golomt statements.  What   *)
(* the gateways hold at that moment are the constants.  Money is in cents.  *)
(***************************************************************************)
EXTENDS School, Integers, Sequences

CONSTANTS
  Invoices,        \* table invoices
  References,      \* merchant references: sender_invoice_no
  Ids,             \* what gateways call their invoices, loans and payments
  CourseKeys,      \* course slugs and titles, as routing keys
  Settings,        \* keys of the configuration that have a value
  PaymentsSandbox, \* PAYMENTS_SANDBOX
  Listed,          \* GOLOMT_CORP_ACCOUNTS: a list of [number, courses, default]
  Window,          \* GOLOMT_CORP_MATCH_WINDOW_DAYS
  QPayAnswer,      \* payment/check of QPay, by the id of an invoice: a total and a list
  Loan,            \* loan/details of StorePay, by the id of a loan
  Statement        \* the Golomt statement, a list of rows, of every account

Numbers == {Listed[k].number : k \in DOMAIN Listed}
InvoiceRows ==
  [provider: {"qpay", "storepay", "golomt", "sandbox"}, ref: References, amount: Nat,
   status: {"pending", "paid", "cancelled", "failed"},
   id: Ids \cup References \cup {None},   \* provider_invoice_id
   account: Numbers \cup {None}]          \* provider_meta.account_number

\* A statement row: the references its description carries, which may be several,
\* and the day it is posted.
StatementRows ==
  [id: Ids \cup {None}, amount: Int \cup {None}, direction: {"credit", "debit", ""},
   names: SUBSET References, day: Int]

First(S) == CHOOSE k \in S : \A j \in S : k <= j
Earliest(S) == IF S = {} THEN {} ELSE {First(S)}
OrElse(a, b) == IF a # None THEN a ELSE b

-----------------------------------------------------------------------------
(* The registry.                                                           *)

Internal == {"sandbox"}
Supported == {"qpay", "storepay", "golomt"}

\* get_provider
Provided(name) == name \in Supported \/ (name \in Internal /\ PaymentsSandbox)

\* _require_config; Golomt raises an invoice without asking its API.
Required(name) ==
  CASE name = "qpay"     -> {"QPAY_USERNAME", "QPAY_PASSWORD", "QPAY_INVOICE_CODE"}
    [] name = "storepay" -> {"STOREPAY_CLIENT_ID", "STOREPAY_CLIENT_SECRET", "STOREPAY_USERNAME",
                             "STOREPAY_PASSWORD", "STOREPAY_STORE_ID"}
    [] OTHER             -> {}
GolomtApi ==
  /\ Listed # <<>> /\ "GOLOMT_CORP_BASE_URL" \in Settings
  /\ \/ "GOLOMT_CORP_TOKEN" \in Settings
     \/ {"GOLOMT_CORP_CLIENT_ID", "GOLOMT_CORP_CLIENT_SECRET"} \subseteq Settings
Ready(name) == IF name = "golomt" THEN GolomtApi ELSE Required(name) \subseteq Settings

-----------------------------------------------------------------------------
(* Receiving accounts.                                                     *)

\* _build_accounts: where none is the default, the last one is.
IsDefault(k) == Listed[k].default \/ (k = Len(Listed) /\ \A j \in DOMAIN Listed : ~Listed[j].default)
DefaultAccount == First({k \in DOMAIN Listed : IsDefault(k)})

\* account_for: the first account that collects for the course.
Collecting(course) == {k \in DOMAIN Listed : ~IsDefault(k) /\ course \cap Listed[k].courses # {}}
AccountFor(course) ==
  Listed[IF Collecting(course) # {} THEN First(Collecting(course)) ELSE DefaultAccount].number

-----------------------------------------------------------------------------
(* Raising an invoice.                                                     *)

\* create_invoice of each gateway: the row of an invoice raised for amount under
\* ref.  Golomt asks nobody; QPay and StorePay give an id or refuse.
Raised(name, amount, ref, phone, course) ==
  {i \in InvoiceRows :
     /\ Provided(name)
     /\ i.provider = name /\ i.amount = amount /\ i.ref = ref /\ i.status = "pending"
     /\ CASE name = "golomt"   -> Listed # <<>> /\ i.id = ref /\ i.account = AccountFor(course)
          [] name = "storepay" -> Ready(name) /\ phone # None /\ i.id \in Ids /\ i.account = None
          [] OTHER             -> Ready(name) /\ i.id \in Ids /\ i.account = None}

-----------------------------------------------------------------------------
(* Asking for an invoice: what may be handed to settle, nothing if unpaid. *)

\* QPay: what it says is paid in all, under the first row that is paid; the row's
\* amount, or the invoice's, where it names no total.
QPayReports(i) ==
  LET answer == QPayAnswer[i.id]
      paid == {k \in DOMAIN answer.rows : answer.rows[k].status = "PAID"}
  IN
  {[key |-> answer.rows[k].id, amount |-> OrElse(answer.paid, OrElse(answer.rows[k].amount, i.amount))] :
     k \in Earliest(paid)}

PaidStatuses == {"CONFIRMED", "PAID", "SUCCESS", "DONE", "COMPLETED"}
LoanReports(i) ==
  {[key |-> OrElse(l.id, i.id), amount |-> OrElse(l.amount, i.amount)] :
     l \in {loan \in {Loan[i.id]} : loan.status \in PaidStatuses}}

\* _normalize_txn: only money in is kept.
IsCredit(row) == row.amount # None /\ row.amount > 0 /\ row.direction # "debit"

Matches(i, txn) == IsCredit(txn) /\ i.ref \in txn.names /\ i.amount = txn.amount
Transfer(i, txn) == [key |-> OrElse(txn.id, i.ref), amount |-> txn.amount]

\* fetch_statement, and the rows of it that match, by their place.
Found(i, number, from, to) ==
  {k \in DOMAIN Statement[number] :
     Statement[number][k].day \in from..to /\ Matches(i, Statement[number][k])}

\* The first match ends the search.
Match(i, number, from, to) ==
  {Transfer(i, Statement[number][k]) : k \in Earliest(Found(i, number, from, to))}

\* fetch_all_statements: one account after the other, in the order they are listed.
Touched(i, from, to) == {k \in DOMAIN Listed : Found(i, Listed[k].number, from, to) # {}}
MatchOfAll(i, from, to) ==
  UNION {Match(i, Listed[k].number, from, to) : k \in Earliest(Touched(i, from, to))}

\* golomt.check_invoice: the account the invoice was routed to, while it is listed.
GolomtReports(i, today) ==
  IF i.account \in Numbers THEN Match(i, i.account, today - Window, today)
  ELSE MatchOfAll(i, today - Window, today)

\* check_invoice, and verify_callback, which never trusts the body.  The sandbox
\* names one payment per invoice.
Reports(i, today) ==
  IF ~Provided(i.provider) THEN {}
  ELSE CASE i.provider = "sandbox"  -> {[key |-> i.ref, amount |-> i.amount]}
         [] i.provider = "golomt"   -> IF Ready("golomt") THEN GolomtReports(i, today) ELSE {}
         [] i.provider = "qpay"     -> IF Ready("qpay") /\ i.id # None THEN QPayReports(i) ELSE {}
         [] i.provider = "storepay" -> IF Ready("storepay") /\ i.id # None THEN LoanReports(i) ELSE {}

-----------------------------------------------------------------------------
(* What is handed to settle.                                               *)

\* _find_invoice_for_callback: by the ref of the URL, else by the first reference
\* of the body that is known, else by the gateway's own id (one invoice of those).
Known(refs) == {k \in DOMAIN refs : \E i \in Invoices : i.ref = refs[k]}
Named(provider, ref, body) ==
  IF ref # None THEN {i \in Invoices : i.ref = ref}
  ELSE IF Known(body.refs) # {} THEN {i \in Invoices : i.ref = body.refs[First(Known(body.refs))]}
  ELSE {i \in Invoices : body.id # None /\ i.provider = provider /\ i.id = body.id}

\* handle_callback
ByCallback(provider, ref, body, today) ==
  IF provider \notin Supported THEN {}
  ELSE UNION {{<<i, report>> : report \in Reports(i, today)} :
                i \in {j \in Named(provider, ref, body) : j.provider = provider}}

\* check_status
ByPoll(i, today) == IF i.status = "paid" THEN {} ELSE Reports(i, today)

\* reconcile_golomt
ByReconcile(i, from, to) ==
  IF i.provider # "golomt" \/ i.status # "pending" \/ ~Ready("golomt") THEN {}
  ELSE MatchOfAll(i, from, to)

-----------------------------------------------------------------------------
(* What this adds up to.                                                   *)

\* golomt.py:16-19: a course's fees go to an account that collects for it, and all
\* others to a default one.
RoutedByCourse(course) ==
  \E k \in DOMAIN Listed :
    /\ AccountFor(course) = Listed[k].number
    /\ IF Collecting(course) # {} THEN course \cap Listed[k].courses # {} /\ ~IsDefault(k) ELSE IsDefault(k)

\* golomt.py:17-20, 23-27: the account a buyer is told to pay into is the one that
\* is looked at, so a transfer of the sum under the reference is not overlooked: the
\* poll, and a reconcile of its days, hand settle a transfer of that sum.  (Not always
\* this one: a search ends at its first match.)
TransferIsFound(i, course, k, today, from, to) ==
  LET row == Statement[AccountFor(course)][k] IN
  /\ i \in Raised("golomt", i.amount, i.ref, None, course) /\ Ready("golomt")
  /\ k \in DOMAIN Statement[AccountFor(course)] /\ Matches(i, row)
  => /\ row.day \in (today - Window)..today => \E report \in ByPoll(i, today) : report.amount = i.amount
     /\ row.day \in from..to => \E report \in ByReconcile(i, from, to) : report.amount = i.amount

\* callbacks.py:22-107: settle knows a payment by its key alone, so whoever asks first
\* must be handed the same.  A webhook that names the invoice by its own reference
\* hands over what a poll would; and so does a reconcile of the same days, unless
\* a transfer under the reference went to an account the buyer was not shown.
OneAnswer(i, body, today) ==
  /\ i \in Invoices /\ i.provider \in Supported /\ i.status = "pending"
  /\ \A j \in Invoices : j.ref = i.ref => j = i
  => /\ ByCallback(i.provider, i.ref, body, today) = {<<i, report>> : report \in ByPoll(i, today)}
     /\ i.provider = "golomt" /\ i.account \in Numbers
        /\ (\A n \in Numbers \ {i.account} : Found(i, n, today - Window, today) = {})
        => ByPoll(i, today) = ByReconcile(i, today - Window, today)
=============================================================================
