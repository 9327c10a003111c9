------------------------------ MODULE SeatBooking ------------------------------
(***************************************************************************)
(* The public checkout of one cohort, src/app/services/enrolment: holding  *)
(* a numbered seat, raising or reusing its invoice, noticing that the      *)
(* invoice is paid, releasing holds that ran out, and giving a refunded    *)
(* seat back (src/app/services/refunds.py).                                *)
(*                                                                         *)
(* Requests run in gunicorn threads, the release in the hourly tick.  Each *)
(* is a sequence of steps, one per commit or read that another request can *)
(* come between.  How money is recorded against an invoice is Settlement's *)
(* concern: here it is one step, Settled.                                  *)
(***************************************************************************)
EXTENDS Integers, FiniteSets

CONSTANTS
  Bookings,    \* rows of seat_bookings that can be inserted
  Invoices,    \* rows of invoices that can be inserted
  Leads,       \* rows of classroom_requests
  Workers,     \* request threads and the tick
  Mixes,       \* the sets of requests and gateways a behaviour may consist of
  Providers,   \* gateways a buyer can choose
  Capacity,    \* cohort.capacity
  MaxUses,     \* promotion.max_uses
  None         \* no row

Seats == 1..Capacity
Live == {"held", "paid"}  \* the partial unique index uq_seat_bookings_live_seat
AllOps == {"book", "open", "poll", "sweep", "refund", "callback", "abort", "code", "alone"}

ASSUME CohortAssumption == Capacity \in Nat /\ MaxUses \in Nat
ASSUME RowsAssumption ==
  /\ None \notin Bookings /\ None \notin Invoices
  /\ \A mix \in Mixes : mix \subseteq AllOps \cup Providers

VARIABLES
  mix,        \* the requests of this behaviour
  booking,    \* table seat_bookings
  lapsed,     \* bookings whose expires_at has passed
  invoice,    \* table invoices; by is the checkout that raised it
  collected,  \* invoices the buyer has paid at the gateway
  money,      \* the payment of each invoice
  lead,       \* status of each classroom_request
  used,       \* promotion.used_count
  job,        \* what each thread is doing
  lost        \* history: invoices whose request died before the booking had them

vars == <<mix, booking, lapsed, invoice, collected, money, lead, used, job, lost>>
seats == <<booking, lead, used>>
till == <<invoice, money>>
world == <<mix, lapsed, collected, lost>>

BookingRows == [status: {"absent", "held", "paid", "released", "cancelled"},
                seat: Seats \cup {0}, lead: Leads \cup {None},
                promo: BOOLEAN, invoice: Invoices \cup {None}]
InvoiceRows == [status: {"absent", "pending", "paid", "cancelled"},
                provider: Providers \cup {None}, by: Bookings \cup {None}]
Steps == {"idle", "pick", "insert", "repick", "reinsert", "ask", "retire", "renew", "raise",
          "link", "verify", "reload", "check", "sell", "sweep", "seat", "cancel"}
Jobs == [step: Steps, b: Bookings \cup {None}, i: Invoices \cup {None},
         provider: Providers \cup {None}, lead: Leads \cup {None}, code: BOOLEAN,
         promo: BOOLEAN, marks: BOOLEAN, seat: Seats \cup {0},
         saw: {"absent", "held", "paid", "released", "cancelled"}, rows: SUBSET Bookings]
Idle == [step |-> "idle", b |-> None, i |-> None, provider |-> None, lead |-> None,
         code |-> FALSE, promo |-> FALSE, marks |-> FALSE, seat |-> 0, saw |-> "absent",
         rows |-> {}]

-----------------------------------------------------------------------------

At(w, step) == job[w].step = step
Become(w, j) == job' = [job EXCEPT ![w] = j]
Finish(w) == Become(w, Idle)
Go(w, step) == Become(w, [job[w] EXCEPT !.step = step])
\* In an "alone" mix a request begins when the one before it has ended.
Alone == "alone" \in mix
Start(w, op, request) ==
  /\ At(w, "idle")
  /\ op \in mix
  /\ Alone => \A v \in Workers : At(v, "idle")
  /\ Become(w, request)

Status(b) == booking[b].status
Expired(b) == Status(b) = "held" /\ b \in lapsed

\* Fault: the index was never created.
IndexRefuses_Never(s, others) == FALSE

\* The partial unique index: another live row has seat s.
IndexRefuses(s, others) == \E c \in others : Status(c) \in Live /\ booking[c].seat = s

\* What _seat_counts sees: an expired hold is free again.
Occupied(others) ==
  {booking[c].seat : c \in {d \in others : Status(d) \in Live /\ ~Expired(d)}}

FreeSeats(without) == Seats \ (Occupied(Bookings) \cup without)

\* settle(): the money of invoice i is on the books and the invoice reads paid.
Settled(i) ==
  /\ money' = [money EXCEPT ![i] = IF @ = "none" THEN "recorded" ELSE @]
  /\ invoice' = [invoice EXCEPT ![i].status = "paid"]

-----------------------------------------------------------------------------
(* The outside world.                                                      *)

\* External: expires_at of a booking passes.
Lapse(b) ==
  /\ Status(b) # "absent"
  /\ lapsed' = lapsed \cup {b}
  /\ UNCHANGED <<mix, booking, invoice, collected, money, lead, used, job, lost>>

\* External: the buyer pays an invoice whose QR is still open in a browser.
BuyerPays(i) ==
  /\ invoice[i].status # "absent"
  /\ collected' = collected \cup {i}
  /\ UNCHANGED <<mix, booking, lapsed, invoice, money, lead, used, job, lost>>

\* Fault: the body of the callback is believed.
Callback_Trusting(i) ==
  /\ "callback" \in mix
  /\ invoice[i].status # "absent"
  /\ Settled(i)
  /\ UNCHANGED <<seats, world, job>>

\* The gateway calls back, on an invoice of any status; it is asked again first.
Callback(i) ==
  /\ "callback" \in mix
  /\ i \in collected
  /\ Settled(i)
  /\ UNCHANGED <<seats, world, job>>

-----------------------------------------------------------------------------
(* book_seat.                                                              *)

\* Fault: the expiry is not looked at.
Retire_AnyHold ==
  booking' = [b \in Bookings |-> IF Status(b) = "held"
                                 THEN [booking[b] EXCEPT !.status = "released"]
                                 ELSE booking[b]]

\* _retire_lapsed_holds: one UPDATE with its condition in the WHERE clause.
Retire ==
  booking' = [b \in Bookings |-> IF Expired(b)
                                 THEN [booking[b] EXCEPT !.status = "released"]
                                 ELSE booking[b]]

\* Bound: a row is kept for every request that is already booking.
RowsLeft ==
  Cardinality({v \in Workers : job[v].step \in {"pick", "insert", "repick", "reinsert"}})
    < Cardinality({b \in Bookings : Status(b) = "absent"})

BeginBook(w, r, code) ==
  /\ RowsLeft
  /\ code => "code" \in mix
  /\ Start(w, "book", [Idle EXCEPT !.step = "pick", !.lead = r, !.code = code,
                                   !.marks = lead[r] # "booked"])
  /\ Retire
  /\ UNCHANGED <<lead, used, till, world>>

\* _build_booking: the wanted seat if it is free, else the lowest one.  The lead
\* was loaded by BeginBook, or again now if Retire had anything to commit.
PickSeat(w) ==
  /\ At(w, "pick")
  /\ \/ FreeSeats({}) = {} /\ Finish(w)
     \/ \E s \in FreeSeats({}), m \in {job[w].marks, lead[job[w].lead] # "booked"} :
          Become(w, [job[w] EXCEPT !.step = "insert", !.seat = s, !.marks = m,
                                   !.promo = job[w].code /\ used < MaxUses])
  /\ UNCHANGED <<seats, till, world>>

\* _rebook_next_free: the lowest free seat, not counting the one that collided.
RepickSeat(w) ==
  LET free == FreeSeats({job[w].seat}) IN
  /\ At(w, "repick")
  /\ \/ free = {} /\ Finish(w)
     \/ \E s \in free :
          /\ \A t \in free : s <= t
          /\ Become(w, [job[w] EXCEPT !.step = "reinsert", !.seat = s,
                                      !.marks = lead[job[w].lead] # "booked",
                                      !.promo = job[w].code /\ used < MaxUses])
  /\ UNCHANGED <<seats, till, world>>

\* The insert and its commit.  A lead that was loaded as booked is not written.  A
\* seat that went in the meantime is refused by the index, the second time for good.
InsertBooking(w) ==
  LET j == job[w] IN
  /\ j.step \in {"insert", "reinsert"}
  /\ IF IndexRefuses(j.seat, Bookings)
     THEN /\ IF j.step = "insert" THEN Go(w, "repick") ELSE Finish(w)
          /\ UNCHANGED <<booking, lead>>
     ELSE /\ \E b \in Bookings :
               /\ Status(b) = "absent"
               /\ booking' = [booking EXCEPT ![b] =
                    [status |-> "held", seat |-> j.seat, lead |-> j.lead,
                     promo |-> j.promo, invoice |-> None]]
          /\ lead' = [lead EXCEPT ![j.lead] = IF j.marks THEN "booked" ELSE @]
          /\ Finish(w)
  /\ UNCHANGED <<used, till, world>>

-----------------------------------------------------------------------------
(* qpay_invoice and storepay_invoice: reuse the invoice or raise one.      *)

\* Bound: a row is kept for every request that is already raising an invoice.
InvoicesLeft ==
  Cardinality({v \in Workers : job[v].step \in {"ask", "retire", "renew", "raise"}})
    < Cardinality({i \in Invoices : invoice[i].status = "absent"})

\* Fault: every call raises an invoice of its own.
BeginOpen_Afresh(w, b, p) ==
  /\ Status(b) # "absent" /\ p \in mix
  /\ InvoicesLeft
  /\ Start(w, "open", [Idle EXCEPT !.step = "raise", !.b = b, !.provider = p])
  /\ UNCHANGED <<seats, till, world>>

Standing(i) == IF i = None THEN "none" ELSE invoice[i].status

\* A paid invoice, or a pending one at the same gateway, is reused as it is.
BeginOpen(w, b, p) ==
  LET i == booking[b].invoice
      request == [Idle EXCEPT !.b = b, !.i = i, !.provider = p]
  IN
  /\ Status(b) # "absent" /\ p \in mix
  /\ InvoicesLeft
  /\ \/ /\ Standing(i) \in {"none", "cancelled"}
        /\ Start(w, "open", [request EXCEPT !.step = "raise"])
     \/ /\ Standing(i) = "pending" /\ invoice[i].provider # p
        /\ Start(w, "open", [request EXCEPT !.step = "ask"])
  /\ UNCHANGED <<seats, till, world>>

\* check_status of the old invoice before it is retired.  If it settles, the
\* invoice is read again.
AskOldGateway(w) ==
  LET i == job[w].i IN
  /\ At(w, "ask")
  /\ IF i \in collected THEN Settled(i) /\ Go(w, "renew")
     ELSE Go(w, "retire") /\ UNCHANGED till
  /\ UNCHANGED <<seats, world>>

RetireInvoice(w) ==
  /\ At(w, "retire")
  /\ invoice' = [invoice EXCEPT ![job[w].i].status = "cancelled"]
  /\ Go(w, "renew")
  /\ UNCHANGED <<money, seats, world>>

\* After a commit the row is read again: it may be paid, or cancelled by another
\* request.
RenewInvoice(w) ==
  /\ At(w, "renew")
  /\ IF invoice[job[w].i].status = "paid" THEN Finish(w) ELSE Go(w, "raise")
  /\ UNCHANGED <<seats, till, world>>

\* create_invoice commits the row ...
RaiseInvoice(w) ==
  /\ At(w, "raise")
  /\ \E i \in Invoices :
       /\ invoice[i].status = "absent"
       /\ invoice' = [invoice EXCEPT ![i] =
            [status |-> "pending", provider |-> job[w].provider, by |-> job[w].b]]
       /\ Become(w, [job[w] EXCEPT !.step = "link", !.i = i])
  /\ UNCHANGED <<money, seats, world>>

\* ... and a second commit makes the booking point at it.
LinkInvoice(w) ==
  /\ At(w, "link")
  /\ booking' = [booking EXCEPT ![job[w].b].invoice = job[w].i]
  /\ Finish(w)
  /\ UNCHANGED <<lead, used, till, world>>

-----------------------------------------------------------------------------
(* invoice_status and storepay_status: the page polls until it is sold.    *)

BeginPoll(w, b) ==
  LET i == booking[b].invoice
      request == [Idle EXCEPT !.b = b, !.i = i, !.saw = Status(b)]
  IN
  /\ i # None
  /\ \/ /\ invoice[i].status = "paid" /\ Status(b) # "paid"
        /\ Start(w, "poll", [request EXCEPT !.step = "check"])
     \/ /\ invoice[i].status # "paid"
        /\ Start(w, "poll", [request EXCEPT !.step = "verify"])
  /\ UNCHANGED <<seats, till, world>>

\* check_status
Verify(w) ==
  /\ At(w, "verify")
  /\ IF job[w].i \in collected THEN Settled(job[w].i) /\ Go(w, "reload")
     ELSE Finish(w) /\ UNCHANGED till
  /\ UNCHANGED <<seats, world>>

\* settle committed, so invoice and booking are read again.
Reload(w) ==
  LET b == job[w].b IN
  /\ At(w, "reload")
  /\ IF invoice[job[w].i].status # "paid" \/ Status(b) = "paid" THEN Finish(w)
     ELSE Become(w, [job[w] EXCEPT !.step = "check", !.saw = Status(b)])
  /\ UNCHANGED <<seats, till, world>>

\* is_expired or released, as far as this request's copy of the row tells.
Late(w) ==
  \/ job[w].saw = "released"
  \/ job[w].saw = "held" /\ job[w].b \in lapsed

\* Fault: a late payment is refused even while its seat is free.
CheckLate_AlwaysRefuses(w) ==
  /\ At(w, "check")
  /\ IF Late(w) THEN Finish(w) ELSE Go(w, "sell")
  /\ UNCHANGED <<seats, till, world>>

\* _mark_paid, first half: a late payment for a seat that somebody else has by
\* now is refused (seat_taken_after_hold_expired).
CheckLate(w) ==
  LET b == job[w].b IN
  /\ At(w, "check")
  /\ IF Late(w) /\ booking[b].seat \in Occupied(Bookings \ {b}) THEN Finish(w)
     ELSE Go(w, "sell")
  /\ UNCHANGED <<seats, till, world>>

\* Fault: the promotion is burnt at every poll that gets this far.
Sell_CountsFirst(w) ==
  LET b == job[w].b IN
  /\ At(w, "sell")
  /\ used' = used + IF booking[b].promo THEN 1 ELSE 0
  /\ IF Status(b) \notin Live /\ IndexRefuses(booking[b].seat, Bookings \ {b})
     THEN UNCHANGED <<booking, lead>>
     ELSE /\ booking' = [booking EXCEPT ![b].status = "paid"]
          /\ lead' = [lead EXCEPT ![booking[b].lead] = "paid"]
  /\ Finish(w)
  /\ UNCHANGED <<till, world>>

\* _mark_paid, second half: the row turns paid whatever it has become since it
\* was read, unless the index refuses.
Sell(w) ==
  LET b == job[w].b IN
  /\ At(w, "sell")
  /\ IF Status(b) \notin Live /\ IndexRefuses(booking[b].seat, Bookings \ {b})
     THEN UNCHANGED seats
     ELSE /\ booking' = [booking EXCEPT ![b].status = "paid"]
          /\ lead' = [lead EXCEPT ![booking[b].lead] = "paid"]
          /\ used' = used + IF booking[b].promo THEN 1 ELSE 0
  /\ Finish(w)
  /\ UNCHANGED <<till, world>>

-----------------------------------------------------------------------------
(* The hourly tick, and refunds.                                           *)

\* release_expired_holds loads the rows ...
BeginSweep(w) ==
  /\ \E b \in Bookings : Expired(b)
  /\ Start(w, "sweep", [Idle EXCEPT !.step = "sweep", !.rows = {b \in Bookings : Expired(b)}])
  /\ UNCHANGED <<seats, till, world>>

\* ... and writes them all, whatever they have become.
ReleaseRows(w) ==
  /\ At(w, "sweep")
  /\ booking' = [b \in Bookings |-> IF b \in job[w].rows
                                    THEN [booking[b] EXCEPT !.status = "released"]
                                    ELSE booking[b]]
  /\ Finish(w)
  /\ UNCHANGED <<lead, used, till, world>>

\* refund, in full: the receipt and money steps commit.  It can be asked for again
\* only while the tax receipt was left standing (void_receipt false).
BeginRefund(w, i) ==
  /\ Start(w, "refund", [Idle EXCEPT !.step = "seat", !.i = i])
  /\ \E after \in {"refunded", "receipt_left"} :
       /\ money[i] = "recorded" \/ (money[i] = "receipt_left" /\ after = "refunded")
       /\ money' = [money EXCEPT ![i] = after]
  /\ UNCHANGED <<seats, invoice, world>>

\* Fault: the lead is left as it is.
GiveBackSeat_KeepsLead(w) ==
  /\ At(w, "cancel")
  /\ booking' = [b \in Bookings |-> IF b \in job[w].rows
                                    THEN [booking[b] EXCEPT !.status = "cancelled"]
                                    ELSE booking[b]]
  /\ Finish(w)
  /\ UNCHANGED <<lead, used, till, world>>

\* _give_back_seat finds the live booking of the invoice ...
FindSeat(w) ==
  /\ At(w, "seat")
  /\ Become(w, [job[w] EXCEPT !.step = "cancel",
       !.rows = {b \in Bookings : booking[b].invoice = job[w].i /\ Status(b) \in Live}])
  /\ UNCHANGED <<seats, till, world>>

\* ... and cancels it.
GiveBackSeat(w) ==
  LET rows == job[w].rows IN
  /\ At(w, "cancel")
  /\ booking' = [b \in Bookings |-> IF b \in rows
                                    THEN [booking[b] EXCEPT !.status = "cancelled"]
                                    ELSE booking[b]]
  /\ lead' = [r \in Leads |-> IF \E b \in rows : booking[b].lead = r THEN "abandoned"
                              ELSE lead[r]]
  /\ Finish(w)
  /\ UNCHANGED <<used, till, world>>

\* Anything can fail before its next commit: the gateway, the database, the thread.
Abort(w) ==
  /\ "abort" \in mix
  /\ ~At(w, "idle")
  /\ lost' = lost \cup (IF At(w, "link") THEN {job[w].i} ELSE {})
  /\ Finish(w)
  /\ UNCHANGED <<seats, till, mix, lapsed, collected>>

-----------------------------------------------------------------------------

Init ==
  /\ mix \in Mixes
  /\ booking = [b \in Bookings |-> [status |-> "absent", seat |-> 0, lead |-> None,
                                   promo |-> FALSE, invoice |-> None]]
  /\ lapsed = {} /\ collected = {} /\ lost = {} /\ used = 0
  /\ invoice = [i \in Invoices |-> [status |-> "absent", provider |-> None, by |-> None]]
  /\ money = [i \in Invoices |-> "none"]
  /\ lead = [r \in Leads |-> "new"]
  /\ job = [w \in Workers |-> Idle]

World ==
  \/ \E b \in Bookings : Lapse(b)
  \/ \E i \in Invoices : BuyerPays(i) \/ Callback(i)

Arrival(w) ==
  \/ \E r \in Leads, code \in BOOLEAN : BeginBook(w, r, code)
  \/ \E b \in Bookings, p \in Providers : BeginOpen(w, b, p)
  \/ \E b \in Bookings : BeginPoll(w, b)
  \/ BeginSweep(w)
  \/ \E i \in Invoices : BeginRefund(w, i)

Progress(w) ==
  \/ PickSeat(w) \/ InsertBooking(w) \/ RepickSeat(w)
  \/ AskOldGateway(w) \/ RetireInvoice(w) \/ RenewInvoice(w)
  \/ RaiseInvoice(w) \/ LinkInvoice(w)
  \/ Verify(w) \/ Reload(w) \/ CheckLate(w) \/ Sell(w)
  \/ ReleaseRows(w) \/ FindSeat(w) \/ GiveBackSeat(w)

Next == World \/ \E w \in Workers : Arrival(w) \/ Progress(w) \/ Abort(w)

Spec == Init /\ [][Next]_vars

\* A thread runs on, and the buyer's page polls until it is told the seat is sold.
Fairness ==
  /\ \A w \in Workers : WF_vars(Progress(w))
  /\ \A b \in Bookings : SF_vars(\E w \in Workers : BeginPoll(w, b))

FairSpec == Spec /\ Fairness

-----------------------------------------------------------------------------
(* Properties.                                                             *)

\* Type invariant.
TypeOK ==
  /\ mix \in Mixes
  /\ booking \in [Bookings -> BookingRows]
  /\ lapsed \subseteq Bookings /\ collected \subseteq Invoices /\ lost \subseteq Invoices
  /\ invoice \in [Invoices -> InvoiceRows]
  /\ money \in [Invoices -> {"none", "recorded", "receipt_left", "refunded"}]
  /\ lead \in [Leads -> {"new", "booked", "paid", "abandoned"}]
  /\ used \in Nat
  /\ job \in [Workers -> Jobs]

\* No seat has two live claims, however holds lapse, are resold and are paid for
\* late (booking.py:53-58, checkout.py:164-179).
OneClaimPerSeat ==
  \A b, c \in Bookings :
    b # c /\ Status(b) \in Live /\ Status(c) \in Live => booking[b].seat # booking[c].seat

\* A seat is sold only against money that came in on an invoice of that very
\* checkout (checkout.py:62-67).
SoldForMoney ==
  \A b \in Bookings : Status(b) = "paid" =>
    \E i \in Invoices : invoice[i].by = b /\ i \in collected

Repaid(b) == \E i \in Invoices : invoice[i].by = b /\ money[i] \in {"receipt_left", "refunded"}

\* A seat that was given back stays on sale: the refunded booking takes it no
\* second time (refunds.py:208-211).
RefundedBookingStaysClosed ==
  [][\A b \in Bookings :
       Status(b) = "cancelled" => booking'[b].status = "cancelled"]_vars

\* One request at a time, a checkout has one invoice open, so the buyer can pay only
\* the one its booking points at (checkout.py:40-42, 116-118) - or one whose request
\* died between the commit of the invoice and that of the booking (lines 137-145).
OneOpenInvoice ==
  \A i, k \in Invoices \ lost :
    Alone /\ i # k /\ invoice[i].status = "pending" /\ invoice[k].status = "pending"
      => invoice[i].by # invoice[k].by

\* A use of the promotion is counted when a seat is sold and at no other time
\* (checkout.py:183-186).
PromotionCountedAtSale ==
  [][Alone /\ used' # used =>
       \E b \in Bookings : Status(b) # "paid" /\ booking'[b].status = "paid"]_vars

\* Whether the tick runs beside the requests: it may then release rows that were
\* paid after it loaded them (checkout.py:190-203).
SweepsBeside == "sweep" \in mix /\ ~Alone

\* A lead reads paid only while one of its bookings is a sale, or was one until the
\* tick released it: a refund takes back both in one commit (checkout.py:179-182,
\* refunds.py:216-219).
PaidLeadHasSale ==
  \A r \in Leads : lead[r] = "paid" =>
    \E b \in Bookings :
      /\ booking[b].lead = r
      /\ Status(b) = "paid" \/ (SweepsBeside /\ Status(b) = "released" /\ b \in lapsed)

\* Money that reached the booking's own invoice turns into a sale, unless the seat
\* went to somebody else first (checkout.py:59-69, 164-187).
PaidCheckoutIsSold ==
  \A b \in Bookings, i \in Invoices :
    booking[b].invoice = i /\ i \in collected
      ~> \/ Status(b) = "paid" \/ booking[b].invoice # i
         \/ \E c \in Bookings \ {b} :
              Status(c) \in Live /\ booking[c].seat = booking[b].seat

\* The funnel keeps the promise of SeatSale: claims are the live rows.
Claimant(s) ==
  IF \E b \in Bookings : Status(b) \in Live /\ booking[b].seat = s
  THEN CHOOSE b \in Bookings : Status(b) \in Live /\ booking[b].seat = s
  ELSE None

Claims == [s \in Seats |-> Claimant(s)]
SoldSeats == {s \in Seats : \E b \in Bookings : Status(b) = "paid" /\ booking[b].seat = s}
Paying == {b \in Bookings : \E i \in Invoices : invoice[i].by = b /\ i \in collected}
RepaidBuyers == {b \in Bookings : Repaid(b)}

Promise == INSTANCE SeatSale WITH
  Seats <- Seats, Buyers <- Bookings, None <- None,
  claim <- Claims, sold <- SoldSeats, overdue <- lapsed, paying <- Paying, repaid <- RepaidBuyers,
  beside <- SweepsBeside

KeepsPromise == Promise!Spec
=============================================================================
