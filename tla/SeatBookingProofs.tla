--------------------------- MODULE SeatBookingProofs ---------------------------
(***************************************************************************)
(* What holds of SeatBooking for any number of seats, buyers, invoices and *)
(* request threads.                                                        *)
(***************************************************************************)
EXTENDS SeatBooking, TLAPS

-----------------------------------------------------------------------------
(* The inductive invariant.  A sale rests on money because the request     *)
(* that makes it found an invoice of the same checkout paid, and neither   *)
(* the owner of an invoice nor the money it brought ever changes.          *)

\* What request j has loaded belongs together.
JobOK(j) ==
  /\ j.step \in {"pick", "insert", "repick", "reinsert"} => j.lead \in Leads
  /\ j.step \in {"insert", "reinsert"} => j.seat \in Seats
  /\ j.step \in {"ask", "retire", "renew", "raise"} => j.b \in Bookings
  /\ j.step \in {"link", "verify", "reload", "check", "sell"} =>
       j.b \in Bookings /\ j.i \in Invoices /\ invoice[j.i].by = j.b
  /\ j.step \in {"reload", "check", "sell"} => j.i \in collected

JobsOK == \A w \in Workers : JobOK(job[w])

\* A booking points at an invoice of its own, and a paid invoice brought money.
LinksOK ==
  /\ \A i \in Invoices : invoice[i].status = "absent" => invoice[i].by = None
  /\ \A i \in Invoices : invoice[i].status = "paid" => i \in collected
  /\ \A b \in Bookings : booking[b].invoice # None => invoice[booking[b].invoice].by = b

IInv == TypeOK /\ LinksOK /\ JobsOK /\ OneClaimPerSeat /\ SoldForMoney

-----------------------------------------------------------------------------

\* An invoice keeps its owner, and money once collected stays collected.
Lasting ==
  /\ \A i \in Invoices : invoice[i].by # None => invoice'[i].by = invoice[i].by
  /\ collected \subseteq collected'

\* A request that is set up well stays so in a step that lasts.
LEMMA JobStep ==
  ASSUME TypeOK, JobsOK, Lasting
  PROVE  /\ UNCHANGED job => JobsOK'
         /\ \A w \in Workers, j \in Jobs : Become(w, j) /\ JobOK(j) =>
              JobsOK' /\ job' \in [Workers -> Jobs]
<1>1. ASSUME NEW j, JobOK(j)
      PROVE  /\ j.step \in {"pick", "insert", "repick", "reinsert"} => j.lead \in Leads
             /\ j.step \in {"insert", "reinsert"} => j.seat \in Seats
             /\ j.step \in {"ask", "retire", "renew", "raise"} => j.b \in Bookings
             /\ j.step \in {"link", "verify", "reload", "check", "sell"} =>
                  j.b \in Bookings /\ j.i \in Invoices /\ invoice'[j.i].by = j.b
             /\ j.step \in {"reload", "check", "sell"} => j.i \in collected'
  BY <1>1, RowsAssumption DEF JobOK, Lasting
<1>2. ASSUME UNCHANGED job PROVE JobsOK'
  BY <1>1, <1>2 DEF JobsOK, JobOK
<1>3. ASSUME NEW w \in Workers, NEW j \in Jobs, Become(w, j), JobOK(j)
      PROVE  JobsOK' /\ job' \in [Workers -> Jobs]
  <2>1. job \in [Workers -> Jobs]
    BY DEF TypeOK
  <2>2. job' = [job EXCEPT ![w] = j]
    BY <1>3 DEF Become
  <2>3. job' \in [Workers -> Jobs]
    BY <2>1, <2>2
  <2>4. \A v \in Workers : JobOK(job'[v])
    BY <1>3, <2>1, <2>2 DEF JobsOK
  <2>5. JobsOK'
    BY <1>1, <2>4 DEF JobsOK, JobOK
  <2> QED
    BY <2>3, <2>5
<1> QED
  BY <1>2, <1>3

\* Idle, and a well-typed request moved on, are well-typed.
LEMMA JobType ==
  ASSUME TypeOK, NEW w \in Workers
  PROVE  /\ Idle \in Jobs /\ JobOK(Idle)
         /\ job[w] \in Jobs
         /\ \A step \in Steps : [job[w] EXCEPT !.step = step] \in Jobs
<1>1. Idle \in Jobs /\ JobOK(Idle)
  BY DEF Idle, Jobs, Steps, JobOK
<1>2. job[w] \in Jobs
  BY DEF TypeOK
<1> QED
  BY <1>1, <1>2 DEF Jobs

\* A step that touches no table of bookings, invoices and leads.
LEMMA QuietStep ==
  ASSUME IInv, NEW w \in Workers,
         UNCHANGED <<mix, booking, lapsed, invoice, collected, lead, used, lost>>,
         money' \in [Invoices -> {"none", "recorded", "receipt_left", "refunded"}]
  PROVE  \A j \in Jobs : Become(w, j) /\ JobOK(j) => IInv'
<1>1. Lasting
  BY DEF Lasting
<1>2. ASSUME NEW j \in Jobs, Become(w, j), JobOK(j) PROVE JobsOK' /\ job' \in [Workers -> Jobs]
  BY <1>1, <1>2, JobStep DEF IInv
<1>3. ASSUME NEW j \in Jobs, Become(w, j), JobOK(j) PROVE TypeOK'
  BY <1>2, <1>3 DEF IInv, TypeOK
<1>4. LinksOK'
  BY DEF IInv, LinksOK
<1>5. OneClaimPerSeat' /\ SoldForMoney'
  BY DEF IInv, OneClaimPerSeat, SoldForMoney, Status
<1> QED
  BY <1>2, <1>3, <1>4, <1>5 DEF IInv

\* A step in which some live rows stop being live, and nothing else happens to
\* bookings, invoices and the money.
LEMMA DemotingStep ==
  ASSUME IInv, NEW w \in Workers,
         UNCHANGED <<mix, lapsed, invoice, collected, money, used, lost>>,
         booking' \in [Bookings -> BookingRows],
         lead' \in [Leads -> {"new", "booked", "paid", "abandoned"}],
         \A b \in Bookings : \/ booking'[b] = booking[b]
                             \/ /\ booking'[b].status \notin Live
                                /\ booking'[b].invoice = booking[b].invoice
  PROVE  \A j \in Jobs : Become(w, j) /\ JobOK(j) => IInv'
<1>1. Lasting
  BY DEF Lasting
<1>2. ASSUME NEW j \in Jobs, Become(w, j), JobOK(j) PROVE JobsOK' /\ job' \in [Workers -> Jobs]
  BY <1>1, <1>2, JobStep DEF IInv
<1>3. ASSUME NEW j \in Jobs, Become(w, j), JobOK(j) PROVE TypeOK'
  BY <1>2, <1>3 DEF IInv, TypeOK
<1>4. LinksOK'
  BY DEF IInv, LinksOK
<1>5. OneClaimPerSeat'
  BY DEF IInv, OneClaimPerSeat, Status
<1>6. SoldForMoney'
  BY DEF IInv, SoldForMoney, Status, Live
<1> QED
  BY <1>2, <1>3, <1>4, <1>5, <1>6 DEF IInv

\* settle() of an invoice the buyer has paid.
LEMMA SettledStep ==
  ASSUME IInv, NEW i \in collected, Settled(i),
         UNCHANGED <<seats, world>>
  PROVE  /\ UNCHANGED job => IInv'
         /\ \A w \in Workers, j \in Jobs : Become(w, j) /\ JobOK(j) => IInv'
<1>0. i \in Invoices /\ invoice \in [Invoices -> InvoiceRows]
  BY DEF IInv, TypeOK
<1>1. /\ invoice' \in [Invoices -> InvoiceRows]
      /\ \A k \in Invoices : invoice'[k].by = invoice[k].by
      /\ \A k \in Invoices : invoice'[k].status = IF k = i THEN "paid" ELSE invoice[k].status
  BY <1>0 DEF Settled, InvoiceRows
<1>2. Lasting
  BY <1>1 DEF Lasting, world
<1>3. money' \in [Invoices -> {"none", "recorded", "receipt_left", "refunded"}]
  BY DEF IInv, TypeOK, Settled
<1>4. LinksOK'
  <2>1. \A b \in Bookings : booking[b].invoice \in Invoices \cup {None}
    BY DEF IInv, TypeOK, BookingRows
  <2> QED
    BY <1>1, <2>1 DEF IInv, LinksOK, seats, world
<1>5. OneClaimPerSeat' /\ SoldForMoney'
  BY <1>1 DEF IInv, OneClaimPerSeat, SoldForMoney, Status, seats, world
<1>6. job' \in [Workers -> Jobs] => TypeOK'
  BY <1>1, <1>3 DEF IInv, TypeOK, seats, world
<1>7. ASSUME UNCHANGED job PROVE IInv'
  <2>1. JobsOK' /\ job' \in [Workers -> Jobs]
    BY <1>2, <1>7, JobStep DEF IInv, TypeOK
  <2> QED
    BY <1>4, <1>5, <1>6, <2>1 DEF IInv
<1>8. ASSUME NEW w \in Workers, NEW j \in Jobs, Become(w, j), JobOK(j) PROVE IInv'
  <2>1. JobsOK' /\ job' \in [Workers -> Jobs]
    BY <1>2, <1>8, JobStep DEF IInv
  <2> QED
    BY <1>4, <1>5, <1>6, <2>1 DEF IInv
<1> QED
  BY <1>7, <1>8

-----------------------------------------------------------------------------
(* The lemmas of the three kinds of step.                                  *)

\* The invariant holds at the start.
LEMMA InvInit == Init => IInv
<1> SUFFICES ASSUME Init PROVE IInv
  OBVIOUS
<1>1. TypeOK
  <2>1. Idle \in Jobs
    BY DEF Idle, Jobs, Steps
  <2>2. booking \in [Bookings -> BookingRows]
    BY DEF Init, BookingRows
  <2>3. invoice \in [Invoices -> InvoiceRows]
    BY DEF Init, InvoiceRows
  <2> QED
    BY <2>1, <2>2, <2>3 DEF Init, TypeOK
<1>2. LinksOK
  BY DEF Init, LinksOK
<1>3. JobsOK
  BY DEF Init, JobsOK, JobOK, Idle
<1>4. OneClaimPerSeat /\ SoldForMoney
  BY DEF Init, OneClaimPerSeat, SoldForMoney, Status, Live
<1> QED
  BY <1>1, <1>2, <1>3, <1>4 DEF IInv

\* Clocks, buyers and gateways keep it.
LEMMA WorldKeeps == IInv /\ World => IInv'
<1> SUFFICES ASSUME IInv, World PROVE IInv'
  OBVIOUS
<1>1. ASSUME NEW b \in Bookings, Lapse(b) PROVE IInv'
  <2>1. Lasting
    BY <1>1 DEF Lapse, Lasting
  <2>2. JobsOK'
    BY <1>1, <2>1, JobStep DEF IInv, Lapse
  <2>3. TypeOK'
    BY <1>1 DEF IInv, TypeOK, Lapse
  <2>4. LinksOK'
    BY <1>1 DEF IInv, LinksOK, Lapse
  <2>5. OneClaimPerSeat' /\ SoldForMoney'
    BY <1>1 DEF IInv, OneClaimPerSeat, SoldForMoney, Status, Lapse
  <2> QED
    BY <2>2, <2>3, <2>4, <2>5 DEF IInv
<1>2. ASSUME NEW i \in Invoices, BuyerPays(i) PROVE IInv'
  <2>1. Lasting
    BY <1>2 DEF BuyerPays, Lasting
  <2>2. JobsOK'
    BY <1>2, <2>1, JobStep DEF IInv, BuyerPays
  <2>3. TypeOK'
    BY <1>2 DEF IInv, TypeOK, BuyerPays
  <2>4. LinksOK'
    BY <1>2 DEF IInv, LinksOK, BuyerPays
  <2>5. OneClaimPerSeat'
    BY <1>2 DEF IInv, OneClaimPerSeat, Status, BuyerPays
  <2>6. SoldForMoney'
    BY <1>2 DEF IInv, SoldForMoney, Status, BuyerPays
  <2> QED
    BY <2>2, <2>3, <2>4, <2>5, <2>6 DEF IInv
<1>3. ASSUME NEW i \in Invoices, Callback(i) PROVE IInv'
  <2>1. i \in collected /\ Settled(i) /\ UNCHANGED <<seats, world>> /\ UNCHANGED job
    BY <1>3 DEF Callback
  <2> QED
    BY <2>1, SettledStep
<1> QED
  BY <1>1, <1>2, <1>3 DEF World

\* Rows of a set are marked with a status that is not live.
LEMMA MarkRows ==
  ASSUME TypeOK, NEW rows, NEW status \in {"released", "cancelled"},
         booking' = [b \in Bookings |-> IF b \in rows
                                        THEN [booking[b] EXCEPT !.status = status]
                                        ELSE booking[b]]
  PROVE  /\ booking' \in [Bookings -> BookingRows]
         /\ \A b \in Bookings : \/ booking'[b] = booking[b]
                                \/ /\ booking'[b].status \notin Live
                                   /\ booking'[b].invoice = booking[b].invoice
<1>1. ASSUME NEW b \in Bookings
      PROVE  /\ [booking[b] EXCEPT !.status = status] \in BookingRows
             /\ [booking[b] EXCEPT !.status = status].status = status
             /\ [booking[b] EXCEPT !.status = status].invoice = booking[b].invoice
  <2>1. booking[b] \in BookingRows
    BY DEF TypeOK
  <2> QED
    BY <2>1 DEF BookingRows
<1>2. \A b \in Bookings : booking[b] \in BookingRows
  BY DEF TypeOK
<1> QED
  BY <1>1, <1>2 DEF Live

\* So does a request that arrives.
LEMMA ArrivalKeeps ==
  ASSUME IInv, NEW w \in Workers, Arrival(w)
  PROVE  IInv'
<1>0. TypeOK /\ LinksOK /\ Idle \in Jobs
  BY JobType DEF IInv
<1>1. ASSUME NEW r \in Leads, NEW code \in BOOLEAN, BeginBook(w, r, code) PROVE IInv'
  <2> DEFINE j == [Idle EXCEPT !.step = "pick", !.lead = r, !.code = code,
                               !.marks = lead[r] # "booked"]
             rows == {b \in Bookings : Expired(b)}
  <2>1. j \in Jobs /\ JobOK(j)
    BY <1>0, ZenonT(60) DEF Idle, Jobs, Steps, JobOK
  <2>2. Become(w, j)
    BY <1>1 DEF BeginBook, Start
  <2> HIDE DEF j
  <2>3. booking' = [b \in Bookings |-> IF b \in rows
                                       THEN [booking[b] EXCEPT !.status = "released"]
                                       ELSE booking[b]]
    BY <1>1 DEF BeginBook, Retire
  <2> HIDE DEF rows
  <2>4. /\ booking' \in [Bookings -> BookingRows]
        /\ \A b \in Bookings : \/ booking'[b] = booking[b]
                               \/ /\ booking'[b].status \notin Live
                                  /\ booking'[b].invoice = booking[b].invoice
    BY <1>0, <2>3, MarkRows
  <2>5. UNCHANGED <<mix, lapsed, invoice, collected, money, used, lost>>
    BY <1>1 DEF BeginBook, till, world
  <2>6. lead' \in [Leads -> {"new", "booked", "paid", "abandoned"}]
    BY <1>0, <1>1 DEF BeginBook, TypeOK
  <2> QED
    BY <2>1, <2>2, <2>4, <2>5, <2>6, DemotingStep
<1>2. ASSUME NEW b \in Bookings, NEW p \in Providers, BeginOpen(w, b, p) PROVE IInv'
  <2>1. booking[b].invoice \in Invoices \cup {None}
    BY <1>0 DEF TypeOK, BookingRows
  <2>2. \E step \in {"raise", "ask"} :
          Become(w, [[Idle EXCEPT !.b = b, !.i = booking[b].invoice, !.provider = p]
                       EXCEPT !.step = step])
    BY <1>2 DEF BeginOpen, Start
  <2>3. PICK step \in {"raise", "ask"} :
          Become(w, [[Idle EXCEPT !.b = b, !.i = booking[b].invoice, !.provider = p]
                       EXCEPT !.step = step])
    BY <2>2
  <2> DEFINE j == [[Idle EXCEPT !.b = b, !.i = booking[b].invoice, !.provider = p]
                     EXCEPT !.step = step]
  <2>4. j \in Jobs /\ JobOK(j)
    BY <2>1 DEF Idle, Jobs, Steps, JobOK
  <2> HIDE DEF j
  <2>5. UNCHANGED <<mix, booking, lapsed, invoice, collected, lead, used, money, lost>>
    BY <1>2 DEF BeginOpen, seats, till, world
  <2>6. money' \in [Invoices -> {"none", "recorded", "receipt_left", "refunded"}]
    BY <1>0, <2>5 DEF TypeOK
  <2> QED
    BY <2>3, <2>4, <2>5, <2>6, QuietStep DEF j
<1>3. ASSUME NEW b \in Bookings, BeginPoll(w, b) PROVE IInv'
  <2>1. /\ booking[b].invoice \in Invoices
        /\ invoice[booking[b].invoice].by = b
        /\ Status(b) \in {"absent", "held", "paid", "released", "cancelled"}
    BY <1>0, <1>3 DEF BeginPoll, TypeOK, BookingRows, LinksOK, Status
  <2>2. PICK step \in {"check", "verify"} :
          /\ Become(w, [[Idle EXCEPT !.b = b, !.i = booking[b].invoice, !.saw = Status(b)]
                          EXCEPT !.step = step])
          /\ step = "check" => invoice[booking[b].invoice].status = "paid"
    BY <1>3 DEF BeginPoll, Start
  <2> DEFINE j == [[Idle EXCEPT !.b = b, !.i = booking[b].invoice, !.saw = Status(b)]
                     EXCEPT !.step = step]
  <2>3. step = "check" => booking[b].invoice \in collected
    BY <1>0, <2>1, <2>2 DEF LinksOK
  <2>4. j \in Jobs /\ JobOK(j)
    BY <2>1, <2>3 DEF Idle, Jobs, Steps, JobOK
  <2> HIDE DEF j
  <2>5. UNCHANGED <<mix, booking, lapsed, invoice, collected, lead, used, money, lost>>
    BY <1>3 DEF BeginPoll, seats, till, world
  <2>6. money' \in [Invoices -> {"none", "recorded", "receipt_left", "refunded"}]
    BY <1>0, <2>5 DEF TypeOK
  <2> QED
    BY <2>2, <2>4, <2>5, <2>6, QuietStep DEF j
<1>4. ASSUME BeginSweep(w) PROVE IInv'
  <2> DEFINE j == [Idle EXCEPT !.step = "sweep", !.rows = {b \in Bookings : Expired(b)}]
  <2>1. j \in Jobs /\ JobOK(j)
    BY DEF Idle, Jobs, Steps, JobOK
  <2>2. Become(w, j)
    BY <1>4 DEF BeginSweep, Start
  <2> HIDE DEF j
  <2>3. UNCHANGED <<mix, booking, lapsed, invoice, collected, lead, used, money, lost>>
    BY <1>4 DEF BeginSweep, seats, till, world
  <2>4. money' \in [Invoices -> {"none", "recorded", "receipt_left", "refunded"}]
    BY <1>0, <2>3 DEF TypeOK
  <2> QED
    BY <2>1, <2>2, <2>3, <2>4, QuietStep
<1>5. ASSUME NEW i \in Invoices, BeginRefund(w, i) PROVE IInv'
  <2> DEFINE j == [Idle EXCEPT !.step = "seat", !.i = i]
  <2>1. j \in Jobs /\ JobOK(j)
    BY DEF Idle, Jobs, Steps, JobOK
  <2>2. Become(w, j)
    BY <1>5 DEF BeginRefund, Start
  <2> HIDE DEF j
  <2>3. UNCHANGED <<mix, booking, lapsed, invoice, collected, lead, used, lost>>
    BY <1>5 DEF BeginRefund, seats, world
  <2>4. money' \in [Invoices -> {"none", "recorded", "receipt_left", "refunded"}]
    BY <1>0, <1>5 DEF TypeOK, BeginRefund
  <2> QED
    BY <2>1, <2>2, <2>3, <2>4, QuietStep
<1> QED
  BY <1>1, <1>2, <1>3, <1>4, <1>5 DEF Arrival

\* A request that only moves on, or ends, while no table changes.
LEMMA MovesOn ==
  ASSUME IInv, NEW w \in Workers, UNCHANGED <<seats, till, world>>
  PROVE  \A j \in Jobs : Become(w, j) /\ JobOK(j) => IInv'
<1>1. UNCHANGED <<mix, booking, lapsed, invoice, collected, lead, used, money, lost>>
  BY DEF seats, till, world
<1>2. money' \in [Invoices -> {"none", "recorded", "receipt_left", "refunded"}]
  BY <1>1 DEF IInv, TypeOK
<1> QED
  BY <1>1, <1>2, QuietStep

\* The steps that choose a seat.
LEMMA ChoosingKeeps ==
  ASSUME IInv, NEW w \in Workers,
         PickSeat(w) \/ RepickSeat(w)
  PROVE  IInv'
<1>0. TypeOK /\ job[w] \in Jobs /\ JobOK(job[w]) /\ Idle \in Jobs /\ JobOK(Idle)
  BY JobType DEF IInv, JobsOK
<1>1. UNCHANGED <<seats, till, world>>
  BY DEF PickSeat, RepickSeat
<1>2. job[w].lead \in Leads
  BY <1>0 DEF PickSeat, RepickSeat, At, JobOK
<1>3. CASE Finish(w)
  BY <1>0, <1>1, <1>3, MovesOn DEF Finish
<1>4. CASE ~Finish(w)
  <2>1. PICK step \in {"insert", "reinsert"}, s \in Seats, m \in BOOLEAN, q \in BOOLEAN :
          Become(w, [job[w] EXCEPT !.step = step, !.seat = s, !.marks = m, !.promo = q])
    <3>1. CASE PickSeat(w)
      <4>1. PICK s \in FreeSeats({}), m \in {job[w].marks, lead[job[w].lead] # "booked"} :
              Become(w, [job[w] EXCEPT !.step = "insert", !.seat = s, !.marks = m,
                                       !.promo = job[w].code /\ used < MaxUses])
        BY <1>4, <3>1 DEF PickSeat
      <4>2. s \in Seats
        BY DEF FreeSeats
      <4>3. m \in BOOLEAN
        BY <1>0 DEF Jobs
      <4>4. (job[w].code /\ used < MaxUses) \in BOOLEAN
        OBVIOUS
      <4> DEFINE q == job[w].code /\ used < MaxUses
      <4> HIDE DEF q
      <4> QED
        BY <4>1, <4>2, <4>3, <4>4 DEF q
    <3>2. CASE RepickSeat(w)
      <4>1. PICK s \in FreeSeats({job[w].seat}) :
              Become(w, [job[w] EXCEPT !.step = "reinsert", !.seat = s,
                                       !.marks = lead[job[w].lead] # "booked",
                                       !.promo = job[w].code /\ used < MaxUses])
        BY <1>4, <3>2 DEF RepickSeat
      <4>2. s \in Seats
        BY DEF FreeSeats
      <4> DEFINE q == job[w].code /\ used < MaxUses
                 m == lead[job[w].lead] # "booked"
      <4>3. q \in BOOLEAN /\ m \in BOOLEAN
        OBVIOUS
      <4> HIDE DEF q, m
      <4> QED
        BY <4>1, <4>2, <4>3 DEF q, m
    <3> QED
      BY <3>1, <3>2
  <2> DEFINE j == [job[w] EXCEPT !.step = step, !.seat = s, !.marks = m, !.promo = q]
  <2>2. j \in Jobs
    BY <1>0, ZenonT(60) DEF Jobs, Steps
  <2>3. JobOK(j)
    BY <1>0, <1>2 DEF Jobs, JobOK
  <2> HIDE DEF j
  <2> QED
    BY <1>1, <2>1, <2>2, <2>3, MovesOn DEF j
<1> QED
  BY <1>3, <1>4

\* The steps that only read.
LEMMA ReadingKeeps ==
  ASSUME IInv, NEW w \in Workers,
         RenewInvoice(w) \/ Reload(w) \/ CheckLate(w) \/ FindSeat(w)
  PROVE  IInv'
<1>0. TypeOK /\ job[w] \in Jobs /\ JobOK(job[w]) /\ Idle \in Jobs /\ JobOK(Idle)
  BY JobType DEF IInv, JobsOK
<1>1. UNCHANGED <<seats, till, world>>
  BY DEF RenewInvoice, Reload, CheckLate, FindSeat
<1>2. CASE Finish(w)
  BY <1>0, <1>1, <1>2, MovesOn DEF Finish
<1>3. CASE RenewInvoice(w) /\ ~Finish(w)
  <2> DEFINE j == [job[w] EXCEPT !.step = "raise"]
  <2>1. Become(w, j)
    BY <1>3 DEF RenewInvoice, Go
  <2>2. job[w].step = "renew"
    BY <1>3 DEF RenewInvoice, At
  <2>3. j \in Jobs /\ JobOK(j)
    BY <1>0, <2>2 DEF Jobs, Steps, JobOK
  <2> QED
    BY <1>1, <2>1, <2>3, MovesOn
<1>4. CASE Reload(w) /\ ~Finish(w)
  <2> DEFINE j == [job[w] EXCEPT !.step = "check", !.saw = Status(job[w].b)]
  <2>1. Become(w, j)
    BY <1>4 DEF Reload
  <2>2. job[w].b \in Bookings
    BY <1>0, <1>4 DEF Reload, At, JobOK
  <2>3. Status(job[w].b) \in {"absent", "held", "paid", "released", "cancelled"}
    BY <1>0, <2>2 DEF TypeOK, BookingRows, Status
  <2>4. job[w].step = "reload"
    BY <1>4 DEF Reload, At
  <2>5. j \in Jobs
    BY <1>0, <2>3, ZenonT(60) DEF Jobs, Steps
  <2>6. j.step = "check" /\ j.b = job[w].b /\ j.i = job[w].i
    BY <1>0 DEF Jobs
  <2> HIDE DEF j
  <2>7. JobOK(j)
    BY <1>0, <2>4, <2>6 DEF JobOK
  <2> QED
    BY <1>1, <2>1, <2>5, <2>7, MovesOn DEF j
<1>5. CASE CheckLate(w) /\ ~Finish(w)
  <2> DEFINE j == [job[w] EXCEPT !.step = "sell"]
  <2>1. Become(w, j)
    BY <1>5 DEF CheckLate, Go
  <2>2. job[w].step = "check"
    BY <1>5 DEF CheckLate, At
  <2>3. j \in Jobs
    BY <1>0 DEF Jobs, Steps
  <2>4. j.step = "sell" /\ j.b = job[w].b /\ j.i = job[w].i
    BY <1>0 DEF Jobs
  <2> HIDE DEF j
  <2>5. JobOK(j)
    BY <1>0, <2>2, <2>4 DEF JobOK
  <2> QED
    BY <1>1, <2>1, <2>3, <2>5, MovesOn DEF j
<1>6. CASE FindSeat(w)
  <2> DEFINE found == {b \in Bookings : booking[b].invoice = job[w].i /\ Status(b) \in Live}
             j == [job[w] EXCEPT !.step = "cancel", !.rows = found]
  <2>1. Become(w, j)
    BY <1>6 DEF FindSeat
  <2>2. found \in SUBSET Bookings
    OBVIOUS
  <2> HIDE DEF found
  <2>3. j \in Jobs
    BY <1>0, <2>2, ZenonT(60) DEF Jobs, Steps
  <2>4. j.step = "cancel"
    BY <1>0 DEF Jobs
  <2> HIDE DEF j
  <2>5. JobOK(j)
    BY <2>4 DEF JobOK
  <2> QED
    BY <1>1, <2>1, <2>3, <2>5, MovesOn DEF j
<1> QED
  BY <1>2, <1>3, <1>4, <1>5, <1>6

\* The steps of checkout that write invoices.
LEMMA InvoicingKeeps ==
  ASSUME IInv, NEW w \in Workers,
         AskOldGateway(w) \/ RetireInvoice(w) \/ RaiseInvoice(w) \/ Verify(w)
  PROVE  IInv'
<1>0. TypeOK /\ LinksOK /\ job[w] \in Jobs /\ JobOK(job[w]) /\ Idle \in Jobs /\ JobOK(Idle)
  BY JobType DEF IInv, JobsOK
<1>1. ASSUME AskOldGateway(w) PROVE IInv'
  <2>1. PICK step \in {"renew", "retire"} : Go(w, step)
    BY <1>1 DEF AskOldGateway
  <2> DEFINE j == [job[w] EXCEPT !.step = step]
  <2>2. j \in Jobs /\ JobOK(j) /\ Become(w, j)
    BY <1>0, <1>1, <2>1 DEF AskOldGateway, At, Go, Jobs, Steps, JobOK
  <2>3. CASE job[w].i \in collected
    <3>1. Settled(job[w].i) /\ UNCHANGED <<seats, world>>
      BY <1>1, <2>3 DEF AskOldGateway
    <3> QED
      BY <2>2, <2>3, <3>1, SettledStep
  <2>4. CASE job[w].i \notin collected
    <3>1. UNCHANGED <<seats, till, world>>
      BY <1>1, <2>4 DEF AskOldGateway
    <3> QED
      BY <2>2, <3>1, MovesOn
  <2> QED
    BY <2>3, <2>4
<1>2. ASSUME Verify(w) PROVE IInv'
  <2>1. CASE job[w].i \in collected
    <3> DEFINE j == [job[w] EXCEPT !.step = "reload"]
    <3>1. Become(w, j) /\ j \in Jobs /\ JobOK(j)
      BY <1>0, <1>2, <2>1 DEF Verify, At, Go, Jobs, Steps, JobOK
    <3>2. Settled(job[w].i) /\ UNCHANGED <<seats, world>>
      BY <1>2, <2>1 DEF Verify
    <3> QED
      BY <2>1, <3>1, <3>2, SettledStep
  <2>2. CASE job[w].i \notin collected
    <3>1. Become(w, Idle) /\ UNCHANGED <<seats, till, world>>
      BY <1>2, <2>2 DEF Verify, Finish
    <3> QED
      BY <1>0, <3>1, MovesOn
  <2> QED
    BY <2>1, <2>2
<1>3. ASSUME RetireInvoice(w) PROVE IInv'
  <2> DEFINE j == [job[w] EXCEPT !.step = "renew"]
  <2>1. /\ UNCHANGED <<mix, money, booking, lead, used, lapsed, collected, lost>>
        /\ Become(w, j)
    BY <1>3 DEF RetireInvoice, seats, world, Go
  <2>2. /\ invoice' \in [Invoices -> InvoiceRows]
        /\ \A k \in Invoices : /\ invoice'[k].by = invoice[k].by
                               /\ invoice'[k].status \in {invoice[k].status, "cancelled"}
    <3>1. invoice' = [k \in Invoices |-> IF k = job[w].i
                                         THEN [invoice[k] EXCEPT !.status = "cancelled"]
                                         ELSE invoice[k]]
      BY <1>0, <1>3 DEF RetireInvoice, TypeOK
    <3> QED
      BY <1>0, <3>1 DEF TypeOK, InvoiceRows
  <2>3. j \in Jobs /\ JobOK(j)
    BY <1>0, <1>3 DEF RetireInvoice, At, Jobs, Steps, JobOK
  <2> HIDE DEF j
  <2>4. Lasting
    BY <2>1, <2>2 DEF Lasting
  <2>5. JobsOK' /\ job' \in [Workers -> Jobs]
    BY <2>1, <2>3, <2>4, JobStep DEF IInv
  <2>6. TypeOK'
    BY <1>0, <2>1, <2>2, <2>5 DEF TypeOK
  <2>7. LinksOK'
    <3>1. \A b \in Bookings : booking[b].invoice \in Invoices \cup {None}
      BY <1>0 DEF TypeOK, BookingRows
    <3> QED
      BY <1>0, <2>1, <2>2, <3>1 DEF LinksOK
  <2>8. OneClaimPerSeat' /\ SoldForMoney'
    BY <2>1, <2>2 DEF IInv, OneClaimPerSeat, SoldForMoney, Status
  <2> QED
    BY <2>5, <2>6, <2>7, <2>8 DEF IInv
<1>4. ASSUME RaiseInvoice(w) PROVE IInv'
  <2>1. PICK i \in Invoices :
          /\ invoice[i].status = "absent"
          /\ invoice' = [invoice EXCEPT ![i] =
               [status |-> "pending", provider |-> job[w].provider, by |-> job[w].b]]
          /\ Become(w, [job[w] EXCEPT !.step = "link", !.i = i])
    BY <1>4 DEF RaiseInvoice
  <2> DEFINE j == [job[w] EXCEPT !.step = "link", !.i = i]
  <2>2. UNCHANGED <<mix, money, booking, lead, used, lapsed, collected, lost>>
    BY <1>4 DEF RaiseInvoice, seats, world
  <2>3. job[w].b \in Bookings
    BY <1>0, <1>4 DEF RaiseInvoice, At, JobOK
  <2>4. /\ invoice' \in [Invoices -> InvoiceRows]
        /\ invoice'[i].by = job[w].b /\ invoice'[i].status = "pending"
        /\ \A k \in Invoices \ {i} : invoice'[k] = invoice[k]
    BY <1>0, <2>1, <2>3 DEF TypeOK, InvoiceRows, Jobs
  <2>5. invoice[i].by = None
    BY <1>0, <2>1 DEF LinksOK
  <2>6. Lasting
    BY <2>2, <2>4, <2>5 DEF Lasting
  <2>7. TypeOK'
    <3>1. j \in Jobs
      BY <1>0, ZenonT(60) DEF Jobs, Steps
    <3>2. job' \in [Workers -> Jobs]
      BY <1>0, <2>1, <3>1 DEF Become, TypeOK
    <3> QED
      BY <1>0, <2>2, <2>4, <3>2 DEF TypeOK
  <2>8. JobsOK'
    <3>1. j.step = "link" /\ j.b = job[w].b /\ j.i = i
      BY <1>0 DEF Jobs
    <3> HIDE DEF j
    <3>2. \A v \in Workers \ {w} : job'[v] = job[v]
      BY <1>0, <2>1 DEF Become, TypeOK
    <3>3. job'[w] = j
      BY <1>0, <2>1 DEF Become, TypeOK, j
    <3>4. (JobOK(job[w]))'
      BY <2>3, <2>4, <3>1, <3>3 DEF JobOK
    <3>5. ASSUME NEW v \in Workers \ {w} PROVE (JobOK(job[v]))'
      BY <2>6, <3>2, RowsAssumption DEF IInv, JobsOK, JobOK, Lasting
    <3> QED
      BY <3>4, <3>5 DEF JobsOK
  <2>9. LinksOK'
    <3>1. \A b \in Bookings : booking[b].invoice # None =>
            /\ booking[b].invoice \in Invoices
            /\ invoice[booking[b].invoice].by = b
      BY <1>0 DEF TypeOK, BookingRows, LinksOK
    <3>2. \A b \in Bookings : booking[b].invoice # i
      BY <2>5, <3>1, RowsAssumption
    <3> QED
      BY <1>0, <2>2, <2>4, <3>1, <3>2 DEF LinksOK
  <2>10. OneClaimPerSeat'
    BY <2>2 DEF IInv, OneClaimPerSeat, Status
  <2>11. SoldForMoney'
    BY <2>2, <2>4, <2>5, RowsAssumption DEF IInv, SoldForMoney, Status
  <2> QED
    BY <2>7, <2>8, <2>9, <2>10, <2>11 DEF IInv
<1> QED
  BY <1>1, <1>2, <1>3, <1>4

\* The steps that write bookings.
LEMMA ClaimingKeeps ==
  ASSUME IInv, NEW w \in Workers,
         InsertBooking(w) \/ LinkInvoice(w) \/ Sell(w)
  PROVE  IInv'
<1>0. TypeOK /\ LinksOK /\ job[w] \in Jobs /\ JobOK(job[w]) /\ Idle \in Jobs /\ JobOK(Idle)
  BY JobType DEF IInv, JobsOK
<1>1. UNCHANGED <<mix, invoice, money, lapsed, collected, lost>>
  BY DEF InsertBooking, LinkInvoice, Sell, till, world
<1>2. Lasting
  BY <1>1 DEF Lasting
<1>3. JobsOK' /\ job' \in [Workers -> Jobs]
  <2>1. CASE Finish(w)
    BY <1>0, <1>2, <2>1, JobStep DEF IInv, Finish
  <2>2. CASE Go(w, "repick") /\ At(w, "insert")
    <3> DEFINE j == [job[w] EXCEPT !.step = "repick"]
    <3>1. j \in Jobs /\ JobOK(j) /\ Become(w, j)
      BY <1>0, <2>2 DEF At, Go, Jobs, Steps, JobOK
    <3> QED
      BY <1>2, <3>1, JobStep DEF IInv
  <2> QED
    BY <2>1, <2>2 DEF InsertBooking, LinkInvoice, Sell, At
<1>4. ASSUME booking' \in [Bookings -> BookingRows],
             lead' \in [Leads -> {"new", "booked", "paid", "abandoned"}], used' \in Nat
      PROVE  TypeOK'
  BY <1>0, <1>1, <1>3, <1>4 DEF TypeOK
<1>5. ASSUME LinkInvoice(w) PROVE IInv'
  <2>1. job[w].b \in Bookings /\ job[w].i \in Invoices /\ invoice[job[w].i].by = job[w].b
    BY <1>0, <1>5 DEF LinkInvoice, At, JobOK
  <2>2. booking' = [booking EXCEPT ![job[w].b] = [booking[job[w].b] EXCEPT !.invoice = job[w].i]]
    BY <1>5 DEF LinkInvoice
  <2>3. /\ booking' \in [Bookings -> BookingRows]
        /\ \A b \in Bookings : /\ booking'[b].status = booking[b].status
                               /\ booking'[b].seat = booking[b].seat
        /\ \A b \in Bookings : booking'[b].invoice =
             IF b = job[w].b THEN job[w].i ELSE booking[b].invoice
    <3>1. booking \in [Bookings -> BookingRows]
      BY <1>0 DEF TypeOK
    <3> QED
      BY <2>1, <2>2, <3>1 DEF BookingRows
  <2>4. TypeOK'
    BY <1>0, <1>4, <1>5, <2>3 DEF LinkInvoice, TypeOK
  <2>5. LinksOK'
    BY <1>0, <1>1, <2>1, <2>3 DEF LinksOK
  <2>6. OneClaimPerSeat' /\ SoldForMoney'
    BY <1>1, <2>3 DEF IInv, OneClaimPerSeat, SoldForMoney, Status
  <2> QED
    BY <1>3, <2>4, <2>5, <2>6 DEF IInv
<1>6. ASSUME Sell(w) PROVE IInv'
  <2> DEFINE b == job[w].b
  <2>1. /\ b \in Bookings /\ job[w].i \in Invoices
        /\ invoice[job[w].i].by = b /\ job[w].i \in collected
    BY <1>0, <1>6 DEF Sell, At, JobOK
  <2>2. CASE UNCHANGED seats
    <3>1. TypeOK'
      BY <1>0, <1>4, <2>2 DEF seats, TypeOK
    <3>2. LinksOK' /\ OneClaimPerSeat' /\ SoldForMoney'
      BY <1>0, <1>1, <2>2 DEF IInv, seats, LinksOK, OneClaimPerSeat, SoldForMoney, Status
    <3> QED
      BY <1>3, <3>1, <3>2 DEF IInv
  <2>3. CASE ~UNCHANGED seats
    <3>1. /\ booking' = [booking EXCEPT ![b] = [booking[b] EXCEPT !.status = "paid"]]
          /\ lead' = [lead EXCEPT ![booking[b].lead] = "paid"]
          /\ used' = used + IF booking[b].promo THEN 1 ELSE 0
          /\ Status(b) \in Live \/ ~IndexRefuses(booking[b].seat, Bookings \ {b})
      BY <1>6, <2>3 DEF Sell
    <3> HIDE DEF b
    <3>2. /\ booking' \in [Bookings -> BookingRows]
          /\ \A c \in Bookings : /\ booking'[c].seat = booking[c].seat
                                 /\ booking'[c].invoice = booking[c].invoice
                                 /\ booking'[c].status = IF c = b THEN "paid"
                                                         ELSE booking[c].status
      <4>1. booking \in [Bookings -> BookingRows]
        BY <1>0 DEF TypeOK
      <4> QED
        BY <2>1, <3>1, <4>1 DEF BookingRows
    <3>3. lead' \in [Leads -> {"new", "booked", "paid", "abandoned"}] /\ used' \in Nat
      <4>1. used \in Nat /\ lead \in [Leads -> {"new", "booked", "paid", "abandoned"}]
        BY <1>0 DEF TypeOK
      <4>2. used' \in Nat
        BY <3>1, <4>1
      <4> QED
        BY <3>1, <4>1, <4>2
    <3>4. TypeOK'
      BY <1>4, <3>2, <3>3
    <3>5. LinksOK'
      BY <1>0, <1>1, <3>2 DEF LinksOK
    <3>6. \A c \in Bookings \ {b} : Status(c) \in Live => booking[c].seat # booking[b].seat
      BY <2>1, <3>1 DEF IInv, OneClaimPerSeat, IndexRefuses
    <3>7. OneClaimPerSeat'
      BY <3>2, <3>6 DEF IInv, OneClaimPerSeat, Status
    <3>8. SoldForMoney'
      BY <1>1, <2>1, <3>2 DEF IInv, SoldForMoney, Status
    <3> QED
      BY <1>3, <3>4, <3>5, <3>7, <3>8 DEF IInv
  <2> QED
    BY <2>2, <2>3
<1>7. ASSUME InsertBooking(w) PROVE IInv'
  <2> DEFINE row == [status |-> "held", seat |-> job[w].seat, lead |-> job[w].lead,
                     promo |-> job[w].promo, invoice |-> None]
  <2>1. used' = used
    BY <1>7 DEF InsertBooking
  <2>2. CASE UNCHANGED <<booking, lead>>
    <3>1. TypeOK'
      BY <1>0, <1>4, <2>1, <2>2 DEF TypeOK
    <3>2. LinksOK' /\ OneClaimPerSeat' /\ SoldForMoney'
      BY <1>0, <1>1, <2>2 DEF IInv, LinksOK, OneClaimPerSeat, SoldForMoney, Status
    <3> QED
      BY <1>3, <3>1, <3>2 DEF IInv
  <2>3. CASE ~UNCHANGED <<booking, lead>>
    <3>1. PICK b \in Bookings :
            /\ Status(b) = "absent"
            /\ booking' = [booking EXCEPT ![b] = row]
      BY <1>7, <2>3 DEF InsertBooking
    <3>2. /\ ~IndexRefuses(job[w].seat, Bookings)
          /\ lead' = [lead EXCEPT ![job[w].lead] = IF job[w].marks THEN "booked" ELSE @]
      BY <1>7, <2>3 DEF InsertBooking
    <3>3. row \in BookingRows
      BY <1>0, <1>7 DEF InsertBooking, JobOK, Jobs, BookingRows
    <3>4. row.status = "held" /\ row.seat = job[w].seat /\ row.invoice = None
      OBVIOUS
    <3> HIDE DEF row
    <3>5. booking'[b] = row /\ \A c \in Bookings \ {b} : booking'[c] = booking[c]
      BY <1>0, <3>1 DEF TypeOK
    <3>6. booking' \in [Bookings -> BookingRows]
      BY <1>0, <3>1, <3>3 DEF TypeOK
    <3>7. lead' \in [Leads -> {"new", "booked", "paid", "abandoned"}]
      BY <1>0, <3>2 DEF TypeOK
    <3>8. TypeOK'
      BY <1>0, <1>4, <2>1, <3>6, <3>7 DEF TypeOK
    <3>9. LinksOK'
      BY <1>0, <1>1, <3>4, <3>5 DEF LinksOK
    <3>10. OneClaimPerSeat'
      BY <3>2, <3>4, <3>5 DEF IInv, OneClaimPerSeat, IndexRefuses, Status
    <3>11. SoldForMoney'
      BY <1>1, <3>4, <3>5 DEF IInv, SoldForMoney, Status
    <3> QED
      BY <1>3, <3>8, <3>9, <3>10, <3>11 DEF IInv
  <2> QED
    BY <2>2, <2>3
<1> QED
  BY <1>5, <1>6, <1>7

\* The steps that release or cancel bookings.
LEMMA ReleasingKeeps ==
  ASSUME IInv, NEW w \in Workers,
         ReleaseRows(w) \/ GiveBackSeat(w)
  PROVE  IInv'
<1>0. TypeOK /\ Idle \in Jobs /\ JobOK(Idle) /\ Become(w, Idle)
  BY JobType DEF IInv, ReleaseRows, GiveBackSeat, Finish
<1>1. PICK status \in {"released", "cancelled"} :
        booking' = [b \in Bookings |-> IF b \in job[w].rows
                                       THEN [booking[b] EXCEPT !.status = status]
                                       ELSE booking[b]]
  BY DEF ReleaseRows, GiveBackSeat
<1>2. /\ booking' \in [Bookings -> BookingRows]
      /\ \A b \in Bookings : \/ booking'[b] = booking[b]
                             \/ /\ booking'[b].status \notin Live
                                /\ booking'[b].invoice = booking[b].invoice
  BY <1>0, <1>1, MarkRows
<1>3. UNCHANGED <<mix, lapsed, invoice, collected, money, used, lost>>
  BY DEF ReleaseRows, GiveBackSeat, till, world
<1>4. lead' \in [Leads -> {"new", "booked", "paid", "abandoned"}]
  BY <1>0 DEF ReleaseRows, GiveBackSeat, TypeOK
<1> QED
  BY <1>0, <1>2, <1>3, <1>4, DemotingStep

-----------------------------------------------------------------------------
(* The theorems.                                                           *)

\* The invariant is inductive.
LEMMA InvNext == IInv /\ [Next]_vars => IInv'
<1> SUFFICES ASSUME IInv, [Next]_vars PROVE IInv'
  OBVIOUS
<1>1. CASE World
  BY <1>1, WorldKeeps
<1>2. ASSUME NEW w \in Workers, Arrival(w) PROVE IInv'
  BY <1>2, ArrivalKeeps
<1>3. ASSUME NEW w \in Workers, Progress(w) PROVE IInv'
  BY <1>3, ChoosingKeeps, ReadingKeeps, InvoicingKeeps, ClaimingKeeps, ReleasingKeeps
     DEF Progress
<1>4. ASSUME NEW w \in Workers, Abort(w) PROVE IInv'
  <2>1. /\ Become(w, Idle) /\ UNCHANGED <<mix, booking, lapsed, invoice, collected, money, lead, used>>
        /\ lost' \subseteq lost \cup {job[w].i} /\ (At(w, "link") \/ lost' = lost)
    BY <1>4 DEF Abort, Finish, seats, till
  <2>2. Idle \in Jobs /\ JobOK(Idle)
    BY JobType DEF IInv
  <2>3. At(w, "link") => job[w].i \in Invoices
    BY DEF IInv, JobsOK, JobOK, At
  <2>4. Lasting
    BY <2>1 DEF Lasting
  <2>5. JobsOK' /\ job' \in [Workers -> Jobs]
    BY <2>1, <2>2, <2>4, JobStep DEF IInv
  <2>6. lost' \subseteq Invoices
    BY <2>1, <2>3 DEF IInv, TypeOK
  <2>7. TypeOK'
    BY <2>1, <2>5, <2>6 DEF IInv, TypeOK
  <2>8. LinksOK' /\ OneClaimPerSeat' /\ SoldForMoney'
    BY <2>1 DEF IInv, LinksOK, OneClaimPerSeat, SoldForMoney, Status
  <2> QED
    BY <2>5, <2>7, <2>8 DEF IInv
<1>5. CASE UNCHANGED vars
  <2>1. UNCHANGED <<mix, booking, lapsed, invoice, collected, money, lead, used, job, lost>>
    BY <1>5 DEF vars
  <2>2. Lasting
    BY <2>1 DEF Lasting
  <2>3. JobsOK'
    BY <2>1, <2>2, JobStep DEF IInv
  <2>4. TypeOK'
    BY <2>1 DEF IInv, TypeOK
  <2>5. LinksOK'
    BY <2>1 DEF IInv, LinksOK
  <2>6. OneClaimPerSeat' /\ SoldForMoney'
    BY <2>1 DEF IInv, OneClaimPerSeat, SoldForMoney, Status
  <2> QED
    BY <2>3, <2>4, <2>5, <2>6 DEF IInv
<1> QED
  BY <1>1, <1>2, <1>3, <1>4, <1>5 DEF Next

\* The strengthening holds always, for any number of bookings, invoices, leads,
\* gateways, seats and threads.
THEOREM SeatInvariance == Spec => []IInv
  BY InvInit, InvNext, PTL DEF Spec

\* Every row and every request stays well-typed (models/enrolment.py,
\* models/invoice.py).
THEOREM SeatTypeCorrect == Spec => []TypeOK
<1>1. IInv => TypeOK
  BY DEF IInv
<1> QED
  BY <1>1, SeatInvariance, PTL

\* However requests interleave, no seat ever has two live claims (booking.py:53-58,
\* checkout.py:164-179): the partial unique index is enough.
THEOREM OneClaimPerSeatAlways == Spec => []OneClaimPerSeat
<1>1. IInv => OneClaimPerSeat
  BY DEF IInv
<1> QED
  BY <1>1, SeatInvariance, PTL

\* A seat is only ever sold against money that came in on an invoice of the same
\* checkout (checkout.py:62-67).
THEOREM SoldForMoneyAlways == Spec => []SoldForMoney
<1>1. IInv => SoldForMoney
  BY DEF IInv
<1> QED
  BY <1>1, SeatInvariance, PTL

-----------------------------------------------------------------------------
(* What a step does to the threads, and which steps write bookings.        *)

\* The step a thread is at after each of its actions; the others stay put.
LEMMA Stepped ==
  ASSUME TypeOK, NEW w \in Workers
  PROVE  /\ \A j : Become(w, j) => job'[w] = j /\ \A v \in Workers \ {w} : job'[v] = job[v]
         /\ Finish(w) => job'[w] = Idle /\ \A v \in Workers \ {w} : job'[v] = job[v]
         /\ \A step : Go(w, step) =>
              job'[w] = [job[w] EXCEPT !.step = step] /\ \A v \in Workers \ {w} : job'[v] = job[v]
BY DEF Become, Finish, Go, TypeOK

LEMMA ArrivalSteps ==
  ASSUME TypeOK, NEW w \in Workers
  PROVE  /\ (\E r \in Leads, code \in BOOLEAN : BeginBook(w, r, code)) => At(w, "pick")'
         /\ (\E b \in Bookings, p \in Providers : BeginOpen(w, b, p)) => At(w, "raise")' \/ At(w, "ask")'
         /\ (\E b \in Bookings : BeginPoll(w, b)) => At(w, "check")' \/ At(w, "verify")'
         /\ BeginSweep(w) => At(w, "sweep")'
         /\ (\E i \in Invoices : BeginRefund(w, i)) => At(w, "seat")'
<1>0. job \in [Workers -> Jobs]
  BY DEF TypeOK
<1>1. ASSUME NEW r \in Leads, NEW code \in BOOLEAN, BeginBook(w, r, code) PROVE At(w, "pick")'
  <2>1. Become(w, [Idle EXCEPT !.step = "pick", !.lead = r, !.code = code, !.marks = lead[r] # "booked"])
    BY <1>1 DEF BeginBook, Start
  <2> QED
    BY <1>0, <2>1 DEF Idle, At, Become
<1>2. ASSUME NEW b \in Bookings, NEW p \in Providers, BeginOpen(w, b, p) PROVE At(w, "raise")' \/ At(w, "ask")'
  <2> DEFINE request == [Idle EXCEPT !.b = b, !.i = booking[b].invoice, !.provider = p]
  <2>1. PICK step \in {"raise", "ask"} : Become(w, [request EXCEPT !.step = step])
    BY <1>2 DEF BeginOpen, Start
  <2> QED
    BY <1>0, <2>1 DEF Idle, At, Become
<1>3. ASSUME NEW b \in Bookings, BeginPoll(w, b) PROVE At(w, "check")' \/ At(w, "verify")'
  <2> DEFINE request == [Idle EXCEPT !.b = b, !.i = booking[b].invoice, !.saw = Status(b)]
  <2>1. PICK step \in {"check", "verify"} : Become(w, [request EXCEPT !.step = step])
    BY <1>3 DEF BeginPoll, Start
  <2> QED
    BY <1>0, <2>1 DEF Idle, At, Become
<1>4. ASSUME BeginSweep(w) PROVE At(w, "sweep")'
  <2>1. Become(w, [Idle EXCEPT !.step = "sweep", !.rows = {b \in Bookings : Expired(b)}])
    BY <1>4 DEF BeginSweep, Start
  <2> QED
    BY <1>0, <2>1 DEF Idle, At, Become
<1>5. ASSUME NEW i \in Invoices, BeginRefund(w, i) PROVE At(w, "seat")'
  <2>1. Become(w, [Idle EXCEPT !.step = "seat", !.i = i])
    BY <1>5 DEF BeginRefund, Start
  <2> QED
    BY <1>0, <2>1 DEF Idle, At, Become
<1> QED
  BY <1>1, <1>2, <1>3, <1>4, <1>5

LEMMA ProgressSteps ==
  ASSUME TypeOK, NEW w \in Workers
  PROVE  /\ PickSeat(w) => At(w, "pick") /\ (At(w, "idle")' \/ At(w, "insert")')
         /\ RepickSeat(w) => At(w, "repick") /\ (At(w, "idle")' \/ At(w, "reinsert")')
         /\ InsertBooking(w) => (At(w, "insert") \/ At(w, "reinsert")) /\ (At(w, "idle")' \/ At(w, "repick")')
         /\ AskOldGateway(w) => At(w, "ask") /\ (At(w, "renew")' \/ At(w, "retire")')
         /\ RetireInvoice(w) => At(w, "retire") /\ At(w, "renew")'
         /\ RenewInvoice(w) => At(w, "renew") /\ (At(w, "idle")' \/ At(w, "raise")')
         /\ RaiseInvoice(w) => At(w, "raise") /\ At(w, "link")'
         /\ LinkInvoice(w) => At(w, "link") /\ At(w, "idle")'
         /\ Verify(w) => At(w, "verify") /\ (At(w, "idle")' \/ At(w, "reload")')
         /\ Reload(w) => At(w, "reload") /\ (At(w, "idle")' \/ At(w, "check")')
         /\ CheckLate(w) => At(w, "check") /\ (At(w, "idle")' \/ At(w, "sell")')
         /\ Sell(w) => At(w, "sell") /\ At(w, "idle")'
         /\ ReleaseRows(w) => At(w, "sweep") /\ At(w, "idle")'
         /\ FindSeat(w) => At(w, "seat") /\ At(w, "cancel")'
         /\ GiveBackSeat(w) => At(w, "cancel") /\ At(w, "idle")'
         /\ Abort(w) => At(w, "idle")'
<1>0. job \in [Workers -> Jobs]
  BY DEF TypeOK
<1>1. job[w] \in Jobs
  BY <1>0
<1>2. Finish(w) => At(w, "idle")'
  BY Stepped DEF At, Idle
<1>3. ASSUME NEW step PROVE Go(w, step) => At(w, step)'
  BY <1>0, <1>1 DEF At, Go, Become, Jobs
<1>4. PickSeat(w) => At(w, "pick") /\ (At(w, "idle")' \/ At(w, "insert")')
  <2>1. SUFFICES ASSUME PickSeat(w), ~Finish(w) PROVE At(w, "insert")'
    BY <1>2 DEF PickSeat
  <2>2. PICK s, m : Become(w, [job[w] EXCEPT !.step = "insert", !.seat = s, !.marks = m,
                                             !.promo = job[w].code /\ used < MaxUses])
    BY <2>1 DEF PickSeat
  <2> QED
    BY <1>0, <1>1, <2>2 DEF At, Become, Jobs
<1>5. RepickSeat(w) => At(w, "repick") /\ (At(w, "idle")' \/ At(w, "reinsert")')
  <2>1. SUFFICES ASSUME RepickSeat(w), ~Finish(w) PROVE At(w, "reinsert")'
    BY <1>2 DEF RepickSeat
  <2>2. PICK s : Become(w, [job[w] EXCEPT !.step = "reinsert", !.seat = s,
                                          !.marks = lead[job[w].lead] # "booked",
                                          !.promo = job[w].code /\ used < MaxUses])
    BY <2>1 DEF RepickSeat
  <2> QED
    BY <1>0, <1>1, <2>2 DEF At, Become, Jobs
<1>6. RaiseInvoice(w) => At(w, "raise") /\ At(w, "link")'
  BY <1>0, <1>1 DEF RaiseInvoice, At, Become, Jobs
<1>7. Reload(w) => At(w, "reload") /\ (At(w, "idle")' \/ At(w, "check")')
  BY <1>0, <1>1, <1>2 DEF Reload, At, Become, Jobs
<1>8. FindSeat(w) => At(w, "seat") /\ At(w, "cancel")'
  BY <1>0, <1>1 DEF FindSeat, At, Become, Jobs
<1>9. /\ InsertBooking(w) => (At(w, "insert") \/ At(w, "reinsert")) /\ (At(w, "idle")' \/ At(w, "repick")')
      /\ AskOldGateway(w) => At(w, "ask") /\ (At(w, "renew")' \/ At(w, "retire")')
      /\ RetireInvoice(w) => At(w, "retire") /\ At(w, "renew")'
      /\ RenewInvoice(w) => At(w, "renew") /\ (At(w, "idle")' \/ At(w, "raise")')
      /\ LinkInvoice(w) => At(w, "link") /\ At(w, "idle")'
  BY <1>2, <1>3 DEF InsertBooking, AskOldGateway, RetireInvoice, RenewInvoice, LinkInvoice, At
<1>10. /\ Verify(w) => At(w, "verify") /\ (At(w, "idle")' \/ At(w, "reload")')
       /\ CheckLate(w) => At(w, "check") /\ (At(w, "idle")' \/ At(w, "sell")')
       /\ Sell(w) => At(w, "sell") /\ At(w, "idle")'
       /\ ReleaseRows(w) => At(w, "sweep") /\ At(w, "idle")'
       /\ GiveBackSeat(w) => At(w, "cancel") /\ At(w, "idle")'
       /\ Abort(w) => At(w, "idle")'
  BY <1>2, <1>3 DEF Verify, CheckLate, Sell, ReleaseRows, GiveBackSeat, Abort
<1> QED
  BY <1>4, <1>5, <1>6, <1>7, <1>8, <1>9, <1>10

\* A step is a thread's, or one that leaves bookings and threads alone.
Acts(w) == Arrival(w) \/ Progress(w) \/ Abort(w)

LEMMA WhoActs ==
  ASSUME [Next]_vars
  PROVE  UNCHANGED <<mix, booking, lead, used, job>> \/ \E w \in Workers : Acts(w)
<1>1. CASE World
  BY <1>1 DEF World, Lapse, BuyerPays, Callback, seats, world
<1>2. CASE UNCHANGED vars
  BY <1>2 DEF vars
<1> QED
  BY <1>1, <1>2 DEF Next, Acts

LEMMA ActsOf ==
  ASSUME TypeOK, NEW w \in Workers, Acts(w)
  PROVE  /\ \A v \in Workers \ {w} : job'[v] = job[v]
         /\ UNCHANGED <<mix, lapsed, collected>>
         /\ At(w, "idle") => Arrival(w) \/ UNCHANGED job
         /\ Alone /\ Arrival(w) => \A v \in Workers : At(v, "idle")
<1>1. CASE Arrival(w)
  <2>1. PICK j : Become(w, j)
    BY <1>1 DEF Arrival, BeginBook, BeginOpen, BeginPoll, BeginSweep, BeginRefund, Start
  <2>2. Alone => \A v \in Workers : At(v, "idle")
    BY <1>1 DEF Arrival, BeginBook, BeginOpen, BeginPoll, BeginSweep, BeginRefund, Start
  <2>3. UNCHANGED world
    BY <1>1 DEF Arrival, BeginBook, BeginOpen, BeginPoll, BeginSweep, BeginRefund
  <2> QED
    BY <1>1, <2>1, <2>2, <2>3, Stepped DEF world
<1>2. CASE Progress(w) \/ Abort(w)
  <2>1. \E j : Become(w, j)
    BY <1>2 DEF Progress, Abort, PickSeat, InsertBooking, RepickSeat, AskOldGateway, RetireInvoice,
       RenewInvoice, RaiseInvoice, LinkInvoice, Verify, Reload, CheckLate, Sell, ReleaseRows, FindSeat,
       GiveBackSeat, Finish, Go
  <2>2. UNCHANGED <<mix, lapsed, collected>>
    BY <1>2 DEF world, Progress, Abort, PickSeat, InsertBooking, RepickSeat, AskOldGateway, RetireInvoice,
       RenewInvoice, RaiseInvoice, LinkInvoice, Verify, Reload, CheckLate, Sell, ReleaseRows, FindSeat,
       GiveBackSeat
  <2>3. ~At(w, "idle")
    BY <1>2, ProgressSteps DEF Progress, Abort, At
  <2>4. Arrival(w) => At(w, "idle")
    BY DEF Arrival, BeginBook, BeginOpen, BeginPoll, BeginSweep, BeginRefund, Start
  <2> QED
    BY <2>1, <2>2, <2>3, <2>4, Stepped
<1> QED
  BY <1>1, <1>2 DEF Acts

\* The kinds of requests a behaviour consists of stay what they are.
LEMMA MixStands ==
  ASSUME TypeOK, [Next]_vars
  PROVE  UNCHANGED mix /\ UNCHANGED SweepsBeside
<1>1. UNCHANGED mix
  <2>1. ASSUME NEW w \in Workers, Acts(w) PROVE UNCHANGED mix
    BY <2>1, ActsOf
  <2> QED
    BY <2>1, WhoActs
<1> QED
  BY <1>1 DEF SweepsBeside, Alone

\* Whoever owns an invoice keeps it, and money that went back stays back.
LEMMA TillLasts ==
  ASSUME IInv, [Next]_vars
  PROVE  /\ \A i \in Invoices : invoice[i].by # None => invoice'[i].by = invoice[i].by
         /\ \A i \in Invoices : money[i] \in {"receipt_left", "refunded"} =>
              money'[i] \in {"receipt_left", "refunded"}
         /\ collected \subseteq collected' /\ lapsed \subseteq lapsed'
<1>0. TypeOK /\ LinksOK
  BY DEF IInv
<1>1. ASSUME NEW i \in Invoices, Settled(i)
      PROVE  /\ \A k \in Invoices : invoice'[k].by = invoice[k].by
             /\ \A k \in Invoices : money[k] \in {"receipt_left", "refunded"} => money'[k] = money[k]
  BY <1>0, <1>1 DEF Settled, TypeOK, InvoiceRows
<1>2. CASE World
  BY <1>1, <1>2 DEF World, Lapse, BuyerPays, Callback, world
<1>3. ASSUME NEW w \in Workers, Arrival(w)
      PROVE  /\ UNCHANGED invoice
             /\ \A i \in Invoices : money[i] \in {"receipt_left", "refunded"} =>
                  money'[i] \in {"receipt_left", "refunded"}
  <2>1. UNCHANGED invoice
    BY <1>3 DEF Arrival, BeginBook, BeginOpen, BeginPoll, BeginSweep, BeginRefund, till
  <2>2. UNCHANGED money \/ \E i \in Invoices, after \in {"refunded", "receipt_left"} :
                              money' = [money EXCEPT ![i] = after]
    BY <1>3 DEF Arrival, BeginBook, BeginOpen, BeginPoll, BeginSweep, BeginRefund, till
  <2> QED
    BY <1>0, <2>1, <2>2 DEF TypeOK
<1>4. ASSUME NEW w \in Workers, Progress(w) \/ Abort(w)
      PROVE  /\ \A i \in Invoices : invoice[i].by # None => invoice'[i].by = invoice[i].by
             /\ \A i \in Invoices : money[i] \in {"receipt_left", "refunded"} => money'[i] = money[i]
  <2>0. job[w] \in Jobs /\ JobOK(job[w])
    BY JobType DEF IInv, JobsOK
  <2>1. CASE AskOldGateway(w) \/ Verify(w)
    <3>1. UNCHANGED till \/ (job[w].i \in collected /\ Settled(job[w].i))
      BY <2>1 DEF AskOldGateway, Verify
    <3> QED
      BY <1>0, <1>1, <3>1 DEF TypeOK, till
  <2>2. CASE RetireInvoice(w)
    BY <1>0, <2>2 DEF RetireInvoice, TypeOK, InvoiceRows
  <2>3. CASE RaiseInvoice(w)
    <3>1. PICK i \in Invoices : /\ invoice[i].status = "absent"
                                /\ \A k \in Invoices \ {i} : invoice'[k] = invoice[k]
      BY <1>0, <2>3 DEF RaiseInvoice, TypeOK
    <3>2. invoice[i].by = None
      BY <1>0, <3>1 DEF LinksOK
    <3> QED
      BY <2>3, <3>1, <3>2 DEF RaiseInvoice
  <2>4. CASE ~(AskOldGateway(w) \/ Verify(w) \/ RetireInvoice(w) \/ RaiseInvoice(w))
    <3>1. UNCHANGED till
      BY <1>4, <2>4 DEF Progress, Abort, PickSeat, InsertBooking, RepickSeat, RenewInvoice, LinkInvoice,
         Reload, CheckLate, Sell, ReleaseRows, FindSeat, GiveBackSeat
    <3> QED
      BY <3>1 DEF till
  <2> QED
    BY <2>1, <2>2, <2>3, <2>4
<1>5. CASE UNCHANGED vars
  BY <1>5 DEF vars
<1>6. collected \subseteq collected' /\ lapsed \subseteq lapsed'
  <2>1. CASE World
    BY <2>1 DEF World, Lapse, BuyerPays, Callback, world
  <2>2. ASSUME NEW w \in Workers, Acts(w) PROVE collected \subseteq collected' /\ lapsed \subseteq lapsed'
    BY <1>0, <2>2, ActsOf
  <2> QED
    BY <1>5, <2>1, <2>2 DEF Next, Acts, vars
<1> QED
  BY <1>2, <1>3, <1>4, <1>5, <1>6 DEF Next

LEMMA BookingWrites ==
  ASSUME NEW w \in Workers, Acts(w)
  PROVE  \/ UNCHANGED <<booking, lead>>
         \/ \E r \in Leads, code \in BOOLEAN : BeginBook(w, r, code)
         \/ InsertBooking(w) \/ LinkInvoice(w) \/ Sell(w) \/ ReleaseRows(w) \/ GiveBackSeat(w)
<1>1. CASE Arrival(w)
  BY <1>1 DEF Arrival, BeginOpen, BeginPoll, BeginSweep, BeginRefund, seats
<1>2. CASE Progress(w) \/ Abort(w)
  BY <1>2 DEF Progress, Abort, PickSeat, RepickSeat, AskOldGateway, RetireInvoice, RenewInvoice,
     RaiseInvoice, Verify, Reload, CheckLate, FindSeat, seats
<1> QED
  BY <1>1, <1>2 DEF Acts

-----------------------------------------------------------------------------
(* Sweeps, refunds and the leads.  The sweep writes rows it read one step  *)
(* before: beside the requests it may find a row sold by then, but only    *)
(* one whose hold had run out.                                             *)

\* In an "alone" mix one thread is busy at most.
OneAtATime ==
  Alone => \A v, w \in Workers : v = w \/ At(v, "idle") \/ At(w, "idle")

\* A refund has sent the money back before it looks for the seat, and the
\* bookings it finds are those of the refunded invoice.
RefundOK ==
  \A w \in Workers :
    /\ At(w, "seat") \/ At(w, "cancel") =>
         job[w].i \in Invoices /\ money[job[w].i] \in {"receipt_left", "refunded"}
    /\ At(w, "cancel") => \A b \in job[w].rows : b \in Bookings /\ invoice[job[w].i].by = b

\* What a sweep is about to release ran out, and served by itself it is unpaid.
SweepOK ==
  \A w \in Workers : At(w, "sweep") =>
    /\ "sweep" \in mix
    /\ \A b \in job[w].rows : b \in Bookings /\ b \in lapsed /\ (SweepsBeside \/ Status(b) = "held")

LEMMA OneAtATimeKeeps ==
  ASSUME IInv, [Next]_vars, OneAtATime
  PROVE  OneAtATime'
<1>0. TypeOK
  BY DEF IInv
<1>1. CASE UNCHANGED <<mix, booking, lead, used, job>>
  BY <1>1 DEF OneAtATime, Alone, At
<1>2. ASSUME NEW w \in Workers, Acts(w) PROVE OneAtATime'
  <2>1. /\ \A v \in Workers \ {w} : job'[v] = job[v]
        /\ UNCHANGED mix
        /\ At(w, "idle") => Arrival(w) \/ UNCHANGED job
        /\ Alone /\ Arrival(w) => \A v \in Workers : At(v, "idle")
    BY <1>0, <1>2, ActsOf
  <2>2. CASE At(w, "idle") /\ UNCHANGED job
    BY <2>1, <2>2 DEF OneAtATime, Alone, At
  <2>3. CASE ~At(w, "idle") \/ Arrival(w)
    <3>1. Alone => \A v \in Workers \ {w} : At(v, "idle")
      BY <2>1, <2>3 DEF OneAtATime
    <3> QED
      BY <2>1, <3>1 DEF OneAtATime, Alone, At
  <2> QED
    BY <2>1, <2>2, <2>3
<1> QED
  BY <1>1, <1>2, WhoActs

LEMMA RefundKeeps ==
  ASSUME IInv, IInv', [Next]_vars, RefundOK
  PROVE  RefundOK'
<1>0. TypeOK /\ LinksOK
  BY DEF IInv
<1>1. ASSUME NEW v \in Workers, job'[v] = job[v]
      PROVE  /\ At(v, "seat")' \/ At(v, "cancel")' =>
                  job'[v].i \in Invoices /\ money'[job'[v].i] \in {"receipt_left", "refunded"}
             /\ At(v, "cancel")' => \A b \in job'[v].rows : b \in Bookings /\ invoice'[job'[v].i].by = b
  BY <1>1, TillLasts, RowsAssumption DEF RefundOK, At
<1>2. ASSUME NEW w \in Workers, Acts(w)
      PROVE  /\ At(w, "seat")' \/ At(w, "cancel")' =>
                  job'[w].i \in Invoices /\ money'[job'[w].i] \in {"receipt_left", "refunded"}
             /\ At(w, "cancel")' => \A b \in job'[w].rows : b \in Bookings /\ invoice'[job'[w].i].by = b
  <2>1. CASE FindSeat(w)
    <3> DEFINE rows == {b \in Bookings : booking[b].invoice = job[w].i /\ Status(b) \in Live}
    <3>1. Become(w, [job[w] EXCEPT !.step = "cancel", !.rows = rows]) /\ At(w, "seat")
          /\ UNCHANGED <<invoice, money>>
      BY <2>1 DEF FindSeat, till
    <3>2. job \in [Workers -> Jobs]
      BY <1>0 DEF TypeOK
    <3>3. job'[w].step = "cancel" /\ job'[w].i = job[w].i /\ job'[w].rows = rows
      BY <3>1, <3>2 DEF Become, Jobs
    <3>4. \A b \in rows : b \in Bookings /\ invoice[job[w].i].by = b
      BY <1>0, <3>1, RowsAssumption DEF LinksOK, RefundOK
    <3> QED
      BY <3>1, <3>3, <3>4 DEF RefundOK
  <2>2. CASE \E i \in Invoices : BeginRefund(w, i)
    <3>1. PICK i \in Invoices : BeginRefund(w, i)
      BY <2>2
    <3>2. job \in [Workers -> Jobs] /\ money \in [Invoices -> {"none", "recorded", "receipt_left", "refunded"}]
      BY <1>0 DEF TypeOK
    <3>3. Become(w, [Idle EXCEPT !.step = "seat", !.i = i])
      BY <3>1 DEF BeginRefund, Start
    <3>4. job'[w].step = "seat" /\ job'[w].i = i
      BY <3>2, <3>3 DEF Become, Idle
    <3>5. money'[i] \in {"receipt_left", "refunded"}
      BY <3>1, <3>2 DEF BeginRefund
    <3> QED
      BY <3>4, <3>5 DEF At
  <2>3. CASE ~FindSeat(w) /\ ~\E i \in Invoices : BeginRefund(w, i)
    <3>1. ~At(w, "seat")' /\ ~At(w, "cancel")'
      BY <1>0, <1>2, <2>3, ArrivalSteps, ProgressSteps DEF Acts, Arrival, Progress, At
    <3> QED
      BY <3>1
  <2> QED
    BY <2>1, <2>2, <2>3
<1>3. CASE UNCHANGED job
  BY <1>1, <1>3 DEF RefundOK
<1>4. ASSUME NEW w \in Workers, Acts(w) PROVE RefundOK'
  <2>1. \A v \in Workers \ {w} : job'[v] = job[v]
    BY <1>0, <1>4, ActsOf
  <2> QED
    BY <1>1, <1>2, <1>4, <2>1 DEF RefundOK
<1> QED
  BY <1>3, <1>4, WhoActs

LEMMA SweepKeeps ==
  ASSUME IInv, [Next]_vars, OneAtATime, SweepOK
  PROVE  SweepOK'
<1>0. TypeOK /\ SweepsBeside' = SweepsBeside
  BY MixStands DEF IInv
<1>1. CASE UNCHANGED <<mix, booking, lead, used, job>>
  BY <1>0, <1>1, TillLasts DEF SweepOK, At, Status
<1>2. ASSUME NEW w \in Workers, Acts(w) PROVE SweepOK'
  <2>1. /\ \A v \in Workers \ {w} : job'[v] = job[v]
        /\ UNCHANGED <<mix, lapsed>>
        /\ At(w, "idle") => Arrival(w) \/ UNCHANGED job
        /\ Alone /\ Arrival(w) => \A v \in Workers : At(v, "idle")
    BY <1>0, <1>2, ActsOf
  <2>2. ASSUME NEW v \in Workers, At(v, "sweep"), v # w
        PROVE  "sweep" \in mix /\ SweepsBeside /\ \A b \in job[v].rows : b \in Bookings /\ b \in lapsed
    <3>1. CASE Alone
      <4>1. At(w, "idle") /\ ~Arrival(w)
        BY <2>1, <2>2, <3>1 DEF OneAtATime, At
      <4> QED
        BY <1>0, <1>2, <4>1, ProgressSteps DEF Acts, Progress, Abort, At
    <3>2. CASE ~Alone
      BY <2>2, <3>2 DEF SweepOK, SweepsBeside
    <3> QED
      BY <3>1, <3>2
  <2>3. CASE BeginSweep(w)
    <3> DEFINE rows == {b \in Bookings : Expired(b)}
    <3>1. Become(w, [Idle EXCEPT !.step = "sweep", !.rows = rows]) /\ "sweep" \in mix /\ UNCHANGED booking
      BY <2>3 DEF BeginSweep, Start, seats
    <3>2. job \in [Workers -> Jobs]
      BY <1>0 DEF TypeOK
    <3>3. job'[w].rows = rows
      BY <3>1, <3>2 DEF Become, Idle
    <3>4. \A b \in rows : b \in Bookings /\ b \in lapsed /\ Status(b) = "held"
      BY DEF Expired
    <3>5. ASSUME NEW v \in Workers, At(v, "sweep")', v # w
          PROVE  /\ "sweep" \in mix' /\ SweepsBeside'
                 /\ \A b \in job'[v].rows : b \in Bookings /\ b \in lapsed'
      BY <1>0, <2>1, <2>2, <3>5 DEF At
    <3>6. "sweep" \in mix' /\ \A b \in job'[w].rows : b \in Bookings /\ b \in lapsed' /\ booking'[b].status = "held"
      BY <2>1, <3>1, <3>3, <3>4 DEF Status
    <3> QED
      BY <3>5, <3>6 DEF SweepOK, Status
  <2>4. CASE ~BeginSweep(w)
    <3>1. ~At(w, "sweep")'
      BY <1>0, <1>2, <2>4, ArrivalSteps, ProgressSteps DEF Acts, Arrival, Progress, At
    <3>2. ASSUME NEW v \in Workers, At(v, "sweep")', v # w
          PROVE  /\ "sweep" \in mix' /\ SweepsBeside'
                 /\ \A b \in job'[v].rows : b \in Bookings /\ b \in lapsed'
      BY <1>0, <2>1, <2>2, <3>2 DEF At
    <3> QED
      BY <3>1, <3>2 DEF SweepOK
  <2> QED
    BY <2>3, <2>4
<1> QED
  BY <1>1, <1>2, WhoActs

\* Marking rows changes their status alone.
LEMMA MarkedRows ==
  ASSUME TypeOK, NEW rows, NEW status \in {"released", "cancelled"},
         booking' = [b \in Bookings |-> IF b \in rows
                                        THEN [booking[b] EXCEPT !.status = status]
                                        ELSE booking[b]]
  PROVE  \A b \in Bookings :
           /\ b \notin rows => booking'[b] = booking[b]
           /\ b \in rows => /\ booking'[b].status = status /\ booking'[b].seat = booking[b].seat
                            /\ booking'[b].lead = booking[b].lead
                            /\ booking'[b].invoice = booking[b].invoice
<1>1. \A b \in Bookings : booking[b] \in BookingRows
  BY DEF TypeOK
<1> QED
  BY <1>1 DEF BookingRows

\* A sale, or one that the tick took back, is what a paid lead rests on.
Backs(b) == Status(b) = "paid" \/ (SweepsBeside /\ Status(b) = "released" /\ b \in lapsed)

\* A step in which whatever backs a lead goes on doing so, as far as the lead is
\* still paid.
LEMMA BackedStep ==
  ASSUME PaidLeadHasSale,
         \A r \in Leads : lead'[r] = "paid" => lead[r] = "paid",
         \A b \in Bookings : Backs(b) /\ (booking[b].lead \in Leads => lead'[booking[b].lead] = "paid") =>
           Backs(b)' /\ booking'[b].lead = booking[b].lead
  PROVE  PaidLeadHasSale'
<1>1. ASSUME NEW r \in Leads, lead'[r] = "paid"
      PROVE  \E b \in Bookings : booking'[b].lead = r /\ Backs(b)'
  <2>1. PICK b \in Bookings : booking[b].lead = r /\ Backs(b)
    BY <1>1 DEF PaidLeadHasSale, Backs
  <2> QED
    BY <1>1, <2>1
<1> QED
  BY <1>1 DEF PaidLeadHasSale, Backs

LEMMA PaidLeadKeeps ==
  ASSUME IInv, [Next]_vars, SweepOK, PaidLeadHasSale
  PROVE  PaidLeadHasSale'
<1>0. /\ TypeOK /\ booking \in [Bookings -> BookingRows]
      /\ SweepsBeside' = SweepsBeside /\ lapsed \subseteq lapsed'
  BY MixStands, TillLasts DEF IInv, TypeOK
<1>1. CASE UNCHANGED <<booking, lead>>
  <2>1. \A b \in Bookings : Backs(b) => Backs(b)' /\ booking'[b].lead = booking[b].lead
    BY <1>0, <1>1 DEF Backs, Status
  <2> QED
    BY <1>1, <2>1, BackedStep
<1>2. ASSUME NEW w \in Workers, Acts(w) PROVE PaidLeadHasSale'
  <2>0. job[w] \in Jobs /\ JobOK(job[w]) /\ lead \in [Leads -> {"new", "booked", "paid", "abandoned"}]
    BY JobType DEF IInv, JobsOK, TypeOK
  <2>1. CASE \E r \in Leads, code \in BOOLEAN : BeginBook(w, r, code)
    <3>1. UNCHANGED lead
          /\ booking' = [b \in Bookings |-> IF b \in {c \in Bookings : Expired(c)}
                                            THEN [booking[b] EXCEPT !.status = "released"]
                                            ELSE booking[b]]
      BY <2>1 DEF BeginBook, Retire
    <3>2. \A b \in Bookings : Backs(b) => booking'[b] = booking[b]
      BY <1>0, <3>1, MarkedRows DEF Expired, Backs
    <3>3. \A b \in Bookings : Backs(b) => Backs(b)' /\ booking'[b].lead = booking[b].lead
      BY <1>0, <3>2 DEF Backs, Status
    <3> QED
      BY <3>1, <3>3, BackedStep
  <2>2. CASE InsertBooking(w)
    <3>1. \A b \in Bookings : Status(b) # "absent" => booking'[b] = booking[b]
      BY <1>0, <2>2 DEF InsertBooking, Status
    <3>2. \A r \in Leads : lead'[r] \in {lead[r], "booked"}
      BY <2>0, <2>2 DEF InsertBooking
    <3>3. \A b \in Bookings : Backs(b) => Backs(b)' /\ booking'[b].lead = booking[b].lead
      BY <1>0, <3>1 DEF Backs, Status
    <3> QED
      BY <3>2, <3>3, BackedStep
  <2>3. CASE LinkInvoice(w)
    <3>1. \A b \in Bookings : booking'[b].status = booking[b].status /\ booking'[b].lead = booking[b].lead
      BY <1>0, <2>3 DEF LinkInvoice, BookingRows
    <3>2. UNCHANGED lead
      BY <2>3 DEF LinkInvoice
    <3>3. \A b \in Bookings : Backs(b) => Backs(b)' /\ booking'[b].lead = booking[b].lead
      BY <1>0, <3>1 DEF Backs, Status
    <3> QED
      BY <3>2, <3>3, BackedStep
  <2>4. CASE Sell(w)
    <3> DEFINE b == job[w].b
    <3>1. b \in Bookings
      BY <2>0, <2>4 DEF Sell, At, JobOK
    <3>2. CASE UNCHANGED <<booking, lead>>
      BY <3>2, <1>1
    <3>3. CASE /\ booking' = [booking EXCEPT ![b] = [booking[b] EXCEPT !.status = "paid"]]
               /\ lead' = [lead EXCEPT ![booking[b].lead] = "paid"]
      <4>1. /\ booking'[b].status = "paid" /\ booking'[b].lead = booking[b].lead
            /\ \A c \in Bookings \ {b} : booking'[c] = booking[c]
        BY <1>0, <3>1, <3>3 DEF BookingRows
      <4>2. \A r \in Leads : r = booking[b].lead \/ lead'[r] = lead[r]
        BY <2>0, <3>3
      <4>3. \A c \in Bookings : Backs(c) => Backs(c)' /\ booking'[c].lead = booking[c].lead
        BY <1>0, <4>1 DEF Backs, Status
      <4>4. \A r \in Leads : lead[r] = "paid" => \E c \in Bookings : booking'[c].lead = r /\ Backs(c)'
        BY <4>3 DEF PaidLeadHasSale, Backs
      <4>5. \A c \in Bookings : c = b => Backs(c)'
        BY <4>1 DEF Backs, Status
      <4>6. \A r \in Leads : lead'[r] = "paid" => \E c \in Bookings : booking'[c].lead = r /\ Backs(c)'
        BY <3>1, <4>1, <4>2, <4>4, <4>5
      <4> QED
        BY <4>6 DEF PaidLeadHasSale, Backs
    <3> QED
      BY <2>4, <3>2, <3>3 DEF Sell, seats
  <2>5. CASE ReleaseRows(w)
    <3>1. UNCHANGED lead /\ booking' = [b \in Bookings |-> IF b \in job[w].rows
                                                          THEN [booking[b] EXCEPT !.status = "released"]
                                                          ELSE booking[b]]
      BY <2>5 DEF ReleaseRows
    <3>2. \A b \in Bookings : /\ b \notin job[w].rows => booking'[b] = booking[b]
                              /\ b \in job[w].rows => /\ booking'[b].status = "released"
                                                      /\ booking'[b].lead = booking[b].lead
      BY <1>0, <3>1, MarkedRows
    <3>3. \A b \in job[w].rows : b \in lapsed /\ (SweepsBeside \/ Status(b) = "held")
      BY <2>5 DEF SweepOK, ReleaseRows
    <3>4. \A b \in Bookings : Backs(b) => Backs(b)' /\ booking'[b].lead = booking[b].lead
      <4>1. ASSUME NEW b \in Bookings, Backs(b) PROVE Backs(b)' /\ booking'[b].lead = booking[b].lead
        <5>1. CASE b \in job[w].rows
          BY <1>0, <3>2, <3>3, <4>1, <5>1 DEF Backs, Status
        <5>2. CASE b \notin job[w].rows
          BY <1>0, <3>2, <4>1, <5>2 DEF Backs, Status
        <5> QED
          BY <5>1, <5>2
      <4> QED
        BY <4>1
    <3> QED
      BY <3>1, <3>4, BackedStep
  <2>6. CASE GiveBackSeat(w)
    <3>1. booking' = [b \in Bookings |-> IF b \in job[w].rows
                                         THEN [booking[b] EXCEPT !.status = "cancelled"]
                                         ELSE booking[b]]
      BY <2>6 DEF GiveBackSeat
    <3>2. \A b \in Bookings : b \notin job[w].rows => booking'[b] = booking[b]
      BY <1>0, <3>1, MarkedRows
    <3>3. \A r \in Leads : lead'[r] = "paid" =>
            lead[r] = "paid" /\ \A b \in job[w].rows : booking[b].lead # r
      BY <2>6 DEF GiveBackSeat
    <3>4. \A b \in Bookings : b \notin job[w].rows /\ Backs(b) => Backs(b)' /\ booking'[b].lead = booking[b].lead
      BY <1>0, <3>2 DEF Backs, Status
    <3>5. ASSUME NEW r \in Leads, lead'[r] = "paid"
          PROVE  \E b \in Bookings : booking'[b].lead = r /\ Backs(b)'
      <4>1. PICK b \in Bookings : booking[b].lead = r /\ Backs(b)
        BY <3>3, <3>5 DEF PaidLeadHasSale, Backs
      <4> QED
        BY <3>3, <3>4, <3>5, <4>1
    <3> QED
      BY <3>5 DEF PaidLeadHasSale, Backs
  <2> QED
    BY <1>1, <1>2, <2>1, <2>2, <2>3, <2>4, <2>5, <2>6, BookingWrites
<1> QED
  BY <1>1, <1>2, WhoActs

-----------------------------------------------------------------------------
(* The funnel implements SeatSale: every step is a hold, a sale, a release *)
(* of holds that ran out, a seat given back for money, or none of these.   *)

\* With one claim per seat, the claimant of a seat is whoever has a live row on it.
LEMMA ClaimsAre ==
  /\ OneClaimPerSeat => \A s \in Seats :
       /\ Claims[s] \in Bookings \cup {None}
       /\ \A b \in Bookings : Claims[s] = b <=> booking[b].status \in Live /\ booking[b].seat = s
  /\ OneClaimPerSeat' => \A s \in Seats :
       /\ Claims'[s] \in Bookings \cup {None}
       /\ \A b \in Bookings : Claims'[s] = b <=> booking'[b].status \in Live /\ booking'[b].seat = s
<1>1. ASSUME OneClaimPerSeat, NEW s \in Seats
      PROVE  /\ Claims[s] \in Bookings \cup {None}
             /\ \A b \in Bookings : Claims[s] = b <=> booking[b].status \in Live /\ booking[b].seat = s
  <2>1. Claims[s] = Claimant(s)
    BY DEF Claims
  <2>2. CASE \E b \in Bookings : Status(b) \in Live /\ booking[b].seat = s
    <3> DEFINE owner == CHOOSE b \in Bookings : Status(b) \in Live /\ booking[b].seat = s
    <3>1. owner \in Bookings /\ Status(owner) \in Live /\ booking[owner].seat = s
      BY <2>2
    <3>2. Claims[s] = owner
      BY <2>1, <2>2 DEF Claimant
    <3> HIDE DEF owner
    <3> QED
      BY <1>1, <3>1, <3>2 DEF OneClaimPerSeat, Status
  <2>3. CASE ~\E b \in Bookings : Status(b) \in Live /\ booking[b].seat = s
    BY <2>1, <2>3, RowsAssumption DEF Claimant, Status
  <2> QED
    BY <2>2, <2>3
<1>2. ASSUME OneClaimPerSeat', NEW s \in Seats
      PROVE  /\ Claims'[s] \in Bookings \cup {None}
             /\ \A b \in Bookings : Claims'[s] = b <=> booking'[b].status \in Live /\ booking'[b].seat = s
  <2>1. Claims'[s] = Claimant(s)'
    BY DEF Claims
  <2>2. CASE \E b \in Bookings : Status(b)' \in Live /\ booking'[b].seat = s
    <3> DEFINE owner == CHOOSE b \in Bookings : Status(b)' \in Live /\ booking'[b].seat = s
    <3>1. owner \in Bookings /\ booking'[owner].status \in Live /\ booking'[owner].seat = s
      BY <2>2 DEF Status
    <3>2. Claims'[s] = owner
      BY <2>1, <2>2 DEF Claimant, Live
    <3> HIDE DEF owner
    <3> QED
      BY <1>2, <3>1, <3>2 DEF OneClaimPerSeat, Status, Live
  <2>3. CASE ~\E b \in Bookings : Status(b)' \in Live /\ booking'[b].seat = s
    BY <2>1, <2>3, RowsAssumption DEF Claimant, Status, Live
  <2> QED
    BY <2>2, <2>3
<1> QED
  BY <1>1, <1>2

\* The claims after a step, seat by seat.
LEMMA ClaimsBecome ==
  ASSUME OneClaimPerSeat', NEW f, f \in [Seats -> Bookings \cup {None}],
         \A s \in Seats, b \in Bookings : f[s] = b <=> booking'[b].status \in Live /\ booking'[b].seat = s
  PROVE  Claims' = f
<1>1. \A s \in Seats : Claims'[s] = f[s]
  BY ClaimsAre
<1>2. Claims' = [s \in Seats |-> Claims'[s]]
  BY DEF Claims
<1> QED
  BY <1>1, <1>2

\* A step in which no seat's claims and sales change is one of the world around
\* the funnel.
LEMMA ElsewhereStep ==
  ASSUME IInv, IInv', [Next]_vars,
         \A b \in Bookings, s \in Seats :
           /\ booking'[b].status \in Live /\ booking'[b].seat = s <=> booking[b].status \in Live /\ booking[b].seat = s
           /\ booking'[b].status = "paid" /\ booking'[b].seat = s <=> booking[b].status = "paid" /\ booking[b].seat = s
  PROVE  Promise!Elsewhere
<1>1. Claims' = Claims
  <2>1. Claims \in [Seats -> Bookings \cup {None}]
    BY ClaimsAre DEF IInv, Claims
  <2>2. \A s \in Seats, b \in Bookings : Claims[s] = b <=> booking'[b].status \in Live /\ booking'[b].seat = s
    BY ClaimsAre DEF IInv
  <2> QED
    BY <2>1, <2>2, ClaimsBecome DEF IInv
<1>2. SoldSeats' = SoldSeats
  BY DEF SoldSeats, Status
<1>3. Paying \subseteq Paying'
  BY TillLasts, RowsAssumption DEF Paying
<1>4. RepaidBuyers \subseteq RepaidBuyers'
  BY TillLasts, RowsAssumption DEF RepaidBuyers, Repaid
<1>5. lapsed \subseteq lapsed' /\ lapsed' \subseteq Bookings
  BY TillLasts DEF IInv, TypeOK
<1>6. Paying' \subseteq Bookings /\ RepaidBuyers' \subseteq Bookings
  BY DEF Paying, RepaidBuyers
<1>7. SweepsBeside' = SweepsBeside
  BY MixStands DEF IInv
<1> QED
  BY <1>1, <1>2, <1>3, <1>4, <1>5, <1>6, <1>7 DEF Promise!Elsewhere

\* Money and time stand still for SeatSale while invoices and payments do.
LEMMA MoneyStands ==
  ASSUME UNCHANGED <<mix, lapsed, invoice, collected, money>>
  PROVE  UNCHANGED <<lapsed, Paying, RepaidBuyers, SweepsBeside>>
BY DEF Paying, RepaidBuyers, Repaid, SweepsBeside, Alone

\* Holds that ran out are given up together: book_seat's first UPDATE and the tick,
\* which beside the requests may also find sales among its rows.
LEMMA ReleaseStep ==
  ASSUME IInv, IInv', NEW rows, rows \subseteq Bookings,
         \A b \in rows : b \in lapsed /\ (SweepsBeside \/ Status(b) = "held"),
         booking' = [b \in Bookings |-> IF b \in rows
                                        THEN [booking[b] EXCEPT !.status = "released"]
                                        ELSE booking[b]],
         UNCHANGED <<mix, lapsed, invoice, collected, money>>
  PROVE  \E S \in SUBSET Seats : Promise!Release(S)
<1> DEFINE S == {s \in Seats : \E b \in rows : booking[b].status \in Live /\ booking[b].seat = s}
           f == [s \in Seats |-> IF s \in S THEN None ELSE Claims[s]]
<1>1. \A b \in Bookings : /\ b \notin rows => booking'[b] = booking[b]
                          /\ b \in rows => /\ booking'[b].status = "released"
                                           /\ booking'[b].seat = booking[b].seat
  BY MarkedRows DEF IInv
<1>2. \A s \in Seats : /\ Claims[s] \in Bookings \cup {None}
                       /\ \A b \in Bookings : Claims[s] = b <=> booking[b].status \in Live /\ booking[b].seat = s
  BY ClaimsAre DEF IInv
<1>3. \A b \in rows : b \in lapsed /\ b \in Bookings /\ (SweepsBeside \/ booking[b].status = "held")
  BY DEF Status
<1>4. \A s \in S : \E b \in rows : Claims[s] = b
  BY <1>2, <1>3
<1>5. \A s \in Seats, b \in Bookings : f[s] = b <=> booking'[b].status \in Live /\ booking'[b].seat = s
  <2>1. ASSUME NEW s \in Seats, NEW b \in Bookings
        PROVE  f[s] = b <=> booking'[b].status \in Live /\ booking'[b].seat = s
    <3>1. CASE s \in S
      <4>1. f[s] # b
        BY <3>1, RowsAssumption
      <4>2. ~(booking'[b].status \in Live /\ booking'[b].seat = s)
        BY <1>1, <1>2, <1>4, <3>1 DEF Live
      <4> QED
        BY <4>1, <4>2
    <3>2. CASE s \notin S
      <4>1. f[s] = Claims[s]
        BY <3>2
      <4>2. CASE b \in rows
        BY <1>1, <1>2, <3>2, <4>1, <4>2 DEF Live
      <4>3. CASE b \notin rows
        BY <1>1, <1>2, <4>1, <4>3
      <4> QED
        BY <4>2, <4>3
    <3> QED
      BY <3>1, <3>2
  <2> QED
    BY <2>1
<1>6. Claims' = f
  <2>1. f \in [Seats -> Bookings \cup {None}]
    BY <1>2
  <2> HIDE DEF f
  <2> QED
    BY <1>5, <2>1, ClaimsBecome DEF IInv
<1>7. SoldSeats' = SoldSeats \ S
  <2>1. ASSUME NEW s \in Seats
        PROVE  (\E c \in Bookings : booking'[c].status = "paid" /\ booking'[c].seat = s)
                 <=> s \notin S /\ \E c \in Bookings : booking[c].status = "paid" /\ booking[c].seat = s
    <3>1. ASSUME NEW c \in Bookings, booking'[c].status = "paid", booking'[c].seat = s
          PROVE  s \notin S /\ booking[c].status = "paid" /\ booking[c].seat = s
      <4>1. c \notin rows /\ booking[c].status = "paid" /\ booking[c].seat = s
        BY <1>1, <3>1
      <4>2. Claims[s] = c
        BY <1>2, <4>1 DEF Live
      <4> QED
        BY <1>4, <4>1, <4>2
    <3>2. ASSUME s \notin S, NEW c \in Bookings, booking[c].status = "paid", booking[c].seat = s
          PROVE  booking'[c].status = "paid" /\ booking'[c].seat = s
      BY <1>1, <3>2 DEF Live
    <3> QED
      BY <3>1, <3>2
  <2> HIDE DEF S
  <2> QED
    BY <2>1 DEF SoldSeats, Status
<1>8. \A s \in S : Claims[s] \in lapsed /\ (s \in SoldSeats => SweepsBeside)
  <2>1. ASSUME NEW s \in S PROVE Claims[s] \in lapsed /\ (s \in SoldSeats => SweepsBeside)
    <3>1. PICK b \in rows : Claims[s] = b
      BY <1>4, <2>1
    <3>2. \A c \in Bookings : booking[c].status = "paid" /\ booking[c].seat = s => c = b
      BY <1>2, <3>1 DEF Live
    <3> QED
      BY <1>3, <3>1, <3>2 DEF SoldSeats, Status
  <2> QED
    BY <2>1
<1>9. Promise!Release(S)
  BY <1>6, <1>7, <1>8, MoneyStands DEF Promise!Release
<1> QED
  BY <1>9

\* A new hold is put on a seat nobody has.
LEMMA HoldStep ==
  ASSUME IInv, IInv', [Next]_vars, NEW w \in Workers, InsertBooking(w)
  PROVE  Promise!Elsewhere \/ \E s \in Seats, b \in Bookings : Promise!Hold(s, b)
<1>0. booking \in [Bookings -> BookingRows] /\ job[w].seat \in Seats
  BY DEF IInv, TypeOK, JobsOK, JobOK, InsertBooking
<1>1. CASE UNCHANGED booking
  BY <1>1, ElsewhereStep
<1>2. CASE ~UNCHANGED booking
  <2> DEFINE s == job[w].seat
  <2>1. PICK b \in Bookings :
          /\ booking[b].status = "absent"
          /\ booking' = [booking EXCEPT ![b] = [status |-> "held", seat |-> s, lead |-> job[w].lead,
                                                promo |-> job[w].promo, invoice |-> None]]
    BY <1>2 DEF InsertBooking, Status
  <2>2. ~IndexRefuses(s, Bookings) /\ UNCHANGED <<mix, lapsed, invoice, collected, money>>
    BY <1>2 DEF InsertBooking, till, world
  <2>3. /\ booking'[b].status = "held" /\ booking'[b].seat = s
        /\ \A c \in Bookings \ {b} : booking'[c] = booking[c]
    BY <1>0, <2>1
  <2>4. \A t \in Seats : /\ Claims[t] \in Bookings \cup {None}
                         /\ \A c \in Bookings : Claims[t] = c <=> booking[c].status \in Live /\ booking[c].seat = t
    BY ClaimsAre DEF IInv
  <2> HIDE DEF s
  <2>5. s \in Seats
    BY <1>0 DEF s
  <2>6. Claims[s] = None
    BY <2>2, <2>4, <2>5 DEF IndexRefuses, Status
  <2> DEFINE f == [Claims EXCEPT ![s] = b]
  <2>7. Claims \in [Seats -> Bookings \cup {None}]
    BY <2>4 DEF Claims
  <2>8. f \in [Seats -> Bookings \cup {None}] /\ \A t \in Seats : f[t] = IF t = s THEN b ELSE Claims[t]
    BY <2>7
  <2>9. Claims' = f
    <3>1. ASSUME NEW t \in Seats, NEW c \in Bookings
          PROVE  f[t] = c <=> booking'[c].status \in Live /\ booking'[c].seat = t
      <4>1. CASE c = b
        <5>1. booking[b].status \notin Live
          BY <2>1 DEF Live
        <5>2. booking'[c].status \in Live /\ (booking'[c].seat = t <=> t = s)
          BY <2>3, <4>1 DEF Live
        <5>3. Claims[t] # b
          BY <2>4, <5>1
        <5> QED
          BY <2>8, <4>1, <5>2, <5>3
      <4>2. CASE c # b
        BY <2>3, <2>4, <2>5, <2>6, <2>8, <4>2, RowsAssumption
      <4> QED
        BY <4>1, <4>2
    <3> HIDE DEF f
    <3> QED
      BY <2>8, <3>1, ClaimsBecome DEF IInv
  <2>10. SoldSeats' = SoldSeats
    BY <2>1, <2>3 DEF SoldSeats, Status
  <2>11. Promise!Hold(s, b)
    BY <2>2, <2>6, <2>9, <2>10, MoneyStands DEF Promise!Hold
  <2> QED
    BY <2>5, <2>11
<1> QED
  BY <1>1, <1>2

\* A row turns paid: its seat is sold to it, for the money that came in.
LEMMA SellStep ==
  ASSUME IInv, IInv', [Next]_vars, NEW w \in Workers, Sell(w)
  PROVE  Promise!Elsewhere \/ \E s \in Seats, b \in Bookings : Promise!Sell(s, b)
<1> DEFINE b == job[w].b
           s == booking[b].seat
<1>0. booking \in [Bookings -> BookingRows] /\ b \in Bookings /\ b \in Paying
  <2>1. booking \in [Bookings -> BookingRows] /\ JobOK(job[w]) /\ job[w].step = "sell"
    BY DEF IInv, TypeOK, JobsOK, Sell, At
  <2>2. b \in Bookings /\ job[w].i \in Invoices /\ invoice[job[w].i].by = b /\ job[w].i \in collected
    BY <2>1 DEF JobOK
  <2> QED
    BY <2>1, <2>2 DEF Paying
<1>1. CASE UNCHANGED booking
  BY <1>1, ElsewhereStep
<1>2. CASE ~UNCHANGED booking
  <2>1. /\ booking' = [booking EXCEPT ![b] = [booking[b] EXCEPT !.status = "paid"]]
        /\ booking[b].status \in Live \/ ~IndexRefuses(s, Bookings \ {b})
    BY <1>2 DEF Sell, seats, Status
  <2>2. /\ booking'[b].status = "paid" /\ booking'[b].seat = s
        /\ \A c \in Bookings \ {b} : booking'[c] = booking[c]
    BY <1>0, <2>1 DEF BookingRows
  <2>3. UNCHANGED <<mix, lapsed, invoice, collected, money>>
    BY DEF Sell, till, world
  <2>4. \A t \in Seats : /\ Claims[t] \in Bookings \cup {None}
                         /\ \A c \in Bookings : Claims[t] = c <=> booking[c].status \in Live /\ booking[c].seat = t
    BY ClaimsAre DEF IInv
  <2> HIDE DEF b, s
  <2>5. CASE s \notin Seats
    BY <1>0, <2>2, <2>5, ElsewhereStep DEF s
  <2>6. CASE s \in Seats
    <3>1. Claims[s] \in {None, b}
      <4>1. ASSUME NEW c \in Bookings, c # b, Claims[s] = c PROVE FALSE
        <5>1. booking[c].status \in Live /\ booking[c].seat = s
          BY <2>4, <2>6, <4>1
        <5>2. booking[b].status \notin Live
          BY <1>0, <4>1, <5>1 DEF IInv, OneClaimPerSeat, Status, s
        <5> QED
          BY <2>1, <4>1, <5>1, <5>2 DEF IndexRefuses, Status
      <4> QED
        BY <2>4, <2>6, <4>1
    <3> DEFINE f == [Claims EXCEPT ![s] = b]
    <3>2. Claims \in [Seats -> Bookings \cup {None}]
      BY <2>4 DEF Claims
    <3>3. f \in [Seats -> Bookings \cup {None}] /\ \A t \in Seats : f[t] = IF t = s THEN b ELSE Claims[t]
      BY <1>0, <3>2
    <3>4. Claims' = f
      <4>1. ASSUME NEW t \in Seats, NEW c \in Bookings
            PROVE  f[t] = c <=> booking'[c].status \in Live /\ booking'[c].seat = t
        <5>1. CASE c = b
          <6>1. booking'[c].status \in Live /\ (booking'[c].seat = t <=> t = s)
            BY <2>2, <5>1 DEF Live
          <6>2. Claims[t] = b => t = s
            BY <1>0, <2>4 DEF s
          <6> QED
            BY <3>3, <5>1, <6>1, <6>2
        <5>2. CASE c # b
          <6>1. t = s => Claims[t] # c
            BY <3>1, <5>2, RowsAssumption
          <6> QED
            BY <2>2, <2>4, <3>3, <5>2, <6>1
        <5> QED
          BY <5>1, <5>2
      <4> HIDE DEF f
      <4> QED
        BY <3>3, <4>1, ClaimsBecome DEF IInv
    <3>5. SoldSeats' = SoldSeats \cup {s}
      <4>1. ASSUME NEW t \in Seats
            PROVE  (\E c \in Bookings : booking'[c].status = "paid" /\ booking'[c].seat = t)
                     <=> t = s \/ \E c \in Bookings : booking[c].status = "paid" /\ booking[c].seat = t
        BY <1>0, <2>2 DEF s
      <4> QED
        BY <2>6, <4>1 DEF SoldSeats, Status
    <3>6. Promise!Sell(s, b)
      BY <1>0, <2>3, <3>1, <3>4, <3>5, MoneyStands DEF Promise!Sell
    <3> QED
      BY <1>0, <2>6, <3>6
  <2> QED
    BY <2>5, <2>6
<1> QED
  BY <1>1, <1>2

\* A refund gives back the seat of the buyer whose money has gone back.
LEMMA GiveBackStep ==
  ASSUME IInv, IInv', [Next]_vars, RefundOK, NEW w \in Workers, GiveBackSeat(w)
  PROVE  Promise!Elsewhere \/ \E s \in Seats : Promise!GiveBack(s)
<1> DEFINE rows == job[w].rows
           b == invoice[job[w].i].by
           s == booking[b].seat
<1>1. /\ booking' = [c \in Bookings |-> IF c \in rows
                                        THEN [booking[c] EXCEPT !.status = "cancelled"]
                                        ELSE booking[c]]
      /\ UNCHANGED <<mix, lapsed, invoice, collected, money>>
  BY DEF GiveBackSeat, till, world
<1>2. /\ \A c \in rows : c = b /\ b \in Bookings
      /\ job[w].i \in Invoices /\ money[job[w].i] \in {"receipt_left", "refunded"}
  BY DEF RefundOK, GiveBackSeat
<1>3. \A c \in Bookings : /\ c \notin rows => booking'[c] = booking[c]
                          /\ c \in rows => booking'[c].status = "cancelled" /\ booking'[c].seat = booking[c].seat
  BY <1>1, MarkedRows DEF IInv
<1>4. \A t \in Seats : /\ Claims[t] \in Bookings \cup {None}
                       /\ \A c \in Bookings : Claims[t] = c <=> booking[c].status \in Live /\ booking[c].seat = t
  BY ClaimsAre DEF IInv
<1>5. b \in rows => b \in RepaidBuyers
  BY <1>2 DEF RepaidBuyers, Repaid
<1> HIDE DEF rows, b, s
<1>6. CASE b \in rows /\ booking[b].status \in Live /\ s \in Seats
  <2>0. b \in Bookings /\ Claims[s] = b /\ booking[b].seat = s
    BY <1>2, <1>4, <1>6 DEF s
  <2> DEFINE f == [Claims EXCEPT ![s] = None]
  <2>1. Claims \in [Seats -> Bookings \cup {None}]
    BY <1>4 DEF Claims
  <2>2. f \in [Seats -> Bookings \cup {None}] /\ \A t \in Seats : f[t] = IF t = s THEN None ELSE Claims[t]
    BY <2>1
  <2>3. \A c \in Bookings : /\ c # b => booking'[c] = booking[c]
                            /\ c = b => booking'[c].status = "cancelled" /\ booking'[c].seat = s
    BY <1>2, <1>3, <1>6, <2>0
  <2>4. Claims' = f
    <3>1. ASSUME NEW t \in Seats, NEW c \in Bookings
          PROVE  f[t] = c <=> booking'[c].status \in Live /\ booking'[c].seat = t
      <4>1. CASE c = b
        <5>1. booking'[c].status \notin Live
          BY <2>3, <4>1 DEF Live
        <5>2. f[t] # b
          BY <1>4, <2>0, <2>2, RowsAssumption
        <5> QED
          BY <4>1, <5>1, <5>2
      <4>2. CASE c # b
        <5>1. t = s => Claims[t] # c
          BY <2>0, <4>2
        <5> QED
          BY <1>4, <2>2, <2>3, <4>2, <5>1, RowsAssumption
      <4> QED
        BY <4>1, <4>2
    <3> HIDE DEF f
    <3> QED
      BY <2>2, <3>1, ClaimsBecome DEF IInv
  <2>5. SoldSeats' = SoldSeats \ {s}
    <3>1. \A c \in Bookings \ {b} : ~(booking[c].status \in Live /\ booking[c].seat = s)
      BY <1>4, <1>6, <2>0
    <3>2. ASSUME NEW t \in Seats
          PROVE  (\E c \in Bookings : booking'[c].status = "paid" /\ booking'[c].seat = t)
                   <=> t # s /\ \E c \in Bookings : booking[c].status = "paid" /\ booking[c].seat = t
      BY <2>0, <2>3, <3>1 DEF Live
    <3> QED
      BY <3>2 DEF SoldSeats, Status
  <2>6. Promise!GiveBack(s)
    BY <1>1, <1>5, <1>6, <2>0, <2>4, <2>5, MoneyStands DEF Promise!GiveBack
  <2> QED
    BY <1>6, <2>6
<1>7. CASE ~(b \in rows /\ booking[b].status \in Live /\ s \in Seats)
  <2>1. ASSUME NEW c \in Bookings, NEW t \in Seats
        PROVE  /\ booking'[c].status \in Live /\ booking'[c].seat = t <=> booking[c].status \in Live /\ booking[c].seat = t
               /\ booking'[c].status = "paid" /\ booking'[c].seat = t <=> booking[c].status = "paid" /\ booking[c].seat = t
    <3>1. CASE c \in rows
      BY <1>2, <1>3, <1>7, <3>1 DEF Live, s
    <3>2. CASE c \notin rows
      BY <1>3, <3>2
    <3> QED
      BY <3>1, <3>2
  <2> QED
    BY <2>1, ElsewhereStep
<1> QED
  BY <1>6, <1>7

\* The invariant of sweeps and refunds; it rests on IInv.
SaleInv == IInv /\ OneAtATime /\ RefundOK /\ SweepOK /\ PaidLeadHasSale

LEMMA SaleInit == Init => SaleInv
<1> SUFFICES ASSUME Init PROVE SaleInv
  OBVIOUS
<1>1. IInv
  BY InvInit
<1>2. \A w \in Workers : job[w].step = "idle"
  BY DEF Init, Idle
<1>3. OneAtATime /\ RefundOK /\ SweepOK
  BY <1>2 DEF OneAtATime, RefundOK, SweepOK, At
<1>4. PaidLeadHasSale
  BY DEF Init, PaidLeadHasSale
<1> QED
  BY <1>1, <1>3, <1>4 DEF SaleInv

LEMMA SaleNext == SaleInv /\ [Next]_vars => SaleInv'
<1> SUFFICES ASSUME SaleInv, [Next]_vars PROVE SaleInv'
  OBVIOUS
<1>1. IInv /\ OneAtATime /\ RefundOK /\ SweepOK /\ PaidLeadHasSale
  BY DEF SaleInv
<1>2. IInv'
  BY <1>1, InvNext
<1>3. OneAtATime' /\ RefundOK' /\ SweepOK' /\ PaidLeadHasSale'
  BY <1>1, <1>2, OneAtATimeKeeps, RefundKeeps, SweepKeeps, PaidLeadKeeps
<1> QED
  BY <1>2, <1>3 DEF SaleInv

LEMMA SaleInvariance == Spec => []SaleInv
  BY SaleInit, SaleNext, PTL DEF Spec

\* A lead reads paid only as long as one of its bookings is a sale, or was one that
\* the tick released behind it, whatever order sales, lapses, sweeps and refunds
\* come in (checkout.py:179-182, 190-203, refunds.py:216-219).
THEOREM PaidLeadHasSaleAlways == Spec => []PaidLeadHasSale
<1>1. SaleInv => PaidLeadHasSale
  BY DEF SaleInv
<1> QED
  BY <1>1, SaleInvariance, PTL

\* Every step of the funnel is a step of SeatSale, or leaves it as it is.
LEMMA SaleStep == SaleInv /\ IInv' /\ [Next]_vars => [Promise!Next]_(Promise!promise)
<1> SUFFICES ASSUME SaleInv, IInv', [Next]_vars PROVE Promise!Next
  OBVIOUS
<1>0. IInv /\ RefundOK /\ SweepOK /\ booking \in [Bookings -> BookingRows]
  BY DEF SaleInv, IInv, TypeOK
<1>1. CASE UNCHANGED booking
  BY <1>0, <1>1, ElsewhereStep DEF Promise!Next
<1>2. ASSUME NEW w \in Workers, Acts(w) PROVE Promise!Next
  <2>1. CASE \E r \in Leads, code \in BOOLEAN : BeginBook(w, r, code)
    <3> DEFINE rows == {c \in Bookings : Expired(c)}
    <3>1. /\ booking' = [b \in Bookings |-> IF b \in rows
                                            THEN [booking[b] EXCEPT !.status = "released"]
                                            ELSE booking[b]]
          /\ UNCHANGED <<mix, lapsed, invoice, collected, money>>
      BY <2>1 DEF BeginBook, Retire, till, world
    <3>2. rows \subseteq Bookings /\ \A b \in rows : b \in lapsed /\ (SweepsBeside \/ Status(b) = "held")
      BY DEF Expired
    <3> HIDE DEF rows
    <3> QED
      BY <1>0, <3>1, <3>2, ReleaseStep DEF Promise!Next
  <2>2. CASE InsertBooking(w)
    BY <1>0, <2>2, HoldStep DEF Promise!Next
  <2>3. CASE LinkInvoice(w)
    <3>1. \A b \in Bookings : booking'[b].status = booking[b].status /\ booking'[b].seat = booking[b].seat
      BY <1>0, <2>3 DEF LinkInvoice, BookingRows
    <3> QED
      BY <1>0, <3>1, ElsewhereStep DEF Promise!Next
  <2>4. CASE Sell(w)
    BY <1>0, <2>4, SellStep DEF Promise!Next
  <2>5. CASE ReleaseRows(w)
    <3>1. /\ booking' = [b \in Bookings |-> IF b \in job[w].rows
                                            THEN [booking[b] EXCEPT !.status = "released"]
                                            ELSE booking[b]]
          /\ UNCHANGED <<mix, lapsed, invoice, collected, money>>
      BY <2>5 DEF ReleaseRows, till, world
    <3>2. /\ job[w].rows \subseteq Bookings
          /\ \A b \in job[w].rows : b \in lapsed /\ (SweepsBeside \/ Status(b) = "held")
      BY <1>0, <2>5 DEF SweepOK, ReleaseRows
    <3> QED
      BY <1>0, <3>1, <3>2, ReleaseStep DEF Promise!Next
  <2>6. CASE GiveBackSeat(w)
    BY <1>0, <2>6, GiveBackStep DEF Promise!Next
  <2> QED
    BY <1>1, <1>2, <2>1, <2>2, <2>3, <2>4, <2>5, <2>6, BookingWrites
<1> QED
  BY <1>1, <1>2, WhoActs

LEMMA PromiseInit == Init => Promise!Init
<1> SUFFICES ASSUME Init PROVE Promise!Init
  OBVIOUS
<1>1. \A b \in Bookings : booking[b].status = "absent"
  BY DEF Init
<1>2. \A i \in Invoices : invoice[i].by = None
  BY DEF Init
<1>3. Claims = [s \in Seats |-> None]
  BY <1>1 DEF Claims, Claimant, Status, Live
<1>4. SoldSeats = {}
  BY <1>1 DEF SoldSeats, Status
<1>5. lapsed = {} /\ Paying = {}
  BY DEF Init, Paying
<1>6. RepaidBuyers = {}
  BY <1>2, RowsAssumption DEF RepaidBuyers, Repaid
<1> QED
  BY <1>3, <1>4, <1>5, <1>6 DEF Promise!Init, SweepsBeside

\* The funnel keeps the promise of SeatSale: a hold keeps its seat until its time is
\* up, a seat is sold for money and to a buyer nobody is before, and it comes back
\* only when the money goes back or when the tick, running beside the sales, had
\* seen the hold run out (booking.py, checkout.py, refunds.py:206-219).
THEOREM KeepsPromiseAlways == Spec => KeepsPromise
<1>1. SaleInv => IInv
  BY DEF SaleInv
<1> QED
  BY <1>1, SaleInvariance, SaleStep, PromiseInit, PTL DEF Spec, KeepsPromise, Promise!Spec

-----------------------------------------------------------------------------
(* Requests served one by one: promotions and open invoices.               *)

\* One at a time, a request that is about to sell has not been overtaken.
UnsoldOK ==
  Alone => \A w \in Workers : At(w, "check") \/ At(w, "sell") => Status(job[w].b) # "paid"

LEMMA UnsoldKeeps ==
  ASSUME IInv, [Next]_vars, OneAtATime, UnsoldOK
  PROVE  UnsoldOK'
<1>0. TypeOK /\ job \in [Workers -> Jobs]
  BY DEF IInv, TypeOK
<1>1. CASE UNCHANGED <<mix, booking, lead, used, job>>
  BY <1>1 DEF UnsoldOK, Alone, At, Status
<1>2. ASSUME NEW w \in Workers, Acts(w), Alone,
             At(w, "check")' \/ At(w, "sell")'
      PROVE  Status(job[w].b)' # "paid"
  <2>0. job[w] \in Jobs
    BY <1>0
  <2>1. CASE \E b \in Bookings : BeginPoll(w, b)
    <3>1. PICK b \in Bookings : BeginPoll(w, b)
      BY <2>1
    <3> DEFINE request == [Idle EXCEPT !.b = b, !.i = booking[b].invoice, !.saw = Status(b)]
    <3>2. PICK step \in {"check", "verify"} : /\ Become(w, [request EXCEPT !.step = step])
                                              /\ step = "check" => Status(b) # "paid"
                                              /\ UNCHANGED booking
      BY <3>1 DEF BeginPoll, Start, seats
    <3>3. job'[w].b = b /\ job'[w].step = step
      BY <1>0, <3>2 DEF Become, Idle
    <3> QED
      BY <1>2, <3>2, <3>3 DEF At, Status
  <2>2. CASE Reload(w)
    <3>1. Finish(w) \/ (Become(w, [job[w] EXCEPT !.step = "check", !.saw = Status(job[w].b)])
                          /\ Status(job[w].b) # "paid")
      BY <2>2 DEF Reload
    <3>2. ~Finish(w)
      BY <1>0, <1>2, Stepped DEF At, Idle
    <3>3. job'[w].b = job[w].b
      BY <1>0, <2>0, <3>1, <3>2 DEF Become, Jobs
    <3> QED
      BY <2>2, <3>1, <3>2, <3>3 DEF Status, Reload, seats
  <2>3. CASE CheckLate(w)
    <3>1. Go(w, "sell") /\ At(w, "check") /\ UNCHANGED booking
      BY <1>0, <1>2, <2>3, Stepped DEF CheckLate, At, Idle, seats
    <3>2. job'[w].b = job[w].b
      BY <1>0, <2>0, <3>1 DEF Go, Become, Jobs
    <3> QED
      BY <1>2, <3>1, <3>2 DEF UnsoldOK, Status
  <2> QED
    BY <1>0, <1>2, <2>1, <2>2, <2>3, ArrivalSteps, ProgressSteps DEF Acts, Arrival, Progress, At
<1>3. ASSUME NEW w \in Workers, Acts(w) PROVE UnsoldOK'
  <2>1. /\ \A v \in Workers \ {w} : job'[v] = job[v]
        /\ UNCHANGED mix
        /\ At(w, "idle") => Arrival(w) \/ UNCHANGED job
        /\ Alone /\ Arrival(w) => \A v \in Workers : At(v, "idle")
    BY <1>0, <1>3, ActsOf
  <2>2. ASSUME Alone, NEW v \in Workers, v # w, At(v, "check")' \/ At(v, "sell")'
        PROVE  FALSE
    <3>1. ~At(v, "idle")
      BY <2>1, <2>2 DEF At
    <3>2. At(w, "idle") /\ ~Arrival(w)
      BY <2>1, <2>2, <3>1 DEF OneAtATime
    <3> QED
      BY <1>0, <1>3, <3>2, ProgressSteps DEF Acts, Progress, Abort, At
  <2> QED
    BY <1>2, <1>3, <2>1, <2>2 DEF UnsoldOK, Alone
<1> QED
  BY <1>1, <1>3, WhoActs

\* The promotion's counter moves only when a row turns paid.
LEMMA PromotionStep ==
  ASSUME IInv, [Next]_vars, UnsoldOK, Alone, used' # used
  PROVE  \E b \in Bookings : Status(b) # "paid" /\ booking'[b].status = "paid"
<1>0. booking \in [Bookings -> BookingRows]
  BY DEF IInv, TypeOK
<1>1. PICK w \in Workers : Acts(w)
  BY WhoActs
<1>2. Sell(w)
  <2>1. ~Arrival(w)
    BY DEF Arrival, BeginBook, BeginOpen, BeginPoll, BeginSweep, BeginRefund, seats
  <2>2. Progress(w) \/ Abort(w)
    BY <1>1, <2>1 DEF Acts
  <2> QED
    BY <2>2 DEF Progress, Abort, PickSeat, InsertBooking, RepickSeat, AskOldGateway, RetireInvoice,
       RenewInvoice, RaiseInvoice, LinkInvoice, Verify, Reload, CheckLate, ReleaseRows, FindSeat,
       GiveBackSeat, seats
<1>3. booking' = [booking EXCEPT ![job[w].b].status = "paid"] /\ At(w, "sell")
  BY <1>2 DEF Sell, seats
<1>4. job[w].b \in Bookings
  BY <1>3 DEF IInv, JobsOK, JobOK, At
<1>5. Status(job[w].b) # "paid"
  BY <1>3 DEF UnsoldOK
<1>6. booking'[job[w].b].status = "paid"
  BY <1>0, <1>3, <1>4 DEF BookingRows
<1> QED
  BY <1>4, <1>5, <1>6

\* Served one at a time, no request uses up a promotion without selling a seat
\* (checkout.py:183-186).
THEOREM PromotionCountedAtSaleAlways == Spec => PromotionCountedAtSale
<1>1. Init => IInv /\ OneAtATime /\ UnsoldOK
  <2>1. ASSUME Init PROVE OneAtATime /\ UnsoldOK
    BY <2>1 DEF Init, OneAtATime, UnsoldOK, At, Idle
  <2> QED
    BY <2>1, InvInit
<1>2. IInv /\ OneAtATime /\ UnsoldOK /\ [Next]_vars => (IInv /\ OneAtATime /\ UnsoldOK)'
  BY InvNext, OneAtATimeKeeps, UnsoldKeeps
<1>3. IInv /\ UnsoldOK /\ [Next]_vars
        => [Alone /\ used' # used => \E b \in Bookings : Status(b) # "paid" /\ booking'[b].status = "paid"]_vars
  BY PromotionStep
<1> QED
  BY <1>1, <1>2, <1>3, PTL DEF Spec, PromotionCountedAtSale

\* What a request that is about an invoice knows of its booking.
OpenJob(j) ==
  /\ j.step \in {"ask", "retire", "renew", "raise", "link"} => Status(j.b) # "absent"
  /\ j.step \in {"ask", "retire", "renew"} => booking[j.b].invoice = j.i /\ j.i \in Invoices
  /\ j.step = "renew" => invoice[j.i].status # "pending"
  /\ j.step \in {"raise", "link"} =>
       booking[j.b].invoice = None \/ invoice[booking[j.b].invoice].status # "pending"

\* An open invoice is the one its booking points at, or is just being linked - unless
\* the request that raised it died on the way.
Linked(i) ==
  /\ invoice[i].by \in Bookings
  /\ \/ booking[invoice[i].by].invoice = i
     \/ \E w \in Workers : At(w, "link") /\ job[w].i = i

OpenOK ==
  Alone => /\ \A b \in Bookings : Status(b) = "absent" => booking[b].invoice = None
           /\ \A i \in Invoices \ lost : invoice[i].status = "pending" => Linked(i)
           /\ \A w \in Workers : OpenJob(job[w])

LEMMA OpenMeansOne == IInv /\ OneAtATime /\ OpenOK => OneOpenInvoice
<1> SUFFICES ASSUME IInv, OneAtATime, OpenOK, Alone, NEW i \in Invoices \ lost, NEW k \in Invoices \ lost, i # k,
                    invoice[i].status = "pending", invoice[k].status = "pending",
                    invoice[i].by = invoice[k].by
             PROVE  FALSE
  BY DEF OneOpenInvoice
<1> DEFINE b == invoice[i].by
<1>1. b \in Bookings /\ Linked(i) /\ Linked(k) /\ invoice[k].by = b
  BY DEF OpenOK, Linked
<1>2. ASSUME NEW w \in Workers, At(w, "link"), job[w].i \in {i, k} PROVE booking[b].invoice \notin {i, k}
  <2>1. job[w].b = b
    BY <1>1, <1>2 DEF IInv, JobsOK, JobOK, At
  <2>2. booking[b].invoice = None \/ invoice[booking[b].invoice].status # "pending"
    BY <1>2, <2>1 DEF OpenOK, OpenJob, At
  <2> QED
    BY <2>2, RowsAssumption
<1>3. PICK w \in Workers : At(w, "link") /\ job[w].i \in {i, k} /\ booking[b].invoice \notin {i, k}
  BY <1>1, <1>2 DEF Linked
<1>4. PICK v \in Workers : At(v, "link") /\ job[v].i = i
  BY <1>1, <1>3 DEF Linked
<1>5. PICK u \in Workers : At(u, "link") /\ job[u].i = k
  BY <1>1, <1>3 DEF Linked
<1>6. v = u
  BY <1>4, <1>5 DEF OneAtATime, At
<1> QED
  BY <1>4, <1>5, <1>6

\* A step that opens no invoice and links none; W are the threads it moves on.
LEMMA OpenFrame ==
  ASSUME IInv, OpenOK, Alone, UNCHANGED <<mix, lost>>,
         NEW W \in SUBSET Workers,
         \A w \in W : ~At(w, "link") /\ OpenJob(job[w])',
         \A v \in Workers \ W : job'[v] = job[v],
         \A b \in Bookings : /\ booking'[b].invoice = booking[b].invoice
                             /\ booking'[b].status = "absent" => booking[b].status = "absent",
         \A i \in Invoices : /\ invoice'[i].by = invoice[i].by
                             /\ invoice'[i].status = "pending" => invoice[i].status = "pending"
  PROVE  OpenOK'
<1>0. booking \in [Bookings -> BookingRows]
  BY DEF IInv, TypeOK
<1>1. \A b \in Bookings : booking[b].invoice \in Invoices \cup {None}
  BY <1>0 DEF BookingRows
<1>2. \A b \in Bookings : Status(b)' = "absent" => booking'[b].invoice = None
  BY DEF OpenOK, Status
<1>3. ASSUME NEW i \in Invoices \ lost', invoice'[i].status = "pending" PROVE Linked(i)'
  <2>1. Linked(i)
    BY <1>3 DEF OpenOK
  <2>2. \A v \in Workers : At(v, "link") => At(v, "link")' /\ job'[v].i = job[v].i
    BY DEF At
  <2> QED
    BY <2>1, <2>2 DEF Linked
<1>4. ASSUME NEW v \in Workers \ W PROVE OpenJob(job[v])'
  <2>1. OpenJob(job[v]) /\ job'[v] = job[v]
    BY <1>4 DEF OpenOK
  <2>2. job[v].step \in {"ask", "retire", "renew", "raise", "link"} => job[v].b \in Bookings
    BY DEF IInv, JobsOK, JobOK
  <2> QED
    BY <1>1, <2>1, <2>2 DEF OpenJob, Status
<1>5. \A v \in Workers : OpenJob(job[v])'
  BY <1>4
<1> QED
  BY <1>2, <1>3, <1>5 DEF OpenOK, Alone

\* The world around opens nothing: a callback closes an invoice.
LEMMA OpenWorld ==
  ASSUME IInv, OpenOK, Alone, World
  PROVE  OpenOK'
<1>0. invoice \in [Invoices -> InvoiceRows]
  BY DEF IInv, TypeOK
<1>1. UNCHANGED <<mix, booking, job, lost>>
  BY DEF World, Lapse, BuyerPays, Callback, seats, world
<1>2. \A i \in Invoices : /\ invoice'[i].by = invoice[i].by
                          /\ invoice'[i].status = "pending" => invoice[i].status = "pending"
  <2>1. UNCHANGED invoice \/ \E i \in Invoices : Settled(i)
    BY DEF World, Lapse, BuyerPays, Callback
  <2>2. UNCHANGED invoice \/ \E i \in Invoices : invoice' = [invoice EXCEPT ![i].status = "paid"]
    BY <2>1 DEF Settled
  <2> QED
    BY <1>0, <2>2 DEF InvoiceRows
<1>3. /\ {} \in SUBSET Workers
      /\ \A v \in {} : ~At(v, "link") /\ OpenJob(job[v])'
      /\ \A v \in Workers \ {} : job'[v] = job[v]
  BY <1>1
<1> QED
  BY <1>1, <1>2, <1>3, OpenFrame

\* A request arrives; one about an invoice has just read its booking.
LEMMA OpenArrival ==
  ASSUME IInv, OpenOK, Alone, NEW w \in Workers, Arrival(w)
  PROVE  OpenOK'
<1>0. /\ job \in [Workers -> Jobs] /\ booking \in [Bookings -> BookingRows]
      /\ \A b \in Bookings : booking[b].invoice \in Invoices \cup {None}
  BY DEF IInv, TypeOK, BookingRows
<1>1. /\ UNCHANGED <<mix, invoice, lost>> /\ At(w, "idle")
      /\ \A v \in Workers \ {w} : job'[v] = job[v]
  <2>1. UNCHANGED <<mix, invoice, lost>> /\ At(w, "idle") /\ \E j : Become(w, j)
    BY DEF Arrival, BeginBook, BeginOpen, BeginPoll, BeginSweep, BeginRefund, Start, till, world
  <2> QED
    BY <1>0, <2>1, Stepped DEF IInv
<1>2. \A b \in Bookings : /\ booking'[b].invoice = booking[b].invoice
                          /\ booking'[b].status = "absent" => booking[b].status = "absent"
  <2>1. CASE UNCHANGED booking
    BY <2>1
  <2>2. CASE ~UNCHANGED booking
    <3>1. \E r \in Leads, code \in BOOLEAN : BeginBook(w, r, code)
      BY <2>2 DEF Arrival, BeginOpen, BeginPoll, BeginSweep, BeginRefund, seats
    <3>2. booking' = [b \in Bookings |-> IF b \in {c \in Bookings : Expired(c)}
                                         THEN [booking[b] EXCEPT !.status = "released"]
                                         ELSE booking[b]]
      BY <3>1 DEF BeginBook, Retire
    <3> QED
      BY <3>2, MarkedRows DEF IInv
  <2> QED
    BY <2>1, <2>2
<1>3. OpenJob(job[w])'
  <2>1. CASE \E b \in Bookings, p \in Providers : BeginOpen(w, b, p)
    <3>1. PICK b \in Bookings, p \in Providers : BeginOpen(w, b, p)
      BY <2>1
    <3> DEFINE i == booking[b].invoice
               request == [Idle EXCEPT !.b = b, !.i = i, !.provider = p]
    <3>2. PICK step \in {"raise", "ask"} :
            /\ Become(w, [request EXCEPT !.step = step]) /\ Status(b) # "absent" /\ UNCHANGED booking
            /\ step = "raise" => Standing(i) \in {"none", "cancelled"}
            /\ step = "ask" => Standing(i) = "pending"
      BY <3>1 DEF BeginOpen, Start, seats
    <3>3. job'[w].step = step /\ job'[w].b = b /\ job'[w].i = i
      BY <1>0, <3>2 DEF Become, Idle
    <3>4. /\ step = "raise" => i = None \/ invoice[i].status # "pending"
          /\ step = "ask" => i \in Invoices
      BY <1>0, <3>2 DEF Standing
    <3> QED
      BY <1>1, <3>2, <3>3, <3>4 DEF OpenJob, Status
  <2>2. CASE ~\E b \in Bookings, p \in Providers : BeginOpen(w, b, p)
    <3>1. job'[w].step \in {"pick", "check", "verify", "sweep", "seat"}
      BY <2>2, ArrivalSteps DEF IInv, Arrival, At
    <3> QED
      BY <3>1 DEF OpenJob
  <2> QED
    BY <2>1, <2>2
<1>4. \A u \in {w} : ~At(u, "link") /\ OpenJob(job[u])'
  BY <1>1, <1>3 DEF At
<1>5. {w} \in SUBSET Workers
  OBVIOUS
<1> QED
  BY <1>1, <1>2, <1>4, <1>5, OpenFrame

\* Steps of requests that are about seats, sales and refunds.
LEMMA OpenElsewhere ==
  ASSUME IInv, OpenOK, Alone, NEW w \in Workers,
         \/ PickSeat(w) \/ InsertBooking(w) \/ RepickSeat(w) \/ Verify(w) \/ Reload(w) \/ CheckLate(w)
         \/ Sell(w) \/ ReleaseRows(w) \/ FindSeat(w) \/ GiveBackSeat(w)
  PROVE  OpenOK'
<1>0. /\ TypeOK /\ invoice \in [Invoices -> InvoiceRows]
      /\ booking \in [Bookings -> BookingRows] /\ job[w] \in Jobs
  BY DEF IInv, TypeOK
<1>1. Acts(w)
  BY DEF Acts, Progress
<1>2. UNCHANGED <<mix, lost>> /\ \A v \in Workers \ {w} : job'[v] = job[v]
  BY <1>0, <1>1, ActsOf DEF PickSeat, InsertBooking, RepickSeat, Verify, Reload, CheckLate, Sell,
     ReleaseRows, FindSeat, GiveBackSeat, world
<1>3. /\ ~At(w, "link")
      /\ job'[w].step \in {"idle", "insert", "reinsert", "repick", "reload", "check", "sell", "cancel"}
  BY <1>0, ProgressSteps DEF At
<1>4. OpenJob(job[w])'
  BY <1>3 DEF OpenJob
<1>5. \A i \in Invoices : /\ invoice'[i].by = invoice[i].by
                          /\ invoice'[i].status = "pending" => invoice[i].status = "pending"
  <2>1. UNCHANGED invoice \/ invoice' = [invoice EXCEPT ![job[w].i].status = "paid"]
    BY DEF PickSeat, InsertBooking, RepickSeat, Verify, Reload, CheckLate, Sell, ReleaseRows, FindSeat,
       GiveBackSeat, till, Settled
  <2> QED
    BY <1>0, <2>1 DEF InvoiceRows
<1>6. \A b \in Bookings : /\ booking'[b].invoice = booking[b].invoice
                          /\ booking'[b].status = "absent" => booking[b].status = "absent"
  <2>1. CASE UNCHANGED booking
    BY <2>1
  <2>2. CASE InsertBooking(w) /\ ~UNCHANGED booking
    <3>1. PICK b \in Bookings :
            /\ Status(b) = "absent"
            /\ booking' = [booking EXCEPT ![b] = [status |-> "held", seat |-> job[w].seat, lead |-> job[w].lead,
                                                  promo |-> job[w].promo, invoice |-> None]]
      BY <2>2 DEF InsertBooking
    <3>2. booking[b].invoice = None
      BY <3>1 DEF OpenOK
    <3> QED
      BY <1>0, <3>1, <3>2
  <2>3. CASE Sell(w)
    <3>1. UNCHANGED booking \/ booking' = [booking EXCEPT ![job[w].b].status = "paid"]
      BY <2>3 DEF Sell, seats
    <3> QED
      BY <1>0, <3>1 DEF BookingRows
  <2>4. CASE ReleaseRows(w) \/ GiveBackSeat(w)
    <3>1. PICK status \in {"released", "cancelled"} :
            booking' = [b \in Bookings |-> IF b \in job[w].rows
                                           THEN [booking[b] EXCEPT !.status = status]
                                           ELSE booking[b]]
      BY <2>4 DEF ReleaseRows, GiveBackSeat
    <3> QED
      BY <1>0, <3>1, MarkedRows
  <2> QED
    BY <2>1, <2>2, <2>3, <2>4 DEF PickSeat, RepickSeat, Verify, Reload, CheckLate, FindSeat, seats
<1>7. {w} \in SUBSET Workers /\ \A u \in {w} : ~At(u, "link") /\ OpenJob(job[u])'
  BY <1>3, <1>4
<1> QED
  BY <1>2, <1>5, <1>6, <1>7, OpenFrame

\* The old invoice is settled or retired before a new one is raised.
LEMMA OpenRenewing ==
  ASSUME IInv, OpenOK, Alone, NEW w \in Workers,
         AskOldGateway(w) \/ RetireInvoice(w) \/ RenewInvoice(w)
  PROVE  OpenOK'
<1>0. /\ TypeOK /\ invoice \in [Invoices -> InvoiceRows]
      /\ job \in [Workers -> Jobs] /\ job[w] \in Jobs
  BY DEF IInv, TypeOK
<1>1. Acts(w)
  BY DEF Acts, Progress
<1>2. /\ UNCHANGED <<mix, booking, lost>> /\ \A v \in Workers \ {w} : job'[v] = job[v]
  BY <1>0, <1>1, ActsOf DEF AskOldGateway, RetireInvoice, RenewInvoice, seats, world
<1>3. job[w].step \in {"ask", "retire", "renew"}
  BY DEF AskOldGateway, RetireInvoice, RenewInvoice, At
<1>4. /\ Status(job[w].b) # "absent" /\ booking[job[w].b].invoice = job[w].i /\ job[w].i \in Invoices
      /\ job[w].step = "renew" => invoice[job[w].i].status # "pending"
  BY <1>3 DEF OpenOK, OpenJob
<1>5. ASSUME NEW status \in {"paid", "cancelled"}, invoice' = [invoice EXCEPT ![job[w].i].status = status]
      PROVE  /\ \A i \in Invoices : /\ invoice'[i].by = invoice[i].by
                                    /\ invoice'[i].status = "pending" => invoice[i].status = "pending"
             /\ invoice'[job[w].i].status # "pending"
  BY <1>0, <1>4, <1>5 DEF InvoiceRows
<1>6. \/ UNCHANGED invoice
      \/ \E status \in {"paid", "cancelled"} : invoice' = [invoice EXCEPT ![job[w].i].status = status]
  BY DEF AskOldGateway, RetireInvoice, RenewInvoice, till, Settled
<1>7. \A i \in Invoices : /\ invoice'[i].by = invoice[i].by
                          /\ invoice'[i].status = "pending" => invoice[i].status = "pending"
  BY <1>5, <1>6
<1>8. \A step : Go(w, step) => job'[w].step = step /\ job'[w].b = job[w].b /\ job'[w].i = job[w].i
  BY <1>0 DEF Go, Become, Jobs
<1>9. Finish(w) => job'[w].step = "idle"
  BY <1>0 DEF Finish, Become, Idle
<1>10. OpenJob(job[w])'
  <2>1. CASE AskOldGateway(w)
    <3>1. CASE Go(w, "retire")
      BY <1>2, <1>4, <1>8, <3>1 DEF OpenJob, Status
    <3>2. CASE Go(w, "renew") /\ Settled(job[w].i)
      <4>1. invoice'[job[w].i].status # "pending"
        BY <1>5, <3>2 DEF Settled
      <4> QED
        BY <1>2, <1>4, <1>8, <3>2, <4>1 DEF OpenJob, Status
    <3> QED
      BY <2>1, <3>1, <3>2 DEF AskOldGateway
  <2>2. CASE RetireInvoice(w)
    <3>1. invoice'[job[w].i].status # "pending" /\ Go(w, "renew")
      BY <1>5, <2>2 DEF RetireInvoice
    <3> QED
      BY <1>2, <1>4, <1>8, <3>1 DEF OpenJob, Status
  <2>3. CASE RenewInvoice(w)
    <3>1. CASE Finish(w)
      BY <1>9, <3>1 DEF OpenJob
    <3>2. CASE Go(w, "raise")
      <4>1. job[w].step = "renew" /\ UNCHANGED invoice
        BY <2>3 DEF RenewInvoice, At, till
      <4> QED
        BY <1>2, <1>4, <1>8, <3>2, <4>1 DEF OpenJob, Status
    <3> QED
      BY <2>3, <3>1, <3>2 DEF RenewInvoice
  <2> QED
    BY <2>1, <2>2, <2>3
<1>11. {w} \in SUBSET Workers /\ \A u \in {w} : ~At(u, "link") /\ OpenJob(job[u])'
  BY <1>3, <1>10 DEF At
<1> QED
  BY <1>2, <1>7, <1>11, OpenFrame

\* A new invoice is open while its request is about to link it ...
LEMMA OpenRaising ==
  ASSUME IInv, OneAtATime, OpenOK, Alone, NEW w \in Workers, RaiseInvoice(w)
  PROVE  OpenOK'
<1>0. /\ invoice \in [Invoices -> InvoiceRows] /\ booking \in [Bookings -> BookingRows]
      /\ job \in [Workers -> Jobs] /\ job[w] \in Jobs /\ LinksOK
      /\ \A b \in Bookings : booking[b].invoice \in Invoices \cup {None}
  BY DEF IInv, TypeOK, BookingRows
<1>1. UNCHANGED <<mix, booking, lost>> /\ job[w].step = "raise"
  BY DEF RaiseInvoice, seats, world, At
<1>2. job[w].b \in Bookings
  BY <1>1 DEF IInv, JobsOK, JobOK
<1>3. PICK i \in Invoices :
        /\ invoice[i].status = "absent"
        /\ invoice' = [invoice EXCEPT ![i] =
             [status |-> "pending", provider |-> job[w].provider, by |-> job[w].b]]
        /\ Become(w, [job[w] EXCEPT !.step = "link", !.i = i])
  BY DEF RaiseInvoice
<1>4. /\ job'[w].step = "link" /\ job'[w].i = i /\ job'[w].b = job[w].b
      /\ \A v \in Workers \ {w} : job'[v] = job[v]
  BY <1>0, <1>3 DEF Become, Jobs
<1>5. invoice'[i].by = job[w].b /\ \A k \in Invoices \ {i} : invoice'[k] = invoice[k]
  BY <1>0, <1>3
<1>6. \A b \in Bookings : booking[b].invoice # i
  BY <1>0, <1>3, RowsAssumption DEF LinksOK
<1>7. \A v \in Workers \ {w} : job[v].step = "idle"
  BY <1>1 DEF OneAtATime, At
<1>8. ASSUME NEW k \in Invoices \ lost', invoice'[k].status = "pending" PROVE Linked(k)'
  <2>1. CASE k = i
    BY <1>2, <1>4, <1>5, <2>1 DEF Linked, At
  <2>2. CASE k # i
    <3>1. Linked(k) /\ invoice'[k] = invoice[k]
      BY <1>1, <1>5, <1>8, <2>2 DEF OpenOK
    <3>2. ~\E v \in Workers : At(v, "link")
      BY <1>1, <1>7 DEF At
    <3> QED
      BY <1>1, <3>1, <3>2 DEF Linked
  <2> QED
    BY <2>1, <2>2
<1>9. OpenJob(job[w])'
  <2>1. /\ Status(job[w].b) # "absent"
        /\ booking[job[w].b].invoice = None \/ invoice[booking[job[w].b].invoice].status # "pending"
    BY <1>1 DEF OpenOK, OpenJob
  <2>2. booking[job[w].b].invoice = None \/ invoice'[booking[job[w].b].invoice].status # "pending"
    BY <1>0, <1>2, <1>5, <1>6, <2>1
  <2> QED
    BY <1>1, <1>4, <2>1, <2>2 DEF OpenJob, Status
<1>10. \A v \in Workers \ {w} : OpenJob(job[v])'
  BY <1>4, <1>7 DEF OpenJob
<1>11. \A b \in Bookings : Status(b)' = "absent" => booking'[b].invoice = None
  BY <1>1 DEF OpenOK, Status
<1> QED
  BY <1>8, <1>9, <1>10, <1>11 DEF OpenOK

\* ... and then the one of its booking, whose old one is open no more.
LEMMA OpenLinking ==
  ASSUME IInv, OneAtATime, OpenOK, Alone, NEW w \in Workers, LinkInvoice(w)
  PROVE  OpenOK'
<1> DEFINE b == job[w].b
           i == job[w].i
<1>0. booking \in [Bookings -> BookingRows] /\ job \in [Workers -> Jobs]
  BY DEF IInv, TypeOK
<1>1. UNCHANGED <<mix, invoice, lost>> /\ job[w].step = "link"
  BY DEF LinkInvoice, till, world, At
<1>2. b \in Bookings /\ i \in Invoices /\ invoice[i].by = b
  BY <1>1 DEF IInv, JobsOK, JobOK
<1>3. booking' = [booking EXCEPT ![b].invoice = i] /\ job' = [job EXCEPT ![w] = Idle]
  BY DEF LinkInvoice, Finish, Become
<1>4. /\ booking'[b].invoice = i /\ booking'[b].status = booking[b].status
      /\ \A c \in Bookings \ {b} : booking'[c] = booking[c]
  BY <1>0, <1>2, <1>3 DEF BookingRows
<1>5. \A v \in Workers : job'[v].step = "idle"
  BY <1>0, <1>1, <1>3 DEF OneAtATime, At, Idle
<1>6. /\ Status(b) # "absent"
      /\ booking[b].invoice = None \/ invoice[booking[b].invoice].status # "pending"
  BY <1>1 DEF OpenOK, OpenJob
<1> HIDE DEF b, i
<1>7. ASSUME NEW k \in Invoices \ lost', invoice'[k].status = "pending" PROVE Linked(k)'
  <2>1. Linked(k) /\ invoice[k].status = "pending"
    BY <1>1, <1>7 DEF OpenOK
  <2>2. ASSUME NEW v \in Workers, At(v, "link") PROVE v = w
    BY <1>1, <2>2 DEF OneAtATime, At
  <2>3. k = i \/ booking[invoice[k].by].invoice = k
    BY <2>1, <2>2 DEF Linked, i
  <2>4. booking[b].invoice # k
    BY <1>6, <2>1, RowsAssumption
  <2>5. booking'[invoice[k].by].invoice = k /\ invoice[k].by \in Bookings
    BY <1>2, <1>4, <2>1, <2>3, <2>4 DEF Linked
  <2> QED
    BY <1>1, <2>5 DEF Linked
<1>8. \A v \in Workers : OpenJob(job[v])'
  BY <1>5 DEF OpenJob
<1>9. \A c \in Bookings : Status(c)' = "absent" => booking'[c].invoice = None
  BY <1>4, <1>6 DEF OpenOK, Status
<1> QED
  BY <1>7, <1>8, <1>9 DEF OpenOK

\* A request that dies about to link loses the invoice it raised.
LEMMA OpenAborting ==
  ASSUME IInv, OpenOK, Alone, NEW w \in Workers, Abort(w)
  PROVE  OpenOK'
<1>0. job \in [Workers -> Jobs]
  BY DEF IInv, TypeOK
<1>1. /\ UNCHANGED <<mix, booking, invoice>>
      /\ lost' = lost \cup (IF At(w, "link") THEN {job[w].i} ELSE {})
      /\ job' = [job EXCEPT ![w] = Idle]
  BY DEF Abort, Finish, Become, seats, till
<1>2. job'[w].step = "idle" /\ \A v \in Workers \ {w} : job'[v] = job[v]
  BY <1>0, <1>1 DEF Idle
<1>3. ASSUME NEW i \in Invoices \ lost', invoice'[i].status = "pending" PROVE Linked(i)'
  <2>1. Linked(i)
    BY <1>1, <1>3 DEF OpenOK
  <2>2. ASSUME NEW v \in Workers, At(v, "link"), job[v].i = i PROVE v # w
    BY <1>1, <1>3, <2>2
  <2> QED
    BY <1>1, <1>2, <2>1, <2>2 DEF Linked, At
<1>4. \A v \in Workers : OpenJob(job[v])'
  <2>1. OpenJob(job[w])'
    BY <1>2 DEF OpenJob
  <2>2. \A v \in Workers \ {w} : OpenJob(job[v])'
    BY <1>1, <1>2 DEF OpenOK, OpenJob, Status
  <2> QED
    BY <2>1, <2>2
<1>5. \A b \in Bookings : Status(b)' = "absent" => booking'[b].invoice = None
  BY <1>1 DEF OpenOK, Status
<1> QED
  BY <1>3, <1>4, <1>5 DEF OpenOK

LEMMA OpenKeeps ==
  ASSUME IInv, [Next]_vars, OneAtATime, OpenOK
  PROVE  OpenOK'
<1>1. CASE ~Alone
  <2>1. UNCHANGED mix
    BY MixStands DEF IInv
  <2> QED
    BY <1>1, <2>1 DEF OpenOK, Alone
<1>2. CASE Alone
  <2>1. CASE World
    BY <1>2, <2>1, OpenWorld
  <2>2. ASSUME NEW w \in Workers, Arrival(w) PROVE OpenOK'
    BY <1>2, <2>2, OpenArrival
  <2>3. ASSUME NEW w \in Workers, Progress(w) PROVE OpenOK'
    BY <1>2, <2>3, OpenElsewhere, OpenRenewing, OpenRaising, OpenLinking DEF Progress
  <2>4. ASSUME NEW w \in Workers, Abort(w) PROVE OpenOK'
    BY <1>2, <2>4, OpenAborting
  <2>5. CASE UNCHANGED vars
    BY <2>5 DEF vars, OpenOK, Alone, OpenJob, Linked, At, Status
  <2> QED
    BY <2>1, <2>2, <2>3, <2>4, <2>5 DEF Next
<1> QED
  BY <1>1, <1>2

\* A checkout that is served one request at a time never has two invoices open, but
\* for those whose request died between its two commits: the buyer can only pay the
\* one the booking points at (checkout.py:40-42, 116-118, 137-145).
THEOREM OneOpenInvoiceAlways == Spec => []OneOpenInvoice
<1>1. Init => IInv /\ OneAtATime /\ OpenOK
  <2>1. ASSUME Init PROVE OneAtATime /\ OpenOK
    BY <2>1 DEF Init, OneAtATime, OpenOK, OpenJob, Status, At, Idle
  <2> QED
    BY <2>1, InvInit
<1>2. IInv /\ OneAtATime /\ OpenOK /\ [Next]_vars => (IInv /\ OneAtATime /\ OpenOK)'
  BY InvNext, OneAtATimeKeeps, OpenKeeps
<1>3. IInv /\ OneAtATime /\ OpenOK => OneOpenInvoice
  BY OpenMeansOne
<1> QED
  BY <1>1, <1>2, <1>3, PTL DEF Spec
=============================================================================
