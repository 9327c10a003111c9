---------------------------- MODULE MCSeatBooking ----------------------------
(***************************************************************************)
(* Instances of SeatBooking small enough for TLC: in one behaviour two     *)
(* requests overlap, in the other every operation is served by itself.     *)
(***************************************************************************)
EXTENDS SeatBooking, TLC

Selling == {"book", "open", "poll", "callback", "refund", "qpay"}
Polled == Selling \ {"callback"}
SellMixes == {Selling \cup {"sweep", "abort"},
              Selling \cup {"storepay", "alone"},
              Polled \cup {"sweep", "code", "storepay", "abort", "alone"}}
LiveMixes == {{"book", "open", "poll", "callback", "qpay"}}
RefundMixes == {{"book", "open", "poll", "refund", "qpay"}}

\* Threads, rows and leads are interchangeable.
RowSymmetry ==
  Permutations(Workers) \cup Permutations(Bookings)
    \cup Permutations(Invoices) \cup Permutations(Leads)
=============================================================================
