------------------------------- MODULE SeatSale -------------------------------
(***************************************************************************)
(* What the public funnel promises about the seats of one cohort: a seat   *)
(* has at most one buyer, a hold keeps it until its time is up, it is sold *)
(* only for money, and a sold seat comes back only when money goes back -  *)
(* or, where the tick runs beside the sales, when the buyer paid late and  *)
(* the tick had seen the hold run out.                                     *)
(***************************************************************************)
CONSTANTS Seats, Buyers, None

VARIABLES
  claim,     \* who holds or owns each seat
  sold,      \* the seats that are sold
  overdue,   \* buyers whose hold has run out
  paying,    \* buyers whose money has arrived
  repaid,    \* buyers whose money has gone back
  beside     \* whether the tick runs beside the sales

promise == <<claim, sold, overdue, paying, repaid, beside>>

Init ==
  /\ claim = [s \in Seats |-> None]
  /\ sold = {} /\ overdue = {} /\ paying = {} /\ repaid = {}
  /\ beside \in BOOLEAN

Hold(s, b) ==
  /\ claim[s] = None
  /\ claim' = [claim EXCEPT ![s] = b]
  /\ UNCHANGED <<sold, overdue, paying, repaid, beside>>

\* A hold that ran out may still be paid for while nobody else has the seat.
Sell(s, b) ==
  /\ claim[s] \in {None, b}
  /\ b \in paying
  /\ claim' = [claim EXCEPT ![s] = b]
  /\ sold' = sold \cup {s}
  /\ UNCHANGED <<overdue, paying, repaid, beside>>

\* Holds whose time is up are given up, any number of them at once.
Release(S) ==
  /\ \A s \in S : claim[s] \in overdue /\ (s \in sold => beside)
  /\ claim' = [s \in Seats |-> IF s \in S THEN None ELSE claim[s]]
  /\ sold' = sold \ S
  /\ UNCHANGED <<overdue, paying, repaid, beside>>

GiveBack(s) ==
  /\ claim[s] \in repaid
  /\ claim' = [claim EXCEPT ![s] = None]
  /\ sold' = sold \ {s}
  /\ UNCHANGED <<overdue, paying, repaid, beside>>

\* Time passes, and money comes in or goes out.
Elsewhere ==
  /\ overdue \subseteq overdue' /\ paying \subseteq paying' /\ repaid \subseteq repaid'
  /\ overdue' \cup paying' \cup repaid' \subseteq Buyers
  /\ UNCHANGED <<claim, sold, beside>>

Next ==
  \/ \E s \in Seats, b \in Buyers : Hold(s, b) \/ Sell(s, b)
  \/ \E S \in SUBSET Seats : Release(S)
  \/ \E s \in Seats : GiveBack(s)
  \/ Elsewhere

Spec == Init /\ [][Next]_promise
=============================================================================
