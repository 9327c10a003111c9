----------------------------- MODULE MCReceipts -----------------------------
(***************************************************************************)
(* Instances of Receipts small enough for TLC: two mixes overlap their     *)
(* requests, two serve them one at a time and may lose any half way.       *)
(***************************************************************************)
EXTENDS Receipts, TLC

Refunding == {"issue", "refund", "return", "fail"}
ReceiptsMixes == {Refunding \cup {"reissue", "old_number"}, Refunding \cup {"keep", "old_number"},
                  Refunding \cup {"keep", "old_number", "crash", "alone"},
                  {"issue", "refund", "reissue", "old_number", "crash", "alone"}}
ReplayMixes == {{"issue", "refund", "reissue", "alone"}}

\* Threads are interchangeable; rows and receipts are numbered.
ThreadSymmetry == Permutations(Workers)
=============================================================================
