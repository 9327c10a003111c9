---------------------------- MODULE MCSettlement ----------------------------
(***************************************************************************)
(* Instances of Settlement small enough for TLC: overlapping requests over *)
(* gateway payments, over second payments, over answers that name no       *)
(* amount, over bank transfers and plan edits, and every operation by      *)
(* itself.                                                                 *)
(***************************************************************************)
EXTENDS Settlement, TLC

PayingMix == {"settle", "create", "refund"}
AgainMix == {"settle", "checkout", "again"}
SilentMix == {"settle", "create", "silent"}
BankMix == {"golomt", "settle", "create", "plan", "delete", "view"}
SharedLineMix == {"golomt", "idless", "settle", "checkout", "view"}
PlanMix == {"settle", "create", "plan", "waive", "delete"}
AloneMix == AllOps \ Worlds
SettleMixes ==
  {PayingMix, AgainMix, SilentMix, BankMix, SharedLineMix, PlanMix, AloneMix}
LiveMixes == {{"settle", "checkout", "create", "waive", "delete", "switch"}}

\* Threads are interchangeable, and so are invoices, all of one gateway, and the
\* lines of a statement.
RowSymmetry == Permutations(Workers) \cup Permutations(Invoices) \cup Permutations(Credits)
=============================================================================
