------------------------------ MODULE MCAccounts ------------------------------
(* Accounts on a small instance: some behaviours overlap sessions, others    *)
(* codes, others the work of staff; the rest takes one request at a time.    *)
EXTENDS Accounts, TLC

Sessions == {"login", "refresh", "logout", "logout_all", "change"}
Forgotten == {"forgot", "guess", "time"}
Staff == {"rename", "activate", "delete", "staff_reset"}
AccountsMixes ==
  {Sessions \cup {"crash"},
   {"login", "refresh", "activate", "delete", "staff_reset"},
   Forgotten \cup {"crash"},
   {"login", "change", "forgot", "guess", "delete"},
   {"create", "rename", "delete"},
   {"create", "login", "refresh", "activate", "alone"},
   Sessions \cup {"time", "staff_reset", "activate", "alone"},
   {"login", "refresh", "activate", "delete"} \cup Forgotten \cup {"alone"}}
AccountsSymmetry == Permutations(Workers) \cup Permutations(Emails)
=============================================================================
