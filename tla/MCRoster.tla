------------------------------- MODULE MCRoster -------------------------------
(* Roster on a small instance: one behaviour enrols and signs, another sets  *)
(* the timetable.                                                            *)
EXTENDS Roster, TLC

Enrolling == {"enroll", "place", "cancel", "delete", "crash"}
Signing == {"enroll", "cancel", "pay", "list", "sign", "reset", "fail", "crash"}
RosterMixes == {Enrolling \cup {"reprice"}, Enrolling \cup {"list", "alone"},
                Signing, Signing \cup {"alone", "delete", "reprice"},
                {"enroll", "place", "cancel", "resize", "crash", "alone"},
                {"cohort", "delete", "alone"}}
RosterSymmetry == Permutations(Workers) \cup Permutations(Students)
=============================================================================
