------------------------------ MODULE MCHomework ------------------------------
(* Homework on a small instance: one behaviour hands in, another edits the   *)
(* files of the course.                                                      *)
EXTENDS Homework, TLC

HandingIn == {"upload", "submit", "review", "cleanup", "delete"}
Editing == {"material", "remove", "lesson", "fail", "crash"}
HomeworkMixes ==
  {HandingIn,
   {"submit", "review", "close", "leave", "create"},
   HandingIn \cup {"fail", "alone"},
   {"upload", "submit", "cleanup", "fail", "crash"},
   Editing,
   {"template", "clear", "fail", "alone"}}
HomeworkSymmetry == Permutations(Workers) \cup Permutations(Students)
=============================================================================
