----------------------------- MODULE MCClasswork -----------------------------
(* Classwork on a small instance: one behaviour studies, another sits a     *)
(* quiz, another is certified.                                              *)
EXTENDS Classwork, TLC

CONSTANTS s1, s2
Weights == <<1, 3>>
Dated == {<<0, 1>>, <<1, None>>}
Undated == {<<None, None>>}
Mix(ops, students, classes, days) ==
  [ops |-> ops, students |-> students, classes |-> classes, days |-> days, limits |-> {1}, marks |-> {70}]
Edited(m, limits, marks) == [m EXCEPT !.limits = limits, !.marks = marks]
Studying == {"qr", "scan", "mark", "note"}
Sitting == {"ready", "start", "answer", "finish", "replace", "drop"}
Certifying == {"complete", "issue", "force", "render", "fail"}
ClassworkMixes ==
  {Mix(Studying, {s1}, Dated, 1),
   Mix({"qr", "scan", "mark", "complete", "leave"}, {s1}, {<<0, 0>>}, 0),
   Mix(Studying \cup {"complete", "leave", "crash", "alone"}, {s1}, Dated, 1),
   Mix(Sitting, {s1}, Undated, 0),
   Edited(Mix({"quiz", "start", "finish", "replace", "drop", "alone"}, {s1}, Undated, 0), {0, 1}, {70}),
   Edited(Mix({"ready", "quiz", "start", "finish"}, {s1}, Undated, 0), {1}, {0, 70}),
   Edited(Mix({"ready", "quiz", "start", "answer", "finish", "alone"}, {s1}, Undated, 0), {1}, {70, 100}),
   Mix(Certifying, {s1, s2}, Undated, 0),
   Mix({"ready", "complete", "pay", "issue", "replace", "start", "answer", "finish", "leave", "alone"}, {s1}, {<<None, 1>>}, 1)}
ClassworkSymmetry == Permutations(Workers)
=============================================================================
