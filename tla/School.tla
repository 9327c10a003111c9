-------------------------------- MODULE School --------------------------------
(***************************************************************************)
(* What the modules about functions of the tables have in common.          *)
(***************************************************************************)
CONSTANTS
  Courses, Cohorts,  \* rows of courses and of cohorts, by id
  None               \* no row, no value
=============================================================================
