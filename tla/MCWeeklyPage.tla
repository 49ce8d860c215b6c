---------------------------- MODULE MCWeeklyPage ----------------------------
(* Small instances of WeeklyPage. *)
EXTENDS WeeklyPage
CONSTANTS m1, m2, m3, i1, i2
=============================================================================
