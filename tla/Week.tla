-------------------------------- MODULE Week --------------------------------
(* What the server and the page call a week of menus (domain/weekly.go). *)
EXTENDS Naturals

CONSTANTS
  Menus,       \* menus.id of the master
  WeekLength   \* domain.WeekLength: 7

ASSUME WeekAssumption == WeekLength \in Nat \ {0}

Days == 1..WeekLength
=============================================================================
