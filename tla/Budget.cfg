SPECIFICATION Spec
CONSTANTS
  Files = {f1, f2, f3}
  Capacity = 4
  Floor = 2
  MaxPageCount = 5
  PageCounts = {1, 3, 5}
  PrevCounts = {0, 1}
INVARIANTS
  UnitsConserved
  NoLostWakeup
PROPERTIES
  UpgradersFirst
  EveryFileEnds
CHECK_DEADLOCK FALSE
