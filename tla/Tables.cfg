\* Three rows, one or two per page.
SPECIFICATION Spec
CONSTANTS
  TableSubjects <- ConsoleTables
  Rows <- MCRows
  Sizes <- MCSizes
INVARIANTS
  EmptyMeansNone
  EveryRowHasAPage
  WayBack
CHECK_DEADLOCK FALSE
