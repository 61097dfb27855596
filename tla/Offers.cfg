\* Two rows, two calls under way.
SPECIFICATION Spec
CONSTANTS
  Kinds <- ConsoleKinds
  Rows = {r1, r2}
  MaxCalls = 2
SYMMETRY RowsAlike
INVARIANTS
  RefusedOnlyIfMoved
  NeverDoneTwice
CHECK_DEADLOCK FALSE
