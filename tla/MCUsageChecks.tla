--------------------------- MODULE MCUsageChecks ---------------------------
(* A small instance of UsageChecks for TLC. *)
EXTENDS UsageChecks, TLC

CONSTANTS e1, e2, s1, s2, low, each

\* Every choice of the events' periods is an initial state.
Interchangeable == Permutations({s1, s2}) \cup Permutations({e1, e2})

AmountMC == low :> 1
ValueMC == each :> 1

============================================================================
