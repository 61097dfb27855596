-------------------------- MODULE MCSubscriptions --------------------------
(* Small instances of Subscriptions for TLC. *)
EXTENDS Subscriptions, TLC

CONSTANTS cheap, dear

\* Two plans, of one and two units a day.
PriceMC == [p \in Plans |-> IF p = dear THEN 2 ELSE 1]

============================================================================
