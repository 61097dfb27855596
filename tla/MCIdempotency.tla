---------------------------- MODULE MCIdempotency ----------------------------
(* Small instances of Idempotency for TLC. *)
EXTENDS Idempotency, TLC

CONSTANTS k1, k2, customer, alert

\* One key that is used for two things, and one thing asked for with two keys.
RequestsMC == {[key |-> k1, thing |-> alert], [key |-> k1, thing |-> customer],
               [key |-> k2, thing |-> customer]}

=============================================================================
