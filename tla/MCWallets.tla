------------------------------ MODULE MCWallets ------------------------------
(* Small instances of Wallets for TLC. *)
EXTENDS Wallets, TLC

\* The first wallet has the default rate, the second two cents per credit.
RateMC == [w \in Wallets |-> IF w = 1 THEN 1 ELSE 2]

=============================================================================
