------------------------ MODULE MCInvoiceSettlement ------------------------
(* Small instances of InvoiceSettlement for TLC. *)
EXTENDS InvoiceSettlement, TLC

CONSTANT i1

\* One invoice of two units: of the wallet, of a manual payment, or of both.
TotalMC == i1 :> 2

============================================================================
