--------------------------- MODULE InvoiceLifecycle ---------------------------
(***************************************************************************)
(* What an invoice is to everybody else: a status that moves along a few   *)
(* edges, a sum of settlements that only grows and never on a draft, and   *)
(* PAID only where the money came in or an operator answers for it.  No    *)
(* handlers, payments, wallets, webhooks or crashes.                       *)
(***************************************************************************)
EXTENDS Naturals

CONSTANTS
    Invoices,
    PutStatuses    \* the statuses clients write with PUT

VARIABLES
    status,     \* of each invoice, "deleted" when there is none
    settled,    \* SUM of its settlements
    money,      \* its total came in: by settlements, or by a charge
    declared    \* an operator said that it is paid

vars == <<status, settled, money, declared>>

Moves(i, to) == status' = [status EXCEPT ![i] = to]

Finalize(i) ==
    /\ status[i] = "draft"
    /\ Moves(i, "finalized")
    /\ UNCHANGED <<settled, money, declared>>

Void(i) ==
    /\ status[i] \in {"draft", "finalized"}
    /\ Moves(i, "voided")
    /\ UNCHANGED <<settled, money, declared>>

\* Nothing that was settled is lost with a draft.
Delete(i) ==
    /\ status[i] = "draft" /\ settled[i] = 0
    /\ Moves(i, "deleted")
    /\ UNCHANGED <<settled, money, declared>>

\* Money comes in, or is settled: whatever has become of the invoice since it
\* was asked for, but never for a draft.
Receive(i) ==
    /\ settled' = [settled EXCEPT ![i] = settled'[i]] /\ settled'[i] >= settled[i]
    /\ money' = [money EXCEPT ![i] = money'[i]] /\ (money[i] => money'[i])
    /\ settled'[i] # settled[i] => status[i] \notin {"draft", "deleted"}
    /\ UNCHANGED <<status, declared>>

Pay(i) ==
    /\ status[i] = "finalized" /\ money[i]
    /\ Moves(i, "paid")
    /\ UNCHANGED <<settled, money, declared>>

Declare(i) ==
    /\ status[i] = "finalized"
    /\ Moves(i, "paid")
    /\ declared' = [declared EXCEPT ![i] = TRUE]
    /\ UNCHANGED <<settled, money>>

Put(i, to) ==
    /\ status[i] # "deleted"
    /\ Moves(i, to)
    /\ declared' = [declared EXCEPT ![i] = @ \/ to = "paid"]
    /\ UNCHANGED <<settled, money>>

Init ==
    /\ status = [i \in Invoices |-> "draft"]
    /\ settled = [i \in Invoices |-> 0]
    /\ money \in [Invoices -> BOOLEAN]
    /\ declared = [i \in Invoices |-> FALSE]

Next == \E i \in Invoices :
    \/ Finalize(i) \/ Void(i) \/ Delete(i)
    \/ Receive(i) \/ Pay(i) \/ Declare(i)
    \/ \E to \in PutStatuses : Put(i, to)

Spec == Init /\ [][Next]_vars
=============================================================================
