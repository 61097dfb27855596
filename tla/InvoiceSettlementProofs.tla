---------------------- MODULE InvoiceSettlementProofs ----------------------
(***************************************************************************)
(* For every number of API processes, invoices and payments, every total   *)
(* and wallet balance, every bound: InvoiceSettlement is type correct and  *)
(* an invoice is PAID only if it is covered, and a draft has no payments   *)
(* (UntouchedInv).  With one API process, what a handler read still holds  *)
(* when it writes (HoldInv), and from it follow the properties of the      *)
(* accounts (AccountInv), of what is settled in full (FullInv), and that   *)
(* InvoiceLifecycle is implemented, each under the PUTs it needs to be     *)
(* absent.                                                                 *)
(***************************************************************************)
EXTENDS InvoiceSettlement, FiniteSetTheorems, TLAPS

USE DEF PaymentIds, NoPayment

\* What every step keeps of the rows the other processes rely on.
Grows ==
    /\ created <= created'
    /\ \A p \in 1..created : payment'[p].inv = payment[p].inv
    /\ \A i \in Invoices : settled[i] <= settled'[i] /\ fromWallet[i] <= fromWallet'[i]
    /\ \A i \in Invoices : Charged(i) => Charged(i)'

\* Charged only depends on rows that exist, whose money never shrinks.
LEMMA ChargedGrows ==
    ASSUME TypeOK, TypeOK', \A p \in PaymentIds : RowOK(p),
           created <= created',
           \A p \in 1..created : payment'[p].inv = payment[p].inv,
           \A p \in PaymentIds : captured[p] <= captured'[p],
           \A i \in Invoices : fromWallet[i] <= fromWallet'[i]
    PROVE  \A i \in Invoices : Charged(i) => Charged(i)'
  <1> SUFFICES ASSUME NEW i \in Invoices, Charged(i) PROVE Charged(i)'
    OBVIOUS
  <1>1. PICK p \in PaymentIds : payment[p].inv = i /\ captured[p] + fromWallet[i] >= Total[i]
    BY DEF Charged
  <1>2. p \in 1..created
    BY <1>1, ConstantsAssumption DEF RowOK, TypeOK
  <1>3. captured'[p] + fromWallet'[i] >= Total[i]
    BY <1>1, ConstantsAssumption DEF TypeOK
  <1> QED
    BY <1>1, <1>2, <1>3 DEF Charged

\* A process that does not move keeps what it knows.
LEMMA Others ==
    ASSUME TypeOK, TypeOK', Grows,
           NEW t \in Servers, RequestOK(t), req'[t] = req[t]
    PROVE  RequestOK(t)'
  <1> DEFINE i == req[t].inv
             p == req[t].pay
  <1>1. /\ p \in 1..created => p \in 1..created' /\ payment'[p].inv = payment[p].inv
    BY DEF Grows, TypeOK
  <1>2. i \in Invoices => /\ settled[i] <= settled'[i]
                          /\ fromWallet[i] <= fromWallet'[i]
                          /\ Charged(i) => Charged(i)'
    BY DEF Grows
  <1>3. req[t] \in Request
    BY DEF TypeOK
  <1>4. i \in Invoices => /\ settled[i] \in Nat /\ settled'[i] \in Nat
                          /\ fromWallet[i] \in Nat /\ fromWallet'[i] \in Nat
                          /\ Total[i] \in Nat
    BY ConstantsAssumption DEF TypeOK
  <1> QED
    BY <1>1, <1>2, <1>3, <1>4 DEF RequestOK, Request, Charging, KnowsResult

\* A paid invoice stays covered, and an invoice becomes paid only if covered.
LEMMA StaysCovered ==
    ASSUME TypeOK, TypeOK', PaidIsCovered, Grows,
           \A i \in Invoices : declared[i] => declared'[i],
           \A i \in Invoices : invoice'[i].st = "paid" =>
             invoice[i].st = "paid" \/ declared'[i] \/ settled'[i] >= Total[i] \/ Charged(i)'
    PROVE  PaidIsCovered'
  <1> SUFFICES ASSUME NEW i \in Invoices, invoice'[i].st = "paid"
               PROVE  declared'[i] \/ settled'[i] >= Total[i] \/ Charged(i)'
    BY DEF PaidIsCovered
  <1>1. CASE invoice[i].st = "paid"
    <2>1. declared[i] \/ settled[i] >= Total[i] \/ Charged(i)
      BY <1>1 DEF PaidIsCovered
    <2> QED
      BY <2>1, ConstantsAssumption DEF Grows, TypeOK
  <1> QED
    BY <1>1

\* The shape of every step of a process: what is left to show of it.
LEMMA Step ==
    ASSUME IInv, TypeOK', NEW s \in Servers, Grows,
           \A t \in Servers \ {s} : req'[t] = req[t],
           RequestOK(s)',
           \A p \in PaymentIds : RowOK(p)',
           \A i \in Invoices : invoice'[i].prepaid <= fromWallet'[i] /\ fromWallet'[i] <= settled'[i],
           \A i \in Invoices : declared[i] => declared'[i],
           \A i \in Invoices : invoice'[i].st = "paid" =>
             invoice[i].st = "paid" \/ declared'[i] \/ settled'[i] >= Total[i] \/ Charged(i)'
    PROVE  IInv'
  <1>1. PaidIsCovered'
    BY StaysCovered DEF IInv
  <1>2. \A t \in Servers : RequestOK(t)'
    BY Others DEF IInv
  <1> QED
    BY <1>1, <1>2 DEF IInv

\* A step that writes nothing but what the process remembers and the webhooks.
LEMMA RequestStep ==
    ASSUME IInv, NEW s \in Servers, NEW r \in Request,
           req' = [req EXCEPT ![s] = r],
           UNCHANGED <<db, session, captured, declared>>,
           events' \subseteq [type : EventTypes, pay : PaymentIds],
           crashes' \in 0..MaxCrashes,
           RequestOK(s)'
    PROVE  IInv'
  <1> USE DEF db, ledger
  <1>1. TypeOK'
    BY DEF IInv, TypeOK
  <1>2. Grows
    <2>1. \A i \in Invoices : Charged(i) => Charged(i)'
      BY DEF Charged
    <2> QED
      BY <2>1 DEF Grows, IInv, TypeOK
  <1>3. \A p \in PaymentIds : RowOK(p)'
    BY DEF IInv, RowOK
  <1>4. \A t \in Servers \ {s} : req'[t] = req[t]
    BY DEF IInv, TypeOK
  <1>5. /\ \A i \in Invoices : invoice'[i].prepaid <= fromWallet'[i] /\ fromWallet'[i] <= settled'[i]
        /\ \A i \in Invoices : declared[i] => declared'[i]
        /\ \A i \in Invoices : invoice'[i].st = "paid" => invoice[i].st = "paid"
    BY DEF IInv
  <1> QED
    BY <1>1, <1>2, <1>3, <1>4, <1>5, Step

\* A step that rewrites one payment row, which stays the invoice's.
LEMMA RowStep ==
    ASSUME IInv, NEW s \in Servers, NEW r \in Request,
           req' = [req EXCEPT ![s] = r],
           NEW p \in PaymentIds \cup {NoPayment}, NEW row,
           payment' = IF Exists(p) THEN [payment EXCEPT ![p] = row] ELSE payment,
           Exists(p) => /\ row \in PaymentRow
                        /\ row.inv = payment[p].inv /\ row.st # "none",
           UNCHANGED <<invoice, created, ledger, wallet, provider, history>>,
           RequestOK(s)'
    PROVE  IInv'
  <1> USE DEF ledger, provider, history
  <1>1. TypeOK'
    BY DEF IInv, TypeOK
  <1>2. \A q \in PaymentIds : payment'[q].inv = payment[q].inv
                            /\ (payment'[q].st = "none" <=> payment[q].st = "none")
    BY DEF IInv, TypeOK, Exists, PaymentRow, PaymentStatus
  <1>3. Grows
    <2>1. \A i \in Invoices : Charged(i) => Charged(i)'
      BY <1>2 DEF Charged
    <2> QED
      BY <1>2, <2>1 DEF Grows, IInv, TypeOK
  <1>4. \A q \in PaymentIds : RowOK(q)'
    BY <1>2 DEF IInv, RowOK
  <1>5. \A t \in Servers \ {s} : req'[t] = req[t]
    BY DEF IInv, TypeOK
  <1>6. /\ \A i \in Invoices : invoice'[i].prepaid <= fromWallet'[i] /\ fromWallet'[i] <= settled'[i]
        /\ \A i \in Invoices : declared[i] => declared'[i]
        /\ \A i \in Invoices : invoice'[i].st = "paid" => invoice[i].st = "paid"
    BY DEF IInv
  <1> QED
    BY <1>1, <1>3, <1>4, <1>5, <1>6, Step

\* A step that creates a payment row for the invoice of the process.
LEMMA CreateStep ==
    ASSUME IInv, NEW s \in Servers, NEW i \in Invoices, req[s].inv = i,
           NEW a \in Nat, NEW step \in Steps, CreatePayment(s, i, a, step),
           UNCHANGED <<invoice, ledger, wallet, provider, history>>,
           RequestOK(s)'
    PROVE  IInv'
  <1> USE DEF ledger, provider, history
  <1>1. TypeOK'
    <2>1. payment' \in [PaymentIds -> PaymentRow]
      BY DEF IInv, TypeOK, CreatePayment, PaymentRow, PaymentStatus
    <2>2. created + 1 \in PaymentIds
      BY DEF CreatePayment
    <2>3. [pc |-> step, inv |-> i, pay |-> created + 1, amt |-> a, res |-> "none"] \in Request
      BY <2>2 DEF Request, Results
    <2>4. req' \in [Servers -> Request]
      BY <2>3 DEF IInv, TypeOK, CreatePayment
    <2>5. created' \in 0..MaxPayments
      BY ConstantsAssumption DEF CreatePayment
    <2> QED
      BY <2>1, <2>4, <2>5 DEF IInv, TypeOK
  <1>2. /\ created' = created + 1 /\ created \in Nat
        /\ payment[created + 1].inv = NoInvoice
        /\ \A q \in PaymentIds \ {created + 1} : payment'[q] = payment[q]
    BY DEF IInv, TypeOK, CreatePayment, RowOK
  <1>3. Grows
    <2>1. \A q \in 1..created : payment'[q].inv = payment[q].inv
      BY <1>2, ConstantsAssumption DEF IInv, TypeOK
    <2>2. \A q \in PaymentIds : captured[q] <= captured'[q]
      <3>1. captured \in [PaymentIds -> Nat] /\ captured' = captured
        BY DEF IInv, TypeOK
      <3> QED
        BY <3>1
    <2>3. \A j \in Invoices : settled[j] <= settled'[j] /\ fromWallet[j] <= fromWallet'[j]
      BY DEF IInv, TypeOK
    <2>4. created <= created'
      BY <1>2
    <2>5. \A j \in Invoices : Charged(j) => Charged(j)'
      BY <1>1, <2>1, <2>2, <2>3, <2>4, ChargedGrows DEF IInv
    <2> QED
      BY <2>1, <2>3, <2>4, <2>5 DEF Grows
  <1>4. \A q \in PaymentIds : RowOK(q)'
    <2> TAKE q \in PaymentIds
    <2>1. CASE q = created + 1
      BY <2>1, <1>2 DEF IInv, RowOK, CreatePayment, TypeOK
    <2>2. CASE q # created + 1
      BY <2>2, <1>2 DEF IInv, RowOK
    <2> QED
      BY <2>1, <2>2
  <1>5. \A t \in Servers \ {s} : req'[t] = req[t]
    BY DEF IInv, TypeOK, CreatePayment
  <1>6. /\ \A j \in Invoices : invoice'[j].prepaid <= fromWallet'[j] /\ fromWallet'[j] <= settled'[j]
        /\ \A j \in Invoices : declared[j] => declared'[j]
        /\ \A j \in Invoices : invoice'[j].st = "paid" => invoice[j].st = "paid"
    BY DEF IInv
  <1> QED
    BY <1>1, <1>3, <1>4, <1>5, <1>6, Step

\* A step that writes the invoice of the process; PAID only when it may.
LEMMA InvoiceStep ==
    ASSUME IInv, NEW s \in Servers, NEW r \in Request,
           req' = [req EXCEPT ![s] = r],
           NEW i \in Invoices, NEW row \in InvoiceRow,
           invoice' = [invoice EXCEPT ![i] = row],
           declared' \in [Invoices -> BOOLEAN],
           \A j \in Invoices : declared[j] => declared'[j],
           row.st = "paid" => \/ invoice[i].st = "paid" \/ declared'[i]
                              \/ settled[i] >= Total[i] \/ Charged(i),
           row.prepaid <= fromWallet[i],
           UNCHANGED <<payment, created, ledger, wallet, provider, crashes>>,
           RequestOK(s)'
    PROVE  IInv'
  <1> USE DEF ledger, provider
  <1>1. TypeOK'
    BY DEF IInv, TypeOK
  <1>2. \A j \in Invoices : Charged(j) <=> Charged(j)'
    BY DEF Charged
  <1>3. Grows
    BY <1>2 DEF Grows, IInv, TypeOK
  <1>4. \A q \in PaymentIds : RowOK(q)'
    BY DEF IInv, RowOK
  <1>5. \A t \in Servers \ {s} : req'[t] = req[t]
    BY DEF IInv, TypeOK
  <1>6. \A j \in Invoices : invoice'[j].prepaid <= fromWallet'[j] /\ fromWallet'[j] <= settled'[j]
    BY DEF IInv, TypeOK
  <1>7. \A j \in Invoices : invoice'[j].st = "paid" =>
          invoice[j].st = "paid" \/ declared'[j] \/ settled'[j] >= Total[j] \/ Charged(j)'
    <2> TAKE j \in Invoices
    <2>1. CASE j = i
      BY <2>1, <1>2 DEF IInv, TypeOK
    <2>2. CASE j # i
      BY <2>2 DEF IInv, TypeOK
    <2> QED
      BY <2>1, <2>2
  <1> QED
    BY <1>1, <1>3, <1>4, <1>5, <1>6, <1>7, Step

\* A handler that begins with what its request names.
LEMMA BeginStep ==
    ASSUME IInv, NEW s \in Servers, NEW step \in Steps, NEW i \in Invoices,
           NEW p \in PaymentIds \cup {NoPayment}, NEW a \in Nat, NEW res \in Results,
           Begin(s, step, i, p, a, res),
           step \notin Charging \cup {"idle", "create_session", "get_wallets",
                                    "set_prepaid", "create_charge", "mark_paid"},
           step \in KnowsResult => res # "none",
           UNCHANGED <<db, session, captured, history>>,
           events' \subseteq [type : EventTypes, pay : PaymentIds]
    PROVE  IInv'
  <1> DEFINE r == [pc |-> step, inv |-> i, pay |-> p, amt |-> a, res |-> res]
  <1>1. r \in Request
    BY DEF Request
  <1>2. req' = [req EXCEPT ![s] = r]
    BY DEF Begin
  <1>3. req'[s] = r
    BY <1>2 DEF IInv, TypeOK
  <1>4. RequestOK(s)'
    BY <1>3 DEF RequestOK, Charging, KnowsResult
  <1>5. UNCHANGED declared /\ crashes' \in 0..MaxCrashes
    BY DEF history, IInv, TypeOK
  <1> QED
    BY <1>1, <1>2, <1>4, <1>5, RequestStep

\* A row with a status other than "none" belongs to an invoice.
LEMMA RowOfInvoice ==
    ASSUME IInv, NEW p \in PaymentIds, payment[p].st # "none"
    PROVE  /\ payment[p].inv \in Invoices /\ payment[p].amt \in Nat
           /\ p \in 1..created
  BY ConstantsAssumption DEF IInv, TypeOK, RowOK, PaymentRow

\* A request that reaches an idle process, or a PUT, keeps the invariant.
LEMMA ArriveStep ==
    ASSUME IInv, NEW s \in Servers, Arrive(s) PROVE IInv'
  <1> USE DEF Steps, Creating, Finalizing, Charging, KnowsResult, Results
  <1>1. ASSUME NEW i \in Invoices, NEW a \in Amounts, RecordManual(s, i, a) PROVE IInv'
    BY <1>1, BeginStep, ConstantsAssumption DEF RecordManual, IInv, TypeOK, provider
  <1>2. ASSUME NEW i \in Invoices, Checkout(s, i) PROVE IInv'
    BY <1>2, BeginStep, ConstantsAssumption DEF Checkout, IInv, TypeOK, provider
  <1>3. ASSUME NEW i \in Invoices, Finalize(s, i) PROVE IInv'
    BY <1>3, BeginStep DEF Finalize, IInv, TypeOK, provider
  <1>4. ASSUME NEW i \in Invoices, BulkFinalize(s, i) PROVE IInv'
    BY <1>4, BeginStep DEF BulkFinalize, IInv, TypeOK, provider
  <1>5. ASSUME NEW i \in Invoices, DeclarePaid(s, i) PROVE IInv'
    BY <1>5, BeginStep DEF DeclarePaid, IInv, TypeOK, provider
  <1>6. ASSUME NEW i \in Invoices, Void(s, i) PROVE IInv'
    BY <1>6, BeginStep DEF Void, IInv, TypeOK, provider
  <1>7. ASSUME NEW i \in Invoices, DeleteInvoice(s, i) PROVE IInv'
    BY <1>7, BeginStep DEF DeleteInvoice, IInv, TypeOK, provider
  <1>8. ASSUME NEW i \in Invoices, NEW st \in PutStatuses, UpdateInvoice(s, i, st)
        PROVE  IInv'
    <2> DEFINE row == [invoice[i] EXCEPT !.st = st]
    <2>1. row \in InvoiceRow /\ row.st = st /\ row.prepaid <= fromWallet[i]
      BY ConstantsAssumption DEF IInv, TypeOK, InvoiceRow, InvoiceStatus
    <2>2. invoice' = [invoice EXCEPT ![i] = row]
      BY <1>8 DEF UpdateInvoice, SetInvoice
    <2>3. req' = [req EXCEPT ![s] = req[s]] /\ req[s] \in Request
      BY <1>8 DEF UpdateInvoice, IInv, TypeOK
    <2>4. /\ declared' \in [Invoices -> BOOLEAN]
          /\ \A j \in Invoices : declared[j] => declared'[j]
          /\ st = "paid" => declared'[i]
      BY <1>8 DEF UpdateInvoice, IInv, TypeOK
    <2>5. RequestOK(s)'
      BY <1>8 DEF UpdateInvoice, IInv, TypeOK, At, RequestOK
    <2> QED
      BY <1>8, <2>1, <2>2, <2>3, <2>4, <2>5, InvoiceStep DEF UpdateInvoice
  <1>9. ASSUME NEW p \in PaymentIds, NEW from \in PaymentStatus, NEW a \in Nat,
               NEW step \in {"mark_payment", "mark_refunded", "retry", "delete_payment"},
               Operate(s, p, from, step, a)
        PROVE  IInv'
    BY <1>9, BeginStep, RowOfInvoice DEF Operate, PaymentStatus, IInv, TypeOK, provider
  <1>10. ASSUME NEW p \in PaymentIds, NEW a \in Amounts \cup {0}, Refund(s, p, a) PROVE IInv'
    <2>1. payment[p].amt \in Nat /\ a \in Nat /\ a <= payment[p].amt
      BY <1>10, ConstantsAssumption DEF Refund, IInv, TypeOK, PaymentRow
    <2>2. payment[p].amt - a \in Nat
      BY <2>1
    <2>3. Operate(s, p, "succeeded", "mark_refunded", payment[p].amt - a)
      BY <1>10 DEF Refund
    <2> QED
      BY <2>2, <2>3, <1>9 DEF PaymentStatus
  <1>11. ASSUME NEW p \in PaymentIds,
                MarkPaymentPaid(s, p) \/ Retry(s, p) \/ DeletePayment(s, p)
         PROVE  IInv'
    BY <1>9, <1>11
       DEF MarkPaymentPaid, Retry, DeletePayment, PaymentStatus, IInv, TypeOK, PaymentRow
  <1> QED
    BY <1>1, <1>2, <1>3, <1>4, <1>5, <1>6, <1>7, <1>8, <1>10, <1>11 DEF Arrive

\* A webhook that reaches an idle process, known or ignored, keeps it too.
LEMMA DeliveryStep ==
    ASSUME IInv, NEW s \in Servers, NEW e \in events, Delivery(s, e) PROVE IInv'
  <1>1. /\ e.type \in EventTypes /\ e.pay \in PaymentIds
        /\ Acknowledge(e) => events' \subseteq [type : EventTypes, pay : PaymentIds]
    BY DEF IInv, TypeOK, Acknowledge
  <1>2. CASE Receive(s, e)
    <2> DEFINE p == e.pay
    <2>1. Exists(p)
      BY <1>2 DEF Receive, Names
    <2>2. payment[p].inv \in Invoices /\ payment[p].amt \in Nat
      BY <1>1, <2>1, RowOfInvoice DEF Exists, PaymentStatus
    <2>3. ResultOf(e) \in Results /\ ResultOf(e) # "none"
      BY <1>1 DEF ResultOf, EventTypes, Results
    <2>4. PICK step \in {"set_payment_id", "webhook"} :
            Begin(s, step, payment[p].inv, p, payment[p].amt, ResultOf(e))
      BY <1>2 DEF Receive
    <2> QED
      BY <1>1, <1>2, <2>2, <2>3, <2>4, BeginStep
         DEF Receive, Steps, Charging, KnowsResult
  <1>3. CASE Ignore(s, e)
    <2>1. /\ req' = [req EXCEPT ![s] = req[s]] /\ req[s] \in Request
          /\ UNCHANGED <<db, session, captured, declared, crashes>>
      BY <1>3 DEF Ignore, IInv, TypeOK, history
    <2>2. RequestOK(s)'
      BY <1>3 DEF Ignore, At, RequestOK, Charging, KnowsResult
    <2> QED
      BY <1>1, <1>3, <2>1, <2>2, RequestStep DEF Ignore, IInv, TypeOK
  <1> QED
    BY <1>2, <1>3 DEF Delivery

\* What Goto and Return do to the request of the process, and what a process
\* has to know at a step at which it needs nothing but its invoice.
Plain == Steps \ (Charging \cup {"idle", "create_session", "get_wallets", "set_prepaid",
                                "create_charge", "mark_paid", "set_payment_id", "webhook"})

\* A step of a process that writes no table and changes only what it remembers.
LEMMA Moves ==
    ASSUME IInv, NEW s \in Servers, Return(s) \/ \E step \in Plain : Goto(s, step),
           req[s].pc # "idle"
    PROVE  \E r \in Request : req' = [req EXCEPT ![s] = r] /\ RequestOK(s)'
  <1>1. req[s] \in Request /\ req[s].inv \in Invoices
    BY DEF IInv, TypeOK, RequestOK
  <1>2. CASE Return(s)
    <2>1. Idle \in Request /\ Idle.pc = "idle"
      BY DEF Idle, Request, Steps, Results
    <2>2. req'[s] = Idle
      BY <1>2 DEF Return, IInv, TypeOK
    <2>3. RequestOK(s)'
      BY <2>1, <2>2 DEF RequestOK, Charging, KnowsResult
    <2> QED
      BY <1>2, <2>1, <2>3 DEF Return
  <1>3. ASSUME NEW step \in Plain, Goto(s, step)
        PROVE  \E r \in Request : req' = [req EXCEPT ![s] = r] /\ RequestOK(s)'
    <2> DEFINE r == [req[s] EXCEPT !.pc = step]
    <2>1. r \in Request /\ r.pc = step /\ r.inv = req[s].inv
      BY <1>1 DEF Request, Plain
    <2>2. req' = [req EXCEPT ![s] = r] /\ req'[s] = r
      BY <1>3 DEF Goto, IInv, TypeOK
    <2>3. RequestOK(s)'
      BY <1>1, <2>1, <2>2 DEF RequestOK, Charging, KnowsResult, Plain
    <2> QED
      BY <2>1, <2>2, <2>3
  <1> QED
    BY <1>2, <1>3

\* The request of a process whose handler returns.
LEMMA Returns ==
    ASSUME IInv, NEW s \in Servers, Return(s)
    PROVE  /\ Idle \in Request /\ req' = [req EXCEPT ![s] = Idle]
           /\ RequestOK(s)'
  <1>1. Idle \in Request /\ Idle.pc = "idle"
    BY DEF Idle, Request, Steps, Results
  <1>2. req'[s] = Idle
    BY DEF Return, IInv, TypeOK
  <1> QED
    BY <1>1, <1>2 DEF Return, RequestOK, Charging, KnowsResult

\* A step that sets the status of a payment.
LEMMA StatusStep ==
    ASSUME IInv, NEW s \in Servers, NEW p \in PaymentIds \cup {NoPayment},
           NEW st \in PaymentStatus \cup {"deleted"}, SetStatus(p, st),
           NEW r \in Request, req' = [req EXCEPT ![s] = r], RequestOK(s)',
           UNCHANGED <<invoice, created, ledger, wallet, provider, history>>
    PROVE  IInv'
  <1> DEFINE row == [payment[p] EXCEPT !.st = st]
  <1>1. Exists(p) => /\ row \in PaymentRow
                     /\ row.inv = payment[p].inv /\ row.st # "none"
    BY DEF Exists, IInv, TypeOK, PaymentRow, PaymentStatus
  <1>2. payment' = IF Exists(p) THEN [payment EXCEPT ![p] = row] ELSE payment
    BY DEF SetStatus
  <1> QED
    BY <1>1, <1>2, RowStep

\* The steps of the handlers that write one payment row.
LEMMA PaymentSteps ==
    ASSUME IInv, NEW s \in Servers,
           \/ MarkManual(s) \/ SetCheckout(s) \/ SetPaymentId(s) \/ Webhook(s)
           \/ WriteMarkPayment(s) \/ WriteRefund(s) \/ WriteRetry(s) \/ WriteDelete(s)
           \/ MarkProcessing(s) \/ SetChargeId(s) \/ ChargeResult(s)
    PROVE  IInv'
  <1> DEFINE p == req[s].pay
             OneRow == UNCHANGED <<invoice, created, ledger, wallet, provider, history>>
             Known == \E r \in Request : req' = [req EXCEPT ![s] = r] /\ RequestOK(s)'
  <1>1. /\ req[s] \in Request /\ p \in PaymentIds \cup {NoPayment}
        /\ req[s].amt \in Nat /\ req[s].res \in Results /\ RequestOK(s)
    BY DEF IInv, TypeOK, Request
  <1>2. Return(s) => Known
    BY Returns
  <1>3. ASSUME NEW st \in PaymentStatus \cup {"deleted"}, SetStatus(p, st), Known, OneRow
        PROVE  IInv'
    <2>1. PICK r \in Request : req' = [req EXCEPT ![s] = r] /\ RequestOK(s)'
      BY <1>3
    <2> QED
      BY <1>1, <1>3, <2>1, StatusStep
  <1>4. ASSUME NEW row, Known, OneRow,
               payment' = IF Exists(p) THEN [payment EXCEPT ![p] = row] ELSE payment,
               Exists(p) => /\ row \in PaymentRow
                            /\ row.inv = payment[p].inv /\ row.st # "none"
        PROVE  IInv'
    <2>1. PICK r \in Request : req' = [req EXCEPT ![s] = r] /\ RequestOK(s)'
      BY <1>4
    <2> QED
      BY <1>1, <1>4, <2>1, RowStep
  <1>5. CASE MarkManual(s)
    <2>1. Known
      BY <1>5, Moves DEF MarkManual, At, Plain, Steps, Charging
    <2>2. OneRow /\ SetStatus(p, "succeeded")
      BY <1>5 DEF MarkManual
    <2> QED
      BY <1>3, <2>1, <2>2 DEF PaymentStatus
  <1>6. CASE SetCheckout(s)
    <2> DEFINE row == [payment[p] EXCEPT !.url = TRUE]
    <2>1. Exists(p) => row \in PaymentRow /\ row.inv = payment[p].inv /\ row.st # "none"
      BY DEF Exists, IInv, TypeOK, PaymentRow, PaymentStatus
    <2>2. /\ payment' = IF Exists(p) THEN [payment EXCEPT ![p] = row] ELSE payment
          /\ OneRow /\ Return(s)
      BY <1>6 DEF SetCheckout
    <2> QED
      BY <1>2, <1>4, <2>1, <2>2
  <1>7. CASE SetPaymentId(s) \/ SetChargeId(s)
    <2> DEFINE step == IF At(s, "set_payment_id") THEN "webhook" ELSE "charge_result"
               r == [req[s] EXCEPT !.pc = step]
    <2>0. PICK row \in {payment[p], [payment[p] EXCEPT !.pid = TRUE]} :
            payment' = IF Exists(p) THEN [payment EXCEPT ![p] = row] ELSE payment
      <3>1. Exists(p) => [payment EXCEPT ![p] = payment[p]] = payment
        BY DEF IInv, TypeOK
      <3>2. \/ payment' = IF Exists(p) THEN [payment EXCEPT ![p].pid = TRUE] ELSE payment
            \/ UNCHANGED payment
        BY <1>7 DEF SetPaymentId, SetChargeId
      <3> QED
        BY <3>1, <3>2 DEF Exists
    <2>1. Exists(p) => row \in PaymentRow /\ row.inv = payment[p].inv /\ row.st # "none"
      BY <2>0 DEF Exists, IInv, TypeOK, PaymentRow, PaymentStatus
    <2>2. /\ payment' = IF Exists(p) THEN [payment EXCEPT ![p] = row] ELSE payment
          /\ OneRow
      BY <1>7, <2>0 DEF SetPaymentId, SetChargeId
    <2>3. /\ r \in Request /\ r.pc = step /\ r.inv = req[s].inv /\ r.pay = p
          /\ r.res = req[s].res
      BY <1>1 DEF Request, Steps
    <2>4. req' = [req EXCEPT ![s] = r] /\ req'[s] = r
      BY <1>7 DEF SetPaymentId, SetChargeId, Goto, At, IInv, TypeOK
    <2>5. \A q \in PaymentIds : payment'[q].inv = payment[q].inv
      BY <2>1, <2>2 DEF IInv, TypeOK
    <2>6. \A i \in Invoices : Charged(i) => Charged(i)'
      BY <2>2, <2>5 DEF Charged, provider, ledger
    <2>7. p \in 1..created => p \in PaymentIds
      BY ConstantsAssumption DEF IInv, TypeOK
    <2>8. RequestOK(s)'
      BY <1>1, <1>7, <2>2, <2>3, <2>4, <2>5, <2>6, <2>7
         DEF RequestOK, SetPaymentId, SetChargeId, At, Charging, KnowsResult, ledger, provider
    <2> QED
      BY <1>4, <2>1, <2>2, <2>3, <2>4, <2>8
  <1>8. CASE Webhook(s)
    <2>1. req[s].res \in PaymentStatus
      BY <1>1, <1>8 DEF Webhook, At, RequestOK, KnowsResult, Results, PaymentStatus
    <2>2. PICK row \in {payment[p], [payment[p] EXCEPT !.st = req[s].res]} :
            payment' = IF Exists(p) THEN [payment EXCEPT ![p] = row] ELSE payment
      <3>1. Exists(p) => [payment EXCEPT ![p] = payment[p]] = payment
        BY DEF IInv, TypeOK
      <3>2. SetStatus(p, req[s].res) \/ UNCHANGED payment
        BY <1>8 DEF Webhook
      <3> QED
        BY <3>1, <3>2 DEF SetStatus, Exists
    <2>5. /\ OneRow
          /\ Exists(p) => row \in PaymentRow /\ row.inv = payment[p].inv /\ row.st # "none"
      BY <1>8, <2>1, <2>2 DEF Webhook, Exists, IInv, TypeOK, PaymentRow, PaymentStatus
    <2>3. CASE Return(s)
      BY <1>2, <1>4, <2>2, <2>3, <2>5
    <2>4. CASE ~Return(s)
      <3> DEFINE r == [req[s] EXCEPT !.pc = "settle", !.amt = payment[p].amt]
      <3>1. Exists(p) /\ req' = [req EXCEPT ![s].pc = "settle", ![s].amt = payment[p].amt]
        BY <1>8, <2>4 DEF Webhook
      <3>2. r \in Request /\ r.pc = "settle" /\ r.inv = req[s].inv
        BY <1>1, <3>1 DEF Request, Steps, Exists, IInv, TypeOK, PaymentRow
      <3>3. req' = [req EXCEPT ![s] = r] /\ req'[s] = r
        BY <3>1 DEF IInv, TypeOK
      <3>4. RequestOK(s)'
        BY <1>1, <1>8, <3>2, <3>3 DEF RequestOK, Webhook, At, Charging, KnowsResult
      <3> QED
        BY <1>4, <2>2, <2>5, <3>2, <3>3, <3>4
    <2> QED
      BY <2>3, <2>4
  <1>9. CASE WriteMarkPayment(s)
    <2>1. Known
      BY <1>2, <1>9, Moves DEF WriteMarkPayment, At, Plain, Steps, Charging
    <2>2. OneRow /\ SetStatus(p, "succeeded")
      BY <1>9 DEF WriteMarkPayment
    <2> QED
      BY <1>3, <2>1, <2>2 DEF PaymentStatus
  <1>10. CASE WriteRefund(s)
    <2> DEFINE row == [payment[p] EXCEPT !.st = "refunded", !.amt = req[s].amt]
    <2>1. Exists(p) => row \in PaymentRow /\ row.inv = payment[p].inv /\ row.st # "none"
      BY <1>1 DEF Exists, IInv, TypeOK, PaymentRow, PaymentStatus
    <2>2. /\ payment' = IF Exists(p) THEN [payment EXCEPT ![p] = row] ELSE payment
          /\ OneRow /\ Return(s)
      BY <1>10 DEF WriteRefund
    <2> QED
      BY <1>2, <1>4, <2>1, <2>2
  <1>11. CASE WriteRetry(s) \/ WriteDelete(s)
    <2>1. PICK st \in {"pending", "deleted"} : SetStatus(p, st) /\ OneRow /\ Return(s)
      BY <1>11 DEF WriteRetry, WriteDelete
    <2> QED
      BY <1>2, <1>3, <2>1 DEF PaymentStatus
  <1>12. CASE MarkProcessing(s)
    <2> DEFINE r == [req[s] EXCEPT !.pc = "charge"]
    <2>1. SetStatus(p, "processing") /\ OneRow
      BY <1>12 DEF MarkProcessing
    <2>2. /\ r \in Request /\ r.pc = "charge" /\ r.inv = req[s].inv
          /\ r.pay = p /\ r.amt = req[s].amt
      BY <1>1 DEF Request, Steps
    <2>3. req' = [req EXCEPT ![s] = r] /\ req'[s] = r
      BY <1>12 DEF MarkProcessing, Goto, IInv, TypeOK
    <2>4. \A q \in PaymentIds : payment'[q].inv = payment[q].inv
      BY <2>1 DEF SetStatus, IInv, TypeOK
    <2>5. p \in 1..created => p \in PaymentIds
      BY ConstantsAssumption DEF IInv, TypeOK
    <2>6. RequestOK(s)'
      BY <1>1, <1>12, <2>1, <2>2, <2>3, <2>4, <2>5
         DEF RequestOK, MarkProcessing, At, Charging, KnowsResult, ledger
    <2> QED
      BY <1>3, <2>1, <2>2, <2>3, <2>6 DEF PaymentStatus
  <1>13. CASE ChargeResult(s)
    <2>1. req[s].res \in PaymentStatus
      BY <1>1, <1>13 DEF ChargeResult, At, RequestOK, KnowsResult, Results, PaymentStatus
    <2>2. SetStatus(p, req[s].res) /\ OneRow
      BY <1>13 DEF ChargeResult
    <2>3. CASE Return(s)
      BY <1>2, <1>3, <2>1, <2>2, <2>3
    <2>4. CASE ~Return(s)
      <3> DEFINE r == [req[s] EXCEPT !.pc = "mark_charged"]
      <3>1. req[s].res = "succeeded" /\ Goto(s, "mark_charged")
        BY <1>13, <2>4 DEF ChargeResult
      <3>2. /\ r \in Request /\ r.pc = "mark_charged"
            /\ r.inv = req[s].inv /\ r.pay = p
        BY <1>1 DEF Request, Steps, Charging
      <3>3. req' = [req EXCEPT ![s] = r] /\ req'[s] = r
        BY <3>1 DEF Goto, IInv, TypeOK
      <3>4. \A q \in PaymentIds : payment'[q].inv = payment[q].inv
        BY <2>2 DEF SetStatus, IInv, TypeOK
      <3>5. \A i \in Invoices : Charged(i) => Charged(i)'
        BY <2>2, <3>4 DEF Charged, provider, ledger
      <3>6. p \in 1..created => p \in PaymentIds
        BY ConstantsAssumption DEF IInv, TypeOK
      <3>7. RequestOK(s)'
        BY <1>1, <1>13, <2>2, <3>1, <3>2, <3>3, <3>4, <3>5, <3>6
           DEF RequestOK, ChargeResult, At, Charging, KnowsResult, ledger
      <3> QED
        BY <1>3, <2>1, <2>2, <3>2, <3>3, <3>7
    <2> QED
      BY <2>3, <2>4
  <1> QED
    BY <1>5, <1>6, <1>7, <1>8, <1>9, <1>10, <1>11, <1>12, <1>13

\* The steps that create a payment row.
LEMMA CreateSteps ==
    ASSUME IInv, NEW s \in Servers,
           CreateManual(s) \/ CreateCheckout(s) \/ CreateCharge(s)
    PROVE  IInv'
  <1> DEFINE i == req[s].inv
             q == created + 1
  <1>1. req[s] \in Request /\ i \in Invoices /\ RequestOK(s) /\ req[s].amt \in Nat
    BY DEF IInv, TypeOK, RequestOK, Request, CreateManual, CreateCheckout, CreateCharge, At
  <1>2. Total[i] \in Nat /\ fromWallet[i] \in Nat /\ created \in Nat
    BY <1>1, ConstantsAssumption DEF IInv, TypeOK
  <1>4. CASE CreateManual(s)
    <2>1. CreatePayment(s, i, req[s].amt, "mark_manual") /\ "mark_manual" \in Steps
      BY <1>4 DEF CreateManual, Steps
    <2>2. req'[s].pc = "mark_manual" /\ req'[s].inv = i
      BY <1>1, <1>2, <2>1 DEF CreatePayment, IInv, TypeOK
    <2>3. RequestOK(s)'
      BY <1>1, <2>2 DEF RequestOK, Charging, KnowsResult
    <2> QED
      BY <1>1, <1>4, <2>1, <2>3, CreateStep DEF CreateManual
  <1>5. CASE CreateCheckout(s)
    <2>1. CreatePayment(s, i, req[s].amt, "create_session") /\ "create_session" \in Steps
      BY <1>5 DEF CreateCheckout, Steps
    <2>2. /\ req'[s].pc = "create_session" /\ req'[s].inv = i
          /\ req'[s].pay \in 1..created' /\ payment'[req'[s].pay].inv = i
      BY <1>1, <1>2, <2>1 DEF CreatePayment, IInv, TypeOK
    <2>3. RequestOK(s)'
      BY <1>1, <2>2 DEF RequestOK, Charging, KnowsResult
    <2> QED
      BY <1>1, <1>5, <2>1, <2>3, CreateStep DEF CreateCheckout
  <1>6. CASE CreateCharge(s)
    <2> DEFINE a == Total[i] - req[s].amt
    <2>1. CreatePayment(s, i, a, "mark_processing") /\ "mark_processing" \in Steps
      BY <1>6 DEF CreateCharge, Steps, Charging
    <2>2. a \in Nat /\ a + fromWallet[i] >= Total[i]
      BY <1>1, <1>2, <1>6 DEF RequestOK, CreateCharge, At
    <2>3. UNCHANGED fromWallet
      BY <1>6 DEF CreateCharge, ledger
    <2>4. /\ req'[s].pc = "mark_processing" /\ req'[s].inv = i /\ req'[s].amt = a
          /\ req'[s].pay \in 1..created' /\ payment'[req'[s].pay].inv = i
      BY <1>1, <1>2, <2>1, <2>2 DEF CreatePayment, IInv, TypeOK
    <2>5. RequestOK(s)'
      BY <1>1, <2>2, <2>3, <2>4 DEF RequestOK, Charging, KnowsResult
    <2> QED
      BY <1>1, <1>6, <2>1, <2>2, <2>5, CreateStep DEF CreateCharge
  <1> QED
    BY <1>4, <1>5, <1>6

\* The steps that write the invoice.
LEMMA InvoiceSteps ==
    ASSUME IInv, NEW s \in Servers,
           \/ MarkPaid(s) \/ WriteFinalize(s) \/ SetPrepaid(s)
           \/ WriteDeclarePaid(s) \/ WriteVoid(s) \/ WriteDeleteInvoice(s)
    PROVE  IInv'
  <1> DEFINE i == req[s].inv
             Rest2 == UNCHANGED <<payment, created, ledger, wallet, provider, crashes>>
             Known == \E r \in Request : req' = [req EXCEPT ![s] = r] /\ RequestOK(s)'
  <1>1. /\ req[s] \in Request /\ i \in Invoices /\ RequestOK(s)
        /\ req[s].amt \in Nat /\ declared \in [Invoices -> BOOLEAN]
    BY DEF IInv, TypeOK, RequestOK, Request, MarkPaid, WriteFinalize, SetPrepaid, CoveredByWallet,
           WriteDeclarePaid, WriteVoid, WriteDeleteInvoice, At
  <1>2. Return(s) => Known
    BY Returns
  <1>3. ASSUME NEW row \in InvoiceRow, invoice' = [invoice EXCEPT ![i] = row],
               row.st = "paid" => \/ invoice[i].st = "paid" \/ declared'[i]
                                  \/ settled[i] >= Total[i] \/ Charged(i),
               declared' \in [Invoices -> BOOLEAN],
               \A j \in Invoices : declared[j] => declared'[j],
               row.prepaid <= fromWallet[i], Known, Rest2
        PROVE  IInv'
    <2>1. PICK r \in Request : req' = [req EXCEPT ![s] = r] /\ RequestOK(s)'
      BY <1>3
    <2> QED
      BY <1>1, <1>3, <2>1, InvoiceStep
  <1>4. ASSUME NEW st \in InvoiceStatus \cup {"deleted"}, SetInvoice(i, st),
               st = "paid" => declared'[i] \/ settled[i] >= Total[i] \/ Charged(i),
               declared' \in [Invoices -> BOOLEAN],
               \A j \in Invoices : declared[j] => declared'[j],
               Known, Rest2
        PROVE  IInv'
    <2> DEFINE row == [invoice[i] EXCEPT !.st = st]
    <2>1. row \in InvoiceRow /\ row.st = st /\ row.prepaid <= fromWallet[i]
      BY <1>1 DEF IInv, TypeOK, InvoiceRow
    <2>2. invoice' = [invoice EXCEPT ![i] = row]
      BY <1>4 DEF SetInvoice
    <2> QED
      BY <1>3, <1>4, <2>1, <2>2
  <1>5. CASE MarkPaid(s)
    <2>1. settled[i] >= Total[i] \/ Charged(i)
      BY <1>1, <1>5 DEF MarkPaid, At, RequestOK
    <2>2. SetInvoice(i, "paid") /\ Return(s) /\ Rest2 /\ UNCHANGED declared
      BY <1>5 DEF MarkPaid, history
    <2> QED
      BY <1>1, <1>2, <1>4, <2>1, <2>2 DEF InvoiceStatus
  <1>6. CASE WriteFinalize(s)
    <2>1. SetInvoice(i, "finalized") /\ Rest2 /\ UNCHANGED declared
      BY <1>6 DEF WriteFinalize, history
    <2>2. Known
      <3>1. CASE Return(s)
        BY <1>2, <3>1
      <3>2. CASE ~Return(s)
        <4> DEFINE r == [req[s] EXCEPT !.pc = "get_wallets", !.amt = invoice[i].prepaid]
        <4>1. invoice[i].prepaid \in Nat /\ invoice[i].prepaid <= fromWallet[i]
          BY <1>1 DEF IInv, TypeOK, InvoiceRow
        <4>2. /\ r \in Request /\ r.pc = "get_wallets" /\ r.inv = i
              /\ r.amt = invoice[i].prepaid
          BY <1>1, <4>1 DEF Request, Steps, Finalizing
        <4>3. req' = [req EXCEPT ![s] = r] /\ req'[s] = r
          BY <1>6, <3>2 DEF WriteFinalize, IInv, TypeOK
        <4>4. RequestOK(s)'
          BY <1>1, <2>1, <4>1, <4>2, <4>3 DEF RequestOK, Charging, KnowsResult, ledger
        <4> QED
          BY <4>2, <4>3, <4>4
      <3> QED
        BY <3>1, <3>2
    <2> QED
      BY <1>1, <1>4, <2>1, <2>2 DEF InvoiceStatus
  <1>7. CASE WriteDeclarePaid(s)
    <2>1. SetInvoice(i, "paid") /\ Return(s) /\ Rest2
      BY <1>7 DEF WriteDeclarePaid
    <2>2. /\ declared' \in [Invoices -> BOOLEAN] /\ declared'[i]
          /\ \A j \in Invoices : declared[j] => declared'[j]
      BY <1>1, <1>7 DEF WriteDeclarePaid
    <2> QED
      BY <1>2, <1>4, <2>1, <2>2 DEF InvoiceStatus
  <1>8. CASE WriteVoid(s)
    <2>1. SetInvoice(i, "voided") /\ Return(s) /\ Rest2 /\ UNCHANGED declared
      BY <1>8 DEF WriteVoid, history
    <2> QED
      BY <1>1, <1>2, <1>4, <2>1 DEF InvoiceStatus
  <1>9. CASE WriteDeleteInvoice(s)
    <2>1. Return(s) /\ Rest2 /\ UNCHANGED declared
      BY <1>9 DEF WriteDeleteInvoice, history
    <2>2. CASE UNCHANGED invoice
      <3>1. /\ invoice[i] \in InvoiceRow /\ invoice[i].prepaid <= fromWallet[i]
            /\ invoice' = [invoice EXCEPT ![i] = invoice[i]]
        BY <1>1, <2>2 DEF IInv, TypeOK
      <3> QED
        BY <1>1, <1>2, <1>3, <2>1, <3>1
    <2>3. CASE SetInvoice(i, "deleted")
      BY <1>1, <1>2, <1>4, <2>1, <2>3
    <2> QED
      BY <1>9, <2>2, <2>3 DEF WriteDeleteInvoice
  <1>10. CASE SetPrepaid(s)
    <2> DEFINE covered == req[s].amt >= Total[i]
               row == [st |-> IF covered THEN "paid" ELSE invoice[i].st,
                       prepaid |-> req[s].amt]
    <2>1. /\ req[s].amt <= fromWallet[i] /\ fromWallet[i] <= settled[i]
          /\ fromWallet[i] \in Nat /\ settled[i] \in Nat /\ Total[i] \in Nat
      BY <1>1, <1>10, ConstantsAssumption DEF SetPrepaid, At, RequestOK, IInv, TypeOK
    <2>2. covered => settled[i] >= Total[i]
      BY <1>1, <2>1
    <2>3. row \in InvoiceRow /\ row.prepaid <= fromWallet[i]
      BY <1>1, <2>1 DEF IInv, TypeOK, InvoiceRow, InvoiceStatus
    <2>4. invoice' = [invoice EXCEPT ![i] = row] /\ Rest2 /\ UNCHANGED declared
      BY <1>10 DEF SetPrepaid, CoveredByWallet, history
    <2>5. Known
      <3>1. CASE Return(s)
        BY <1>2, <3>1
      <3>2. CASE ~Return(s)
        <4> DEFINE r == [req[s] EXCEPT !.pc = "create_charge"]
        <4>1. /\ r \in Request /\ r.pc = "create_charge" /\ r.inv = i
              /\ r.amt = req[s].amt
          BY <1>1 DEF Request, Steps, Creating
        <4>2. req' = [req EXCEPT ![s] = r] /\ req'[s] = r
          BY <1>10, <3>2 DEF SetPrepaid, Goto, IInv, TypeOK
        <4>3. RequestOK(s)'
          BY <1>1, <1>10, <2>4, <4>1, <4>2
             DEF RequestOK, SetPrepaid, At, Charging, KnowsResult, ledger
        <4> QED
          BY <4>1, <4>2, <4>3
      <3> QED
        BY <3>1, <3>2
    <2> QED
      BY <1>1, <1>3, <2>2, <2>3, <2>4, <2>5
  <1> QED
    BY <1>5, <1>6, <1>7, <1>8, <1>9, <1>10

\* The steps that only move the process: decisions, reads, endings.
LEMMA ControlSteps ==
    ASSUME IInv, NEW s \in Servers,
           \/ CheckTotal(s) \/ GetWallets(s) \/ NoCharge(s) \/ MarkCharged(s)
           \/ InvoiceGone(s) \/ Crash(s)
    PROVE  IInv'
  <1> DEFINE i == req[s].inv
             Known == \E r \in Request : req' = [req EXCEPT ![s] = r] /\ RequestOK(s)'
  <1>1. /\ req[s] \in Request /\ RequestOK(s) /\ i \in Invoices
    BY DEF IInv, TypeOK, RequestOK, At, CheckTotal, GetWallets, NoCharge,
           MarkCharged, InvoiceGone, Creating, Crash
  <1>2. Return(s) => Known
    BY Returns
  <1>3. /\ UNCHANGED <<db, session, captured, declared>>
        /\ events' \subseteq [type : EventTypes, pay : PaymentIds]
        /\ crashes' \in 0..MaxCrashes
    BY ConstantsAssumption
       DEF CheckTotal, GetWallets, NoCharge, MarkCharged, InvoiceGone, Crash,
           provider, history, IInv, TypeOK
  <1>4. ASSUME NEW st \in {"mark_paid", "create_charge", "deduct_balance"},
               NEW a \in Nat, req' = [req EXCEPT ![s].pc = st, ![s].amt = a],
               st = "mark_paid" => settled[i] >= Total[i] \/ Charged(i),
               st = "create_charge" => a <= fromWallet[i]
        PROVE  Known
    <2> DEFINE r == [req[s] EXCEPT !.pc = st, !.amt = a]
    <2>1. r \in Request /\ r.pc = st /\ r.inv = i /\ r.amt = a
      BY <1>1 DEF Request, Steps, Creating, Finalizing
    <2>2. req' = [req EXCEPT ![s] = r] /\ req'[s] = r
      BY <1>4 DEF IInv, TypeOK
    <2>3. /\ UNCHANGED <<settled, fromWallet>>
          /\ \A j \in Invoices : Charged(j) => Charged(j)'
      BY <1>3 DEF Charged, db, ledger
    <2>4. Total[i] \in Nat /\ fromWallet[i] \in Nat
      BY <1>1, ConstantsAssumption DEF IInv, TypeOK
    <2>5. RequestOK(s)'
      <3>1. req'[s].inv = i /\ req'[s].pc = st /\ req'[s].amt = a
        BY <2>1, <2>2
      <3>2. CASE st = "mark_paid"
        BY <1>1, <1>4, <2>3, <3>1, <3>2 DEF RequestOK, Charging, KnowsResult
      <3>3. CASE st # "mark_paid"
        BY <1>1, <1>4, <2>3, <2>4, <3>1, <3>3 DEF RequestOK, Charging, KnowsResult
      <3> QED
        BY <3>2, <3>3
    <2> QED
      BY <2>1, <2>2, <2>5
  <1>5. Known
    <2>1. CASE Return(s)
      BY <1>2, <2>1
    <2>2. CASE GetWallets(s)
      <3>1. CASE wallet > 0
        BY <1>4, <2>2, <3>1 DEF GetWallets, IInv, TypeOK
      <3>2. CASE ~(wallet > 0)
        <4>1. req[s].amt \in Nat /\ req[s].amt <= fromWallet[i]
          BY <1>1, <2>2 DEF GetWallets, At, RequestOK, Request
        <4>2. req' = [req EXCEPT ![s].pc = "create_charge", ![s].amt = req[s].amt]
          BY <1>1, <2>2, <3>2 DEF GetWallets, Goto, Request, IInv, TypeOK
        <4> QED
          BY <1>4, <4>1, <4>2
      <3> QED
        BY <3>1, <3>2
    <2>3. CASE ~Return(s) /\ (CheckTotal(s) \/ MarkCharged(s))
      <3>1. Goto(s, "mark_paid") /\ (settled[i] >= Total[i] \/ Charged(i))
        BY <1>1, <2>3
           DEF CheckTotal, MarkCharged, FullySettled, RequestOK, At
      <3>2. req' = [req EXCEPT ![s].pc = "mark_paid", ![s].amt = req[s].amt]
        BY <1>1, <3>1 DEF Goto, Request, IInv, TypeOK
      <3>3. req[s].amt \in Nat
        BY <1>1 DEF Request
      <3> QED
        BY <1>4, <3>1, <3>2, <3>3
    <2> QED
      BY <2>1, <2>2, <2>3 DEF CheckTotal, MarkCharged, NoCharge, InvoiceGone, Crash
  <1>6. PICK r \in Request : req' = [req EXCEPT ![s] = r] /\ RequestOK(s)'
    BY <1>5
  <1> QED
    BY <1>3, <1>6, RequestStep

\* The steps of a handler that change what is settled or what the wallet has.
LEMMA LedgerSteps ==
    ASSUME IInv, NEW s \in Servers, Settle(s) \/ DeductBalance(s) \/ SettleWallet(s)
    PROVE  IInv'
  <1> USE DEF provider, history
  <1>1. /\ req[s] \in Request /\ RequestOK(s) /\ req[s].inv \in Invoices
        /\ req[s].amt \in Nat /\ req[s].pay \in PaymentIds \cup {NoPayment}
    BY DEF IInv, TypeOK, RequestOK, Request, At, Settle, DeductBalance, SettleWallet
  <1>2. PICK r \in Request : /\ req' = [req EXCEPT ![s] = r]
                             /\ r.inv = req[s].inv
                             /\ r.pc \in {"check_total", "settle_wallet", "set_prepaid"}
                             /\ r.pc = "set_prepaid" =>
                                  SettleWallet(s) /\ r.amt = req[s].amt
    <2>1. CASE Settle(s) \/ SettleWallet(s)
      <3> DEFINE st == IF At(s, "settle") THEN "check_total" ELSE "set_prepaid"
                 r == [req[s] EXCEPT !.pc = st]
      <3>1. /\ r \in Request /\ r.pc = st /\ r.inv = req[s].inv /\ r.amt = req[s].amt
        BY <1>1 DEF Request, Steps, Finalizing
      <3>2. req' = [req EXCEPT ![s] = r]
        BY <2>1 DEF Settle, SettleWallet, At, Goto
      <3>3. Settle(s) <=> st = "check_total"
        BY <2>1 DEF Settle, SettleWallet, At
      <3> QED
        BY <2>1, <3>1, <3>2, <3>3
    <2>2. CASE DeductBalance(s)
      <3> DEFINE consumed == Consumable(req[s].amt, req[s].inv)
                 r == [req[s] EXCEPT !.pc = "settle_wallet", !.amt = consumed]
      <3>1. consumed \in Nat /\ consumed <= Total[req[s].inv]
        BY <1>1, ConstantsAssumption DEF Consumable
      <3>2. /\ r \in Request /\ r.pc = "settle_wallet" /\ r.inv = req[s].inv
            /\ r.amt = consumed
        BY <1>1, <3>1 DEF Request, Steps, Finalizing
      <3>3. req' = [req EXCEPT ![s] = r]
        BY <2>2 DEF DeductBalance
      <3> QED
        BY <3>1, <3>2, <3>3
    <2> QED
      BY <2>1, <2>2
  <1>3. req'[s] = r /\ \A t \in Servers \ {s} : req'[t] = req[t]
    BY <1>2 DEF IInv, TypeOK
  <1>4. UNCHANGED <<invoice, payment, created, session, captured, events, declared, crashes>>
    BY DEF Settle, DeductBalance, SettleWallet
  <1>5. /\ settled' \in [Invoices -> Nat] /\ fromWallet' \in [Invoices -> Nat]
        /\ \A i \in Invoices : settled[i] <= settled'[i] /\ fromWallet[i] <= fromWallet'[i]
        /\ \A i \in Invoices : invoice'[i].prepaid <= fromWallet'[i] /\ fromWallet'[i] <= settled'[i]
    <2> USE DEF InvoiceRow
    <2>1. CASE Settle(s)
      BY <1>1, <2>1 DEF Settle, IInv, TypeOK
    <2>2. CASE DeductBalance(s)
      BY <2>2 DEF DeductBalance, ledger, IInv, TypeOK
    <2>3. CASE SettleWallet(s)
      <3>1. /\ settled' = [settled EXCEPT ![req[s].inv] = @ + req[s].amt]
            /\ fromWallet' = [fromWallet EXCEPT ![req[s].inv] = @ + req[s].amt]
            /\ invoice' = invoice
        BY <2>3 DEF SettleWallet, WalletSettlement
      <3>2. /\ settled \in [Invoices -> Nat] /\ fromWallet \in [Invoices -> Nat]
            /\ invoice \in [Invoices -> InvoiceRow]
            /\ \A i \in Invoices : invoice[i].prepaid <= fromWallet[i]
                                  /\ fromWallet[i] <= settled[i]
        BY DEF IInv, TypeOK
      <3> QED
        BY <1>1, <3>1, <3>2
    <2> QED
      BY <2>1, <2>2, <2>3
  <1>6. settledBy' \in [PaymentIds -> Nat]
    BY <1>1 DEF Settle, DeductBalance, SettleWallet, ledger, IInv, TypeOK
  <1>7. wallet' \in Nat
    BY <1>1, ConstantsAssumption DEF Settle, DeductBalance, SettleWallet, Consumable, IInv, TypeOK
  <1>8. TypeOK'
    BY <1>2, <1>4, <1>5, <1>6, <1>7 DEF IInv, TypeOK
  <1>9. Grows
    <2>1. \A i \in Invoices : Charged(i) => Charged(i)'
      <3>1. /\ created <= created'
            /\ \A p \in 1..created : payment'[p].inv = payment[p].inv
            /\ \A p \in PaymentIds : captured[p] <= captured'[p]
        BY <1>4, <1>8, ConstantsAssumption DEF TypeOK
      <3> QED
        BY <1>5, <1>8, <3>1, ChargedGrows DEF IInv
    <2> QED
      BY <1>4, <1>5, <2>1 DEF Grows, IInv, TypeOK
  <1>10. \A p \in PaymentIds : RowOK(p)'
    BY <1>4 DEF IInv, RowOK
  <1>11. RequestOK(s)'
    <2>1. SettleWallet(s) => req[s].amt <= fromWallet'[req[s].inv]
      BY <1>1 DEF SettleWallet, WalletSettlement, IInv, TypeOK
    <2> QED
      BY <1>1, <1>2, <1>3, <2>1 DEF RequestOK, Charging, KnowsResult
  <1> QED
    BY <1>3, <1>4, <1>5, <1>8, <1>9, <1>10, <1>11, Step DEF IInv

\* The steps that talk to the provider: the money and the sessions.
LEMMA ProviderSteps ==
    ASSUME IInv, NEW s \in Servers, CreateSession(s) \/ Charge(s)
    PROVE  IInv'
  <1> DEFINE p == req[s].pay
             i == req[s].inv
             Known == \E r \in Request : req' = [req EXCEPT ![s] = r] /\ RequestOK(s)'
  <1>1. /\ req[s] \in Request /\ RequestOK(s) /\ i \in Invoices
        /\ p \in 1..created /\ p \in PaymentIds /\ payment[p].inv = i
        /\ req[s].amt \in Nat
    <2>1. req[s] \in Request /\ RequestOK(s) /\ i \in Invoices /\ p \in 1..created
          /\ payment[p].inv = i
      BY DEF IInv, TypeOK, RequestOK, At, CreateSession, Charge, Charging
    <2> QED
      BY <2>1, ConstantsAssumption DEF IInv, TypeOK, Request
  <1>2. UNCHANGED <<invoice, payment, created, settled, settledBy, fromWallet, wallet,
                    declared, crashes>>
    BY DEF CreateSession, Charge, db, ledger, history
  <1>3. /\ session' \in [PaymentIds -> {"none", "open", "waiting", "closed"}]
        /\ \A q \in PaymentIds : session'[q] \in {"open", "waiting"} =>
              session[q] \in {"open", "waiting"} \/ q = p
    BY <1>1 DEF CreateSession, Charge, IInv, TypeOK
  <1>4. events' \subseteq [type : EventTypes, pay : PaymentIds]
    BY <1>1 DEF CreateSession, Charge, IInv, TypeOK, EventTypes
  <1>5. \/ UNCHANGED captured
        \/ Charge(s) /\ captured' = [captured EXCEPT ![p] = req[s].amt]
    BY DEF CreateSession, Charge
  <1>6. /\ captured' \in [PaymentIds -> Nat]
        /\ \A j \in Invoices : Charged(j) => Charged(j)'
        /\ captured' # captured => \A j \in Invoices : j = i => Charged(j)'
    <2>1. CASE UNCHANGED captured
      BY <1>2, <2>1 DEF Charged, IInv, TypeOK
    <2>2. CASE Charge(s) /\ captured' = [captured EXCEPT ![p] = req[s].amt]
      <3>1. req[s].amt + fromWallet[i] >= Total[i]
        BY <1>1, <2>2 DEF Charge, At, RequestOK
      <3>2. captured'[p] = req[s].amt /\ captured' \in [PaymentIds -> Nat]
        BY <1>1, <2>2 DEF IInv, TypeOK
      <3>3. ASSUME NEW j \in Invoices, j = i PROVE Charged(j)'
        BY <1>1, <1>2, <3>1, <3>2, <3>3 DEF Charged
      <3>4. ASSUME NEW j \in Invoices, j # i, Charged(j) PROVE Charged(j)'
        <4>1. PICK q \in PaymentIds :
                payment[q].inv = j /\ captured[q] + fromWallet[j] >= Total[j]
          BY <3>4 DEF Charged
        <4>2. q # p /\ captured'[q] = captured[q]
          BY <1>1, <2>2, <3>4, <4>1 DEF IInv, TypeOK
        <4> QED
          BY <1>2, <4>1, <4>2 DEF Charged
      <3> QED
        BY <3>2, <3>3, <3>4
    <2> QED
      BY <1>5, <2>1, <2>2
  <1>7. TypeOK'
    <2>1. req' \in [Servers -> Request]
      <3>1. PICK r : req' = [req EXCEPT ![s] = r] /\ r \in Request
        <4>1. CASE Return(s)
          BY <4>1, Returns
        <4>2. CASE ~Return(s) /\ CreateSession(s)
          <5>1. PICK st \in Steps : Goto(s, st)
            BY <4>2 DEF CreateSession, Steps
          <5>2. [req[s] EXCEPT !.pc = st] \in Request
            BY <1>1 DEF Request
          <5>3. req' = [req EXCEPT ![s] = [req[s] EXCEPT !.pc = st]]
            BY <5>1 DEF Goto, IInv, TypeOK
          <5> QED
            BY <5>2, <5>3
        <4>3. CASE ~Return(s) /\ Charge(s)
          <5>1. PICK res \in Results :
                  req' = [req EXCEPT ![s].pc = "set_charge_id", ![s].res = res]
            BY <4>3 DEF Charge, Results
          <5>2. [req[s] EXCEPT !.pc = "set_charge_id", !.res = res] \in Request
            BY <1>1 DEF Request, Steps, Charging
          <5>3. req' = [req EXCEPT ![s] =
                          [req[s] EXCEPT !.pc = "set_charge_id", !.res = res]]
            BY <5>1 DEF IInv, TypeOK
          <5> QED
            BY <5>2, <5>3
        <4> QED
          BY <4>1, <4>2, <4>3
      <3> QED
        BY <3>1 DEF IInv, TypeOK
    <2> QED
      BY <1>2, <1>3, <1>4, <1>6, <2>1 DEF IInv, TypeOK
  <1>8. Grows
    BY <1>2, <1>6 DEF Grows, IInv, TypeOK
  <1>9. \A q \in PaymentIds : RowOK(q)'
    BY <1>1, <1>2, <1>3 DEF IInv, RowOK
  <1>10. \A t \in Servers \ {s} : req'[t] = req[t]
    BY DEF CreateSession, Charge, Goto, Return, IInv, TypeOK
  <1>11. RequestOK(s)'
    <2>1. CASE Return(s)
      BY <2>1, Returns
    <2>2. CASE CreateSession(s) /\ ~Return(s)
      <3>1. req'[s].inv = i /\ req'[s].pc \in {"set_checkout", "delete_payment"}
        BY <1>1, <2>2 DEF CreateSession, Goto, IInv, TypeOK, Request
      <3> QED
        BY <1>1, <3>1 DEF RequestOK, Charging, KnowsResult
    <2>3. CASE Charge(s) /\ ~Return(s)
      <3>1. /\ req'[s].inv = i /\ req'[s].pay = p /\ req'[s].pc = "set_charge_id"
            /\ \/ req'[s].res = "succeeded"
                  /\ captured' = [captured EXCEPT ![p] = req[s].amt]
               \/ req'[s].res = "failed"
        BY <1>1, <2>3 DEF Charge, IInv, TypeOK, Request
      <3>2. req'[s].res = "succeeded" => \A j \in Invoices : j = i => Charged(j)'
        <4> SUFFICES ASSUME captured' = [captured EXCEPT ![p] = req[s].amt],
                            NEW j \in Invoices, j = i
                     PROVE  Charged(j)'
          BY <3>1
        <4>1. req[s].amt + fromWallet[j] >= Total[j]
          BY <1>1, <2>3 DEF Charge, At, RequestOK
        <4> QED
          BY <1>1, <1>2, <4>1 DEF Charged, IInv, TypeOK
      <3> QED
        BY <1>1, <1>2, <3>1, <3>2 DEF RequestOK, Charging, KnowsResult
    <2> QED
      BY <2>1, <2>2, <2>3
  <1>12. /\ \A j \in Invoices : invoice'[j].prepaid <= fromWallet'[j] /\ fromWallet'[j] <= settled'[j]
         /\ \A j \in Invoices : declared[j] => declared'[j]
         /\ \A j \in Invoices : invoice'[j].st = "paid" => invoice[j].st = "paid"
    BY <1>2 DEF IInv
  <1> QED
    BY <1>7, <1>8, <1>9, <1>10, <1>11, <1>12, Step

\* Whatever step a handler takes.
LEMMA ContinueStep ==
    ASSUME IInv, NEW s \in Servers, Continue(s) PROVE IInv'
  BY PaymentSteps, CreateSteps, InvoiceSteps, ControlSteps, LedgerSteps, ProviderSteps
     DEF Continue

\* Whatever the customer does: paying covers the invoice.
LEMMA CustomerStep ==
    ASSUME IInv, NEW p \in PaymentIds, Customer(p) PROVE IInv'
  <1> USE DEF db, ledger, history
  <1>1. p \in 1..created /\ payment[p].inv \in Invoices
        /\ Total[payment[p].inv] \in Nat
    <2>1. session[p] \in {"open", "waiting"}
      BY DEF Customer, CustomerWaits, CustomerPays, CustomerDeclined, SessionExpires
    <2>2. RowOK(p) /\ created \in Nat /\ p \in Nat /\ p >= 1
      BY ConstantsAssumption DEF IInv, TypeOK
    <2>3. p \in 1..created /\ payment[p].inv \in Invoices
      BY <2>1, <2>2 DEF RowOK
    <2> QED
      BY <2>3, ConstantsAssumption
  <1>2. UNCHANGED <<db, req, history>>
    BY DEF Customer, CustomerWaits, CustomerPays, CustomerDeclined, SessionExpires
  <1>3. /\ session' \in [PaymentIds -> {"none", "open", "waiting", "closed"}]
        /\ \A q \in PaymentIds : session'[q] \in {"open", "waiting"} =>
              session[q] \in {"open", "waiting"}
        /\ events' \subseteq [type : EventTypes, pay : PaymentIds]
    <2>1. CASE CustomerPays(p)
      BY <2>1 DEF CustomerPays, IInv, TypeOK, EventTypes
    <2>2. CASE CustomerDeclined(p)
      BY <2>2 DEF CustomerDeclined, IInv, TypeOK, EventTypes
    <2>3. CASE SessionExpires(p)
      BY <2>3 DEF SessionExpires, IInv, TypeOK, EventTypes
    <2>4. CASE CustomerWaits(p)
      BY <2>4 DEF CustomerWaits, IInv, TypeOK, EventTypes
    <2> QED
      BY <2>1, <2>2, <2>3, <2>4 DEF Customer
  <1>4. \/ UNCHANGED captured
        \/ captured' = [captured EXCEPT ![p] = Total[payment[p].inv]]
    BY DEF Customer, CustomerWaits, CustomerPays, CustomerDeclined, SessionExpires
  <1>5. TypeOK'
    BY <1>1, <1>2, <1>3, <1>4 DEF IInv, TypeOK
  <1>6. ASSUME NEW i \in Invoices, Charged(i) PROVE Charged(i)'
    <2>1. PICK q \in PaymentIds :
            payment[q].inv = i /\ captured[q] + fromWallet[i] >= Total[i]
      BY <1>6 DEF Charged
    <2>2. captured'[q] = captured[q] \/ captured'[q] = Total[i]
      BY <1>4, <2>1 DEF IInv, TypeOK
    <2>3. fromWallet[i] \in Nat /\ Total[i] \in Nat
      BY ConstantsAssumption DEF IInv, TypeOK
    <2> QED
      BY <1>2, <2>1, <2>2, <2>3 DEF Charged
  <1>7. Grows
    BY <1>2, <1>6 DEF Grows, IInv, TypeOK
  <1>8. PaidIsCovered'
    BY <1>2, <1>5, <1>7, StaysCovered DEF IInv
  <1>9. \A t \in Servers : RequestOK(t)'
    BY <1>2, <1>5, <1>7, Others DEF IInv
  <1>10. \A q \in PaymentIds : RowOK(q)'
    BY <1>2, <1>3 DEF IInv, RowOK
  <1> QED
    BY <1>2, <1>5, <1>8, <1>9, <1>10 DEF IInv

\* The tables start empty and the processes idle.
LEMMA InitInvariant == Init => IInv
  <1> SUFFICES ASSUME Init PROVE IInv
    OBVIOUS
  <1>1. Idle \in Request /\ Idle.pc = "idle"
    BY DEF Idle, Request, Steps, Results
  <1>2. TypeOK
    BY <1>1, ConstantsAssumption
       DEF Init, TypeOK, InvoiceRow, InvoiceStatus, PaymentRow, PaymentStatus
  <1>3. \A p \in PaymentIds : RowOK(p)
    BY ConstantsAssumption DEF Init, RowOK
  <1>4. \A s \in Servers : RequestOK(s)
    BY <1>1 DEF Init, RequestOK, Charging, KnowsResult
  <1>5. \A i \in Invoices : /\ invoice[i].prepaid <= fromWallet[i]
                            /\ fromWallet[i] <= settled[i] /\ invoice[i].st # "paid"
    BY DEF Init
  <1> QED
    BY <1>2, <1>3, <1>4, <1>5 DEF IInv, PaidIsCovered

\* Every step of the system keeps the invariant.
LEMMA NextInvariant == IInv /\ [Next]_vars => IInv'
  <1> SUFFICES ASSUME IInv, [Next]_vars PROVE IInv'
    OBVIOUS
  <1>1. ASSUME NEW s \in Servers, Arrive(s) PROVE IInv'
    BY <1>1, ArriveStep
  <1>2. ASSUME NEW s \in Servers, Continue(s) PROVE IInv'
    BY <1>2, ContinueStep
  <1>3. ASSUME NEW s \in Servers, Crash(s) PROVE IInv'
    BY <1>3, ControlSteps
  <1>4. ASSUME NEW s \in Servers, NEW e \in events, Delivery(s, e) PROVE IInv'
    BY <1>4, DeliveryStep
  <1>5. ASSUME NEW p \in PaymentIds, Customer(p) PROVE IInv'
    BY <1>5, CustomerStep
  <1>6. CASE UNCHANGED vars
    <2>1. \A i \in Invoices : Charged(i)' <=> Charged(i)
      BY <1>6 DEF vars, Charged
    <2>2. PaidIsCovered'
      BY <1>6, <2>1 DEF vars, IInv, PaidIsCovered
    <2>3. \A p \in PaymentIds : RowOK(p)'
      BY <1>6 DEF vars, IInv, RowOK
    <2>4. \A s \in Servers : RequestOK(s)'
      BY <1>6, <2>1 DEF vars, IInv, RequestOK
    <2>5. TypeOK'
      BY <1>6 DEF vars, IInv, TypeOK
    <2> QED
      BY <1>6, <2>2, <2>3, <2>4, <2>5 DEF vars, IInv
  <1> QED
    BY <1>1, <1>2, <1>3, <1>4, <1>5, <1>6 DEF Next, Rest

\* The inductive invariant of the settlement of invoices: what the tables
\* promise each other and what each handler knows, whatever interleaves.
THEOREM Invariant == Spec => []IInv
  BY InitInvariant, NextInvariant, PTL DEF Spec

\* Type correctness: the tables, the handlers and the provider hold values of
\* their types for any number of processes, invoices and payments.
THEOREM TypeCorrect == Spec => []TypeOK
  <1>1. IInv => TypeOK
    BY DEF IInv
  <1> QED
    BY <1>1, Invariant, PTL

\* No interleaving of handlers, webhooks, retries, refunds and crashes marks
\* an invoice PAID for money that did not arrive.
THEOREM PaidCovered == Spec => []PaidIsCovered
  <1>1. IInv => PaidIsCovered
    BY DEF IInv
  <1> QED
    BY <1>1, Invariant, PTL

-----------------------------------------------------------------------------
(* One API process. *)

HIDE DEF PaymentIds
USE DEF Steps

\* What a handler's step does to the request of its process.
LEMMA Requests ==
    ASSUME IInv, NEW s \in Servers
    PROVE  /\ req[s].pc # "idle" => req[s].inv \in Invoices
           /\ Return(s) => req'[s].pc = "idle" /\ req'[s].pay = NoPayment
           /\ \A step : Goto(s, step) =>
                /\ req'[s].pc = step /\ req'[s].inv = req[s].inv
                /\ req'[s].pay = req[s].pay /\ req'[s].amt = req[s].amt
           /\ \A step, i, p, a, res : Begin(s, step, i, p, a, res) =>
                /\ req'[s].pc = step /\ req'[s].inv = i
                /\ req'[s].pay = p /\ req'[s].amt = a
           /\ \A i, a, step : CreatePayment(s, i, a, step) =>
                /\ req'[s].pc = step /\ req'[s].inv = i
                /\ req'[s].pay = created + 1 /\ req'[s].amt = a
  <1>1. req \in [Servers -> Request]
    BY DEF IInv, TypeOK
  <1> QED
    BY <1>1 DEF IInv, RequestOK, Return, Goto, Begin, CreatePayment, Idle, Request

\* A handler's step keeps the invoice of every payment row, but for the row
\* that it creates for its own invoice.
LEMMA Rows ==
    ASSUME IInv, NEW s \in Servers, Continue(s)
    PROVE  /\ \A p \in PaymentIds :
                \/ payment'[p].inv = payment[p].inv
                \/ /\ p = created + 1 /\ req[s].pc \in Creating
                   /\ payment'[p].inv = req[s].inv
           /\ \A p \in 1..created : p \in PaymentIds /\ payment'[p].inv = payment[p].inv
  <1>1. /\ payment \in [PaymentIds -> PaymentRow]
        /\ created \in 0..MaxPayments /\ MaxPayments \in Nat
    BY ConstantsAssumption DEF IInv, TypeOK
  <1>2. ASSUME NEW p, NEW st, SetStatus(p, st), NEW q \in PaymentIds
        PROVE  payment'[q].inv = payment[q].inv
    BY <1>1, <1>2 DEF SetStatus, Exists, PaymentRow
  <1>3. ASSUME CreateManual(s) \/ CreateCheckout(s) \/ CreateCharge(s), NEW q \in PaymentIds
        PROVE  \/ payment'[q].inv = payment[q].inv
               \/ q = created + 1 /\ req[s].pc \in Creating /\ payment'[q].inv = req[s].inv
    <2>1. req[s].pc \in Creating /\ \E a, step : CreatePayment(s, req[s].inv, a, step)
      BY <1>3 DEF CreateManual, CreateCheckout, CreateCharge, At, Creating
    <2> QED
      BY <1>1, <2>1 DEF CreatePayment, PaymentRow
  <1>4. ASSUME SetCheckout(s) \/ SetPaymentId(s) \/ SetChargeId(s) \/ WriteRefund(s),
               NEW q \in PaymentIds
        PROVE  payment'[q].inv = payment[q].inv
    <2>1. CASE SetCheckout(s) \/ SetPaymentId(s) \/ SetChargeId(s)
      BY <1>1, <2>1 DEF SetCheckout, SetPaymentId, SetChargeId, Exists, PaymentRow
    <2>2. CASE WriteRefund(s)
      BY <1>1, <2>2 DEF WriteRefund, Exists, PaymentRow
    <2> QED
      BY <1>4, <2>1, <2>2
  <1>5. \/ \E p, st : SetStatus(p, st)
        \/ CreateManual(s) \/ CreateCheckout(s) \/ CreateCharge(s)
        \/ SetCheckout(s) \/ SetPaymentId(s) \/ WriteRefund(s) \/ SetChargeId(s)
        \/ UNCHANGED payment
    <2>1. CASE \/ MarkManual(s) \/ Webhook(s) \/ WriteMarkPayment(s) \/ WriteRetry(s)
               \/ WriteDelete(s) \/ MarkProcessing(s) \/ ChargeResult(s)
      BY <2>1 DEF MarkManual, Webhook, WriteMarkPayment, WriteRetry, WriteDelete,
                  MarkProcessing, ChargeResult
    <2>2. CASE \/ Settle(s) \/ CheckTotal(s) \/ MarkPaid(s) \/ CreateSession(s)
               \/ WriteFinalize(s) \/ GetWallets(s) \/ DeductBalance(s) \/ SettleWallet(s)
               \/ SetPrepaid(s) \/ NoCharge(s) \/ Charge(s) \/ MarkCharged(s)
               \/ WriteDeclarePaid(s) \/ WriteVoid(s) \/ WriteDeleteInvoice(s) \/ InvoiceGone(s)
      BY <2>2 DEF Settle, CheckTotal, MarkPaid, CreateSession, WriteFinalize, GetWallets,
                  DeductBalance, SettleWallet, SetPrepaid, NoCharge, Charge, MarkCharged,
                  WriteDeclarePaid, WriteVoid, WriteDeleteInvoice, InvoiceGone, db
    <2> QED
      BY <2>1, <2>2 DEF Continue
  <1>6. \A p \in PaymentIds :
           \/ payment'[p].inv = payment[p].inv
           \/ p = created + 1 /\ req[s].pc \in Creating /\ payment'[p].inv = req[s].inv
    BY <1>2, <1>3, <1>4, <1>5
  <1>7. ASSUME NEW p \in 1..created PROVE p \in PaymentIds /\ payment'[p].inv = payment[p].inv
    <2>1. p \in PaymentIds /\ p # created + 1
      BY <1>1 DEF PaymentIds
    <2> QED
      BY <1>6, <2>1
  <1> QED
    BY <1>6, <1>7

\* A new payment's row belonged to no invoice.
LEMMA NewRow ==
    ASSUME IInv, NEW s \in Servers, NEW i, NEW a, NEW step, CreatePayment(s, i, a, step)
    PROVE  /\ created \in Nat /\ created + 1 \in PaymentIds
           /\ payment[created + 1].inv = NoInvoice /\ payment[created + 1].st = "none"
           /\ payment' = [payment EXCEPT ![created + 1] =
                            [st |-> "pending", inv |-> i, amt |-> a,
                             url |-> FALSE, pid |-> FALSE]]
           /\ payment'[created + 1].inv = i /\ payment'[created + 1].st = "pending"
  BY DEF CreatePayment, IInv, TypeOK, RowOK


\* With one process, a step of a handler keeps what the handler read.
LEMMA HoldContinue ==
    ASSUME OneServer, IInv, HoldInv, NEW s \in Servers, Continue(s)
    PROVE  HoldInv'
  <1> DEFINE i == req[s].inv
             p == req[s].pay
  <1>1. SUFFICES StillHolds(s)'
    BY DEF OneServer, HoldInv
  <1>2. /\ req[s] \in Request /\ StillHolds(s)
        /\ p \in PaymentIds \cup {NoPayment}
        /\ payment \in [PaymentIds -> PaymentRow] /\ invoice \in [Invoices -> InvoiceRow]
    BY DEF IInv, TypeOK, HoldInv, Request
  <1>3. Return(s) => StillHolds(s)'
    BY Requests DEF Idle, StillHolds, Creating, ReadsDraft, ReadsFinalized
  <1>4. CASE CreateManual(s) \/ CreateCheckout(s) \/ CreateCharge(s)
    <2>1. PICK a \in Nat, step \in {"mark_manual", "create_session", "mark_processing"} :
            CreatePayment(s, i, a, step)
      <3>1. req[s].amt \in Nat /\ i \in Invoices
        BY <1>2, <1>4, Requests
           DEF CreateManual, CreateCheckout, CreateCharge, At, Request
      <3>2. Total[i] \in Nat
        BY <3>1, ConstantsAssumption
      <3>3. CreateCharge(s) => Total[i] - req[s].amt \in Nat
        BY <3>1, <3>2 DEF CreateCharge
      <3> QED
        BY <1>4, <3>1, <3>3 DEF CreateManual, CreateCheckout, CreateCharge
    <2>2. /\ req'[s].pc = step /\ req'[s].inv = i /\ req'[s].pay = created + 1
      BY <2>1, Requests
    <2>3. /\ created + 1 \in PaymentIds
          /\ payment'[created + 1].inv = i /\ payment'[created + 1].st = "pending"
      BY <2>1, NewRow
    <2> QED
      BY <2>2, <2>3 DEF StillHolds, Exists, PaymentStatus, Creating, ReadsDraft, ReadsFinalized
  <1>5. CASE MarkManual(s)
    BY <1>2, <1>5, Requests
       DEF MarkManual, SetStatus, At, StillHolds, Exists, PaymentStatus, Creating, ReadsDraft, ReadsFinalized, Request, PaymentRow
  <1>6. CASE Settle(s) \/ SettleWallet(s)
    BY <1>2, <1>6, Requests
       DEF Settle, SettleWallet, At, StillHolds, Exists, Creating, ReadsDraft, ReadsFinalized, Request
  <1>7. CASE CheckTotal(s) \/ MarkCharged(s)
    BY <1>2, <1>3, <1>7, Requests
       DEF CheckTotal, MarkCharged, At, StillHolds, Exists, Creating, ReadsDraft, ReadsFinalized, Request, db
  <1>8. CASE CreateSession(s)
    BY <1>2, <1>3, <1>8, Requests
       DEF CreateSession, At, StillHolds, Exists, Creating, ReadsDraft, ReadsFinalized, Request, db
  <1>9. CASE SetPaymentId(s)
    BY <1>2, <1>9, Requests
       DEF SetPaymentId, At, StillHolds, Exists, Creating, ReadsDraft, ReadsFinalized, Request, PaymentRow
  <1>10. CASE Webhook(s)
    <2>1. CASE ~Return(s)
      <3>1. /\ SetStatus(p, "succeeded") /\ Exists(p) /\ UNCHANGED invoice
            /\ req' = [req EXCEPT ![s].pc = "settle", ![s].amt = payment[p].amt]
        BY <1>10, <2>1 DEF Webhook, Settles
      <3> QED
        BY <1>2, <3>1
           DEF SetStatus, StillHolds, Exists, Creating, ReadsDraft, ReadsFinalized, Request,
               PaymentRow, PaymentStatus, IInv, TypeOK
    <2> QED
      BY <1>3, <2>1
  <1>11. CASE WriteMarkPayment(s)
    BY <1>2, <1>3, <1>11, Requests
       DEF WriteMarkPayment, SetStatus, At, StillHolds, Exists, Creating, ReadsDraft, ReadsFinalized, Request, PaymentRow, PaymentStatus
  <1>12. CASE WriteFinalize(s)
    <2>1. CASE Return(s)
      BY <1>3, <2>1
    <2>2. CASE ~Return(s)
      <3>1. /\ i \in Invoices /\ invoice'[i].st = "finalized" /\ payment' = payment
        BY <1>2, <1>12, Requests DEF WriteFinalize, SetInvoice, At, InvoiceRow
      <3>2. req'[s].pc = "get_wallets" /\ req'[s].inv = i /\ req'[s].pay = p
        BY <1>12, <2>2 DEF WriteFinalize, IInv, TypeOK, Request
      <3> QED
        BY <1>2, <3>1, <3>2 DEF StillHolds, Creating, ReadsDraft, ReadsFinalized
    <2> QED
      BY <2>1, <2>2
  <1>13. CASE GetWallets(s) \/ DeductBalance(s)
    BY <1>2, <1>13
       DEF GetWallets, DeductBalance, db, Goto, At, StillHolds, Exists, Creating, ReadsDraft, ReadsFinalized, Request, IInv, TypeOK
  <1>14. CASE SetPrepaid(s)
    BY <1>2, <1>3, <1>14, Requests
       DEF SetPrepaid, CoveredByWallet, At, StillHolds, Exists, Creating, ReadsDraft, ReadsFinalized, Request, InvoiceRow, IInv, TypeOK, RequestOK
  <1>15. CASE MarkProcessing(s) \/ ChargeResult(s)
    BY <1>2, <1>3, <1>15, Requests
       DEF MarkProcessing, ChargeResult, SetStatus, At, StillHolds, Exists, Creating, ReadsDraft, ReadsFinalized, Request, PaymentRow, PaymentStatus
  <1>16. CASE Charge(s)
    BY <1>2, <1>3, <1>16
       DEF Charge, db, At, StillHolds, Exists, Creating, ReadsDraft, ReadsFinalized, Request, IInv, TypeOK
  <1>17. CASE SetChargeId(s)
    BY <1>2, <1>17, Requests
       DEF SetChargeId, At, StillHolds, Exists, Creating, ReadsDraft, ReadsFinalized, Request, PaymentRow
  <1>18. CASE Return(s)
    BY <1>3, <1>18
  <1> QED
    BY <1>4, <1>5, <1>6, <1>7, <1>8, <1>9, <1>10, <1>11, <1>12, <1>13, <1>14, <1>15, <1>16, <1>17, <1>18
       DEF Continue, MarkPaid, SetCheckout, WriteRefund, WriteRetry, WriteDelete, NoCharge, WriteDeclarePaid, WriteVoid, WriteDeleteInvoice, InvoiceGone
\* With one process, whatever else happens leaves alone what a handler read.
LEMMA HoldNext ==
    ASSUME OneServer, IInv, HoldInv, [Next]_vars
    PROVE  HoldInv'
  <1>1. ASSUME NEW s \in Servers, StillHolds(s)' PROVE HoldInv'
    BY <1>1 DEF OneServer, HoldInv
  <1>2. ASSUME NEW s \in Servers, NEW step \in Steps, NEW i, NEW p, NEW a, NEW res,
               Begin(s, step, i, p, a, res), UNCHANGED db,
               p # NoPayment => payment[p].inv = i,
               step \notin {"mark_manual", "settle"},
               step \in ReadsDraft => invoice[i].st = "draft",
               step \in ReadsFinalized => invoice[i].st = "finalized",
               step = "void" => invoice[i].st \in {"draft", "finalized", "voided"}
        PROVE  HoldInv'
    <2>1. req'[s].pc = step /\ req'[s].inv = i /\ req'[s].pay = p
      BY <1>2, Requests
    <2>2. StillHolds(s)'
      BY <1>2, <2>1 DEF StillHolds, db
    <2> QED
      BY <1>1, <2>2
  <1>3. ASSUME UNCHANGED <<db, req>> PROVE HoldInv'
    BY <1>3 DEF HoldInv, StillHolds, Exists, db
  <1>4. ASSUME NEW s \in Servers, Arrive(s) PROVE HoldInv'
    <2> USE DEF ReadsDraft, ReadsFinalized, Creating, Finalizing
    <2>1. ASSUME NEW i \in Invoices, NEW st \in PutStatuses, UpdateInvoice(s, i, st)
          PROVE  StillHolds(s)'
      BY <2>1 DEF UpdateInvoice, At, HoldInv, StillHolds
    <2>2. ASSUME NEW i \in Invoices,
                 \/ \E a \in Amounts : RecordManual(s, i, a)
                 \/ Checkout(s, i) \/ Finalize(s, i) \/ BulkFinalize(s, i)
                 \/ DeclarePaid(s, i) \/ Void(s, i) \/ DeleteInvoice(s, i)
          PROVE  HoldInv'
      <3>1. PICK step \in {"create_manual", "create_checkout", "finalize", "bulk_finalize",
                            "declare_paid", "void", "delete_invoice"}, a \in Nat :
              /\ Begin(s, step, i, NoPayment, a, "none") /\ UNCHANGED db
              /\ step \in ReadsDraft => invoice[i].st = "draft"
              /\ step \in ReadsFinalized => invoice[i].st = "finalized"
              /\ step = "void" => invoice[i].st \in {"draft", "finalized", "voided"}
        BY <2>2, ConstantsAssumption
           DEF RecordManual, Checkout, Finalize, BulkFinalize, DeclarePaid, Void, DeleteInvoice,
               Payable, Finalizable, Voidable, InvoiceStatus
      <3> QED
        BY <1>2, <3>1
    <2>3. ASSUME NEW p \in PaymentIds,
                 \/ \E a \in Amounts \cup {0} : Refund(s, p, a)
                 \/ MarkPaymentPaid(s, p) \/ Retry(s, p) \/ DeletePayment(s, p)
          PROVE  HoldInv'
      <3>1. PICK step \in {"mark_refunded", "mark_payment", "retry", "delete_payment"} :
              (\E a : Begin(s, step, payment[p].inv, p, a, "none")) /\ UNCHANGED db
        BY <2>3 DEF Refund, MarkPaymentPaid, Retry, DeletePayment, Operate
      <3> QED
        BY <1>2, <3>1
    <2> QED
      BY <1>1, <1>4, <2>1, <2>2, <2>3 DEF Arrive
  <1>5. ASSUME NEW s \in Servers, NEW e \in events, Delivery(s, e) PROVE HoldInv'
    <2>1. CASE Ignore(s, e)
      BY <1>3, <2>1 DEF Ignore
    <2>2. CASE Receive(s, e)
      <3>1. PICK step \in {"set_payment_id", "webhook"} :
              /\ Begin(s, step, payment[e.pay].inv, e.pay, payment[e.pay].amt, ResultOf(e))
              /\ UNCHANGED db
        BY <2>2 DEF Receive
      <3> QED
        BY <1>2, <3>1 DEF ReadsDraft, ReadsFinalized, Creating
    <2> QED
      BY <1>5, <2>1, <2>2 DEF Delivery
  <1>6. ASSUME NEW s \in Servers, Crash(s) PROVE HoldInv'
    <2>1. req'[s].pc = "idle" /\ req'[s].pay = NoPayment
      BY <1>6, Requests DEF Crash
    <2>2. StillHolds(s)'
      BY <2>1 DEF StillHolds, ReadsDraft, ReadsFinalized, Creating
    <2> QED
      BY <1>1, <2>2
  <1>7. ASSUME NEW p \in PaymentIds, Customer(p) PROVE HoldInv'
    BY <1>3, <1>7 DEF Customer, CustomerWaits, CustomerPays, CustomerDeclined, SessionExpires
  <1>8. CASE UNCHANGED vars
    BY <1>3, <1>8 DEF vars, db, ledger
  <1> QED
    BY <1>4, <1>5, <1>6, <1>7, <1>8, HoldContinue DEF Next, Rest

\* With one API process, what a handler read of its invoice and its payment is
\* still so when it writes.
THEOREM ReadsStillHold ==
    ASSUME OneServer PROVE Spec => []HoldInv
  <1>1. Init => HoldInv
    BY DEF Init, HoldInv, StillHolds, Idle, ReadsDraft, ReadsFinalized, Creating
  <1>2. IInv /\ HoldInv /\ [Next]_vars => HoldInv'
    BY HoldNext
  <1> QED
    BY <1>1, <1>2, Invariant, PTL DEF Spec

\* What arrives at an idle process writes no table, but for a PUT.
LEMMA ArriveWrites ==
    ASSUME NEW s \in Servers, Arrive(s)
    PROVE  /\ UNCHANGED <<payment, created, ledger, wallet, provider, crashes>>
           /\ \/ UNCHANGED <<invoice, declared>>
                /\ \E step \in Steps : \E i, p, a : Begin(s, step, i, p, a, "none")
              \/ \E i \in Invoices, st \in PutStatuses : UpdateInvoice(s, i, st)
  <1>1. ASSUME NEW i \in Invoices, NEW st \in PutStatuses, UpdateInvoice(s, i, st)
        PROVE  UNCHANGED <<payment, created, ledger, wallet, provider, crashes>>
    BY <1>1 DEF UpdateInvoice
  <1>2. ASSUME NEW i \in Invoices,
               \/ \E a \in Amounts : RecordManual(s, i, a)
               \/ Checkout(s, i) \/ Finalize(s, i) \/ BulkFinalize(s, i)
               \/ DeclarePaid(s, i) \/ Void(s, i) \/ DeleteInvoice(s, i)
        PROVE  /\ UNCHANGED <<db, provider, history>>
               /\ \E step \in Steps : \E j, p, a : Begin(s, step, j, p, a, "none")
    BY <1>2 DEF RecordManual, Checkout, Finalize, BulkFinalize, DeclarePaid, Void, DeleteInvoice,
                Creating, Finalizing
  <1>3. ASSUME NEW p \in PaymentIds,
               \/ \E a \in Amounts \cup {0} : Refund(s, p, a)
               \/ MarkPaymentPaid(s, p) \/ Retry(s, p) \/ DeletePayment(s, p)
        PROVE  /\ UNCHANGED <<db, provider, history>>
               /\ \E step \in Steps : \E j, q, a : Begin(s, step, j, q, a, "none")
    BY <1>3 DEF Refund, MarkPaymentPaid, Retry, DeletePayment, Operate
  <1> QED
    BY <1>1, <1>2, <1>3 DEF Arrive, db, history

\* Which steps of a handler write the ledger, the invoices and the provider.
LEMMA ContinueWrites ==
    ASSUME NEW s \in Servers, Continue(s)
    PROVE  /\ UNCHANGED crashes
           /\ UNCHANGED ledger \/ Settle(s) \/ SettleWallet(s)
           /\ \/ UNCHANGED <<invoice, declared>>
              \/ MarkPaid(s) \/ WriteFinalize(s) \/ SetPrepaid(s)
              \/ WriteDeclarePaid(s) \/ WriteVoid(s) \/ WriteDeleteInvoice(s)
           /\ UNCHANGED captured \/ Charge(s)
           /\ UNCHANGED session \/ CreateSession(s)
           /\ \/ UNCHANGED created
              \/ CreateManual(s) \/ CreateCheckout(s) \/ CreateCharge(s)
  <1> USE DEF db, provider, history, ledger
  <1>1. CASE \/ CreateManual(s) \/ MarkManual(s) \/ Settle(s) \/ CheckTotal(s) \/ MarkPaid(s)
             \/ CreateCheckout(s) \/ CreateSession(s) \/ SetCheckout(s)
             \/ SetPaymentId(s) \/ Webhook(s)
    BY <1>1 DEF CreateManual, MarkManual, Settle, CheckTotal, MarkPaid, CreateCheckout,
                CreateSession, SetCheckout, SetPaymentId, Webhook
  <1>2. CASE \/ WriteMarkPayment(s) \/ WriteRefund(s) \/ WriteRetry(s) \/ WriteDelete(s)
             \/ WriteFinalize(s) \/ GetWallets(s) \/ DeductBalance(s)
             \/ SettleWallet(s) \/ SetPrepaid(s)
    BY <1>2 DEF WriteMarkPayment, WriteRefund, WriteRetry, WriteDelete, WriteFinalize,
                GetWallets, DeductBalance, SettleWallet, SetPrepaid
  <1>3. CASE \/ NoCharge(s) \/ CreateCharge(s) \/ MarkProcessing(s) \/ Charge(s)
             \/ SetChargeId(s) \/ ChargeResult(s) \/ MarkCharged(s)
             \/ WriteDeclarePaid(s) \/ WriteVoid(s) \/ WriteDeleteInvoice(s) \/ InvoiceGone(s)
    BY <1>3 DEF NoCharge, CreateCharge, MarkProcessing, Charge, SetChargeId, ChargeResult,
                MarkCharged, WriteDeclarePaid, WriteVoid, WriteDeleteInvoice, InvoiceGone
  <1> QED
    BY <1>1, <1>2, <1>3 DEF Continue

\* Which steps of the system do.
LEMMA NextWrites ==
    ASSUME [Next]_vars
    PROVE  \/ \E s \in Servers : Continue(s)
           \/ /\ UNCHANGED <<payment, created, ledger, wallet>>
              /\ \/ UNCHANGED invoice
                 \/ \E s \in Servers, i \in Invoices, st \in PutStatuses : UpdateInvoice(s, i, st)
  <1>1. ASSUME NEW s \in Servers, NEW e \in events, Delivery(s, e) PROVE UNCHANGED db
    BY <1>1 DEF Delivery, Receive, Ignore
  <1>2. ASSUME NEW p \in PaymentIds, Customer(p) PROVE UNCHANGED db
    BY <1>2 DEF Customer, CustomerWaits, CustomerPays, CustomerDeclined, SessionExpires
  <1>3. ASSUME NEW s \in Servers, Crash(s) PROVE UNCHANGED db
    BY <1>3 DEF Crash
  <1>4. CASE UNCHANGED vars
    BY <1>4 DEF vars, ledger
  <1> QED
    BY <1>1, <1>2, <1>3, <1>4, ArriveWrites DEF Next, Rest, db

\* With one API process, no webhook, redelivery, refund or retry has a payment
\* settled that is not SUCCEEDED.
THEOREM SettledSucceeded ==
    ASSUME OneServer PROVE Spec => SettlesWhatSucceeded
  <1>1. IInv /\ HoldInv /\ [Next]_vars =>
          \A p \in PaymentIds : settledBy'[p] > settledBy[p] => payment[p].st = "succeeded"
    <2> SUFFICES ASSUME IInv, HoldInv, [Next]_vars, NEW p \in PaymentIds,
                        settledBy'[p] > settledBy[p]
                 PROVE  payment[p].st = "succeeded"
      OBVIOUS
    <2>1. settledBy \in [PaymentIds -> Nat]
      BY DEF IInv, TypeOK
    <2>2. PICK s \in Servers : Settle(s)
      BY <2>1, NextWrites, ContinueWrites DEF ledger, SettleWallet
    <2>3. p = req[s].pay
      BY <2>1, <2>2 DEF Settle
    <2> QED
      BY <2>2, <2>3 DEF Settle, At, HoldInv, StillHolds
  <1> QED
    BY <1>1, ReadsStillHold, Invariant, PTL DEF Spec, SettlesWhatSucceeded

\* With one API process, nothing but a PUT reopens an invoice that is PAID or
\* VOIDED, or turns one into the other.
THEOREM ClosedStays ==
    ASSUME OneServer PROVE Spec => ClosedIsFinal
  <1>1. IInv /\ HoldInv /\ [Next]_vars =>
          \A i \in Invoices : invoice[i].st \in {"paid", "voided"}
              => invoice'[i].st = invoice[i].st \/ ByPut
    <2> SUFFICES ASSUME IInv, HoldInv, [Next]_vars, ~ByPut, NEW i \in Invoices,
                        invoice[i].st \in {"paid", "voided"}
                 PROVE  invoice'[i].st = invoice[i].st
      OBVIOUS
    <2>1. CASE UNCHANGED invoice
      BY <2>1
    <2>2. CASE ~UNCHANGED invoice
      <3>1. PICK s \in Servers :
              \/ MarkPaid(s) \/ WriteFinalize(s) \/ SetPrepaid(s)
              \/ WriteDeclarePaid(s) \/ WriteVoid(s) \/ WriteDeleteInvoice(s)
        BY <2>2, NextWrites, ContinueWrites DEF ByPut
      <3>2. req[s].inv = i => invoice[i].st = "voided" /\ WriteVoid(s)
        BY <3>1 DEF MarkPaid, WriteFinalize, SetPrepaid, WriteDeclarePaid, WriteVoid,
                    WriteDeleteInvoice, At, HoldInv, StillHolds, ReadsDraft, ReadsFinalized
      <3>3. invoice \in [Invoices -> InvoiceRow]
        BY DEF IInv, TypeOK
      <3> QED
        BY <3>1, <3>2, <3>3
           DEF MarkPaid, WriteFinalize, SetPrepaid, WriteDeclarePaid, WriteVoid,
               WriteDeleteInvoice, SetInvoice, InvoiceRow
    <2> QED
      BY <2>1, <2>2
  <1> QED
    BY <1>1, ReadsStillHold, Invariant, PTL DEF Spec, ClosedIsFinal

\* Nothing arrives at a process that runs a handler; and which handler's step
\* is next where an invoice is about to be PAID.
LEMMA NextStep ==
    ASSUME NEW s \in Servers
    PROVE  /\ Arrive(s) => req[s].pc = "idle"
           /\ \A e : Delivery(s, e) => req[s].pc = "idle"
           /\ Continue(s) =>
                /\ req[s].pc # "idle"
                /\ req[s].pc = "check_total" => CheckTotal(s)
                /\ req[s].pc = "mark_paid" => MarkPaid(s)
                /\ req[s].pc = "set_prepaid" =>
                     SetPrepaid(s) \/ invoice[req[s].inv].st = "deleted"
  <1>1. Arrive(s) => req[s].pc = "idle"
    BY DEF Arrive, RecordManual, Checkout, Finalize, BulkFinalize, DeclarePaid, Void,
           DeleteInvoice, UpdateInvoice, Refund, MarkPaymentPaid, Retry, DeletePayment,
           Operate, Begin, At
  <1>2. \A e : Delivery(s, e) => req[s].pc = "idle"
    BY DEF Delivery, Receive, Ignore, Begin, At
  <1>3. CASE \/ CreateManual(s) \/ MarkManual(s) \/ Settle(s) \/ CheckTotal(s) \/ MarkPaid(s)
             \/ CreateCheckout(s) \/ CreateSession(s) \/ SetCheckout(s)
             \/ SetPaymentId(s) \/ Webhook(s) \/ WriteMarkPayment(s) \/ WriteRefund(s)
             \/ WriteRetry(s) \/ WriteDelete(s)
    BY <1>1, <1>2, <1>3
       DEF CreateManual, MarkManual, Settle, CheckTotal, MarkPaid, CreateCheckout,
           CreateSession, SetCheckout, SetPaymentId, Webhook, WriteMarkPayment,
           WriteRefund, WriteRetry, WriteDelete, At
  <1>4. CASE \/ WriteFinalize(s) \/ GetWallets(s) \/ DeductBalance(s) \/ SettleWallet(s)
             \/ SetPrepaid(s) \/ NoCharge(s) \/ CreateCharge(s) \/ MarkProcessing(s)
             \/ Charge(s) \/ SetChargeId(s) \/ ChargeResult(s) \/ MarkCharged(s)
             \/ WriteDeclarePaid(s) \/ WriteVoid(s) \/ WriteDeleteInvoice(s)
    BY <1>1, <1>2, <1>4
       DEF WriteFinalize, GetWallets, DeductBalance, SettleWallet, SetPrepaid, NoCharge,
           CreateCharge, MarkProcessing, Charge, SetChargeId, ChargeResult, MarkCharged,
           WriteDeclarePaid, WriteVoid, WriteDeleteInvoice, At
  <1>5. CASE InvoiceGone(s)
    BY <1>1, <1>2, <1>5 DEF InvoiceGone, Creating
  <1> QED
    BY <1>1, <1>2, <1>3, <1>4, <1>5 DEF Continue

\* Only a charge adds to what the default payment method paid of an invoice.
LEMMA MethodStep ==
    ASSUME IInv, \A p \in PaymentIds : captured[p] > 0 => p <= created,
           NEW s \in Servers, Continue(s)
    PROVE  /\ \A j \in Invoices : \A p \in ByMethod(j)' :
                p \in ByMethod(j) \/ (Charge(s) /\ p = req[s].pay /\ j = req[s].inv)
           /\ \A p \in PaymentIds : captured'[p] > 0 => p <= created'
  <1>1. /\ captured \in [PaymentIds -> Nat] /\ created \in Nat /\ created' \in Nat
        /\ created' >= created /\ session \in [PaymentIds -> {"none", "open", "waiting", "closed"}]
        /\ \A p \in PaymentIds : p \in Nat /\ p >= 1
    <2>1. created \in Nat /\ MaxPayments \in Nat
      BY ConstantsAssumption DEF IInv, TypeOK
    <2>2. created' = created \/ created' = created + 1
      BY ContinueWrites DEF CreateManual, CreateCheckout, CreateCharge, CreatePayment
    <2>3. \A p \in PaymentIds : p \in Nat /\ p >= 1
      BY <2>1 DEF PaymentIds
    <2> QED
      BY <2>1, <2>2, <2>3 DEF IInv, TypeOK
  <1>2. Charge(s) =>
          /\ req[s].pay \in 1..created /\ req[s].pay \in PaymentIds
          /\ payment' = payment /\ payment[req[s].pay].inv = req[s].inv
    <2> SUFFICES ASSUME Charge(s)
                 PROVE  /\ req[s].pay \in 1..created /\ req[s].pay \in PaymentIds
                        /\ payment' = payment /\ payment[req[s].pay].inv = req[s].inv
      OBVIOUS
    <2>1. /\ req[s].pay \in 1..created /\ payment[req[s].pay].inv = req[s].inv
          /\ payment' = payment
      BY DEF Charge, At, IInv, RequestOK, Charging, db
    <2> QED
      BY <2>1, Rows
  <1>3. ASSUME NEW p \in PaymentIds, captured'[p] > 0
        PROVE  captured[p] > 0 \/ (Charge(s) /\ p = req[s].pay)
    <2>1. CASE UNCHANGED captured
      BY <1>3, <2>1
    <2>2. CASE captured' = [captured EXCEPT ![req[s].pay] = req[s].amt] /\ Charge(s)
      BY <1>1, <1>3, <2>2
    <2> QED
      BY <2>1, <2>2, ContinueWrites DEF Charge
  <1>4. ASSUME NEW p \in PaymentIds, captured'[p] > 0
        PROVE  p \in 1..created /\ p <= created'
    <2>1. p \in 1..created
      <3>1. CASE captured[p] > 0
        BY <1>1, <3>1
      <3>2. CASE Charge(s) /\ p = req[s].pay
        BY <1>2, <3>2
      <3> QED
        BY <1>3, <1>4, <3>1, <3>2
    <2> QED
      BY <1>1, <2>1
  <1>5. ASSUME NEW p \in PaymentIds, session'[p] = "none" PROVE session[p] = "none"
    BY <1>1, <1>5, ContinueWrites DEF CreateSession
  <1>6. ASSUME NEW j \in Invoices, NEW p \in ByMethod(j)'
        PROVE  p \in ByMethod(j) \/ (Charge(s) /\ p = req[s].pay /\ j = req[s].inv)
    <2>1. p \in PaymentIds /\ payment'[p].inv = j /\ session'[p] = "none" /\ captured'[p] > 0
      BY DEF ByMethod
    <2>2. payment[p].inv = j /\ session[p] = "none"
      BY <1>4, <1>5, <2>1, Rows
    <2> QED
      BY <1>2, <1>3, <2>1, <2>2 DEF ByMethod
  <1> QED
    BY <1>4, <1>6

\* With one process, a step of a handler finds the account of its invoice as
\* the handler left it.
LEMMA AccountContinue ==
    ASSUME OneServer, IInv, HoldInv, AccountInv, NEW s \in Servers, Continue(s)
    PROVE  AccountInv'
  <1> DEFINE i == req[s].inv
             BeforeCharge == Finalizing \cup {"create_charge", "mark_processing", "charge"}
             BeforeWallet == {"get_wallets", "deduct_balance", "settle_wallet"}
  <1>1. req[s].pc # "idle"
    BY NextStep
  <1>2. /\ i \in Invoices /\ StillHolds(s) /\ AccountOf(s) /\ Account(i)
        /\ req \in [Servers -> Request] /\ invoice \in [Invoices -> InvoiceRow]
        /\ settled \in [Invoices -> Nat] /\ fromWallet \in [Invoices -> Nat]
        /\ req[s].amt \in Nat
    BY <1>1, Requests DEF IInv, TypeOK, HoldInv, AccountInv, Request
  <1>3. /\ \A j \in Invoices : \A p \in ByMethod(j)' :
             p \in ByMethod(j) \/ (Charge(s) /\ p = req[s].pay /\ j = i)
        /\ \A p \in PaymentIds : captured'[p] > 0 => p <= created'
    BY MethodStep DEF AccountInv
  \* At the steps before the charge, nothing was charged.
  <1>4. ASSUME NEW j \in Invoices, NEW p \in ByMethod(j)', NEW q \in ByMethod(j)'
        PROVE  p = q
    <2>1. Charge(s) => ByMethod(i) = {}
      BY <1>2 DEF Charge, At, AccountOf
    <2> QED
      BY <1>3, <2>1 DEF AccountInv, Account
  \* A draft's account stays empty: the handlers that write one hold an invoice
  \* that is no draft.
  <1>5. ASSUME NEW j \in Invoices, invoice'[j].st \in {"draft", "deleted"}
        PROVE  /\ settled'[j] = 0 /\ fromWallet'[j] = 0 /\ invoice'[j].prepaid = 0
               /\ \A p \in PaymentIds : payment'[p].inv # j
    <2>1. invoice[j].st \in {"draft", "deleted"} /\ invoice'[j].prepaid = invoice[j].prepaid
      <3>1. CASE UNCHANGED invoice
        BY <1>5, <3>1
      <3>2. CASE MarkPaid(s) \/ WriteFinalize(s) \/ WriteDeclarePaid(s) \/ WriteVoid(s)
        <4>1. j # i
          BY <1>2, <1>5, <3>2 DEF MarkPaid, WriteFinalize, WriteDeclarePaid, WriteVoid,
                                  SetInvoice, InvoiceRow
        <4> QED
          BY <1>2, <1>5, <3>2, <4>1
             DEF MarkPaid, WriteFinalize, WriteDeclarePaid, WriteVoid, SetInvoice
      <3>3. CASE WriteDeleteInvoice(s)
        BY <1>2, <1>5, <3>3
           DEF WriteDeleteInvoice, At, SetInvoice, InvoiceRow, StillHolds, ReadsDraft
      <3>4. CASE SetPrepaid(s)
        <4>1. j # i
          BY <1>2, <1>5, <3>4 DEF SetPrepaid, At, StillHolds, ReadsFinalized, InvoiceRow
        <4> QED
          BY <1>2, <1>5, <3>4, <4>1 DEF SetPrepaid
      <3> QED
        BY <3>1, <3>2, <3>3, <3>4, ContinueWrites
    <2>2. /\ settled[j] = 0 /\ fromWallet[j] = 0 /\ invoice[j].prepaid = 0
          /\ \A p \in PaymentIds : payment[p].inv # j
      BY <2>1 DEF AccountInv, Account
    <2>3. req[s].pc \in {"settle", "settle_wallet"} \cup Creating => j # i
      BY <1>2, <2>1, <2>2 DEF StillHolds, Exists, ReadsFinalized, PaymentIds
    <2>4. settled'[j] = settled[j] /\ fromWallet'[j] = fromWallet[j]
      BY <1>2, <2>3, ContinueWrites DEF Settle, SettleWallet, At, ledger
    <2>5. \A p \in PaymentIds : payment'[p].inv # j
      BY <2>2, <2>3, Rows
    <2> QED
      BY <2>1, <2>2, <2>4, <2>5
  \* The prepaid credit follows the wallet's settlement.
  <1>6. ASSUME NEW j \in Invoices, crashes' = 0, invoice'[j].prepaid # fromWallet'[j]
        PROVE  req'[s].pc = "set_prepaid" /\ req'[s].inv = j
    <2>1. crashes = 0
      BY <1>6, ContinueWrites
    <2>2. CASE SettleWallet(s)
      <3>1. req'[s].pc = "set_prepaid" /\ req'[s].inv = i
        BY <2>2, Requests DEF SettleWallet
      <3>2. CASE j # i
        <4>1. UNCHANGED <<invoice, fromWallet>> \/ fromWallet'[j] = fromWallet[j]
          BY <1>2, <2>2, <3>2 DEF SettleWallet
        <4> QED
          BY <1>2, <1>6, <2>1, <2>2, <4>1 DEF SettleWallet, At, AccountInv, Account, OneServer
      <3> QED
        BY <3>1, <3>2
    <2>3. CASE SetPrepaid(s)
      <3>1. invoice'[i].prepaid = fromWallet'[i]
        BY <1>2, <2>3 DEF SetPrepaid, At, AccountOf, ledger, InvoiceRow
      <3>2. CASE j # i
        <4>1. invoice'[j] = invoice[j] /\ fromWallet'[j] = fromWallet[j]
          BY <1>2, <2>3, <3>2 DEF SetPrepaid, ledger
        <4> QED
          BY <1>6, <2>1, <3>2, <4>1 DEF AccountInv, Account, OneServer
      <3> QED
        BY <1>6, <3>1, <3>2
    <2>4. CASE ~SettleWallet(s) /\ ~SetPrepaid(s)
      <3>1. req[s].pc # "set_prepaid"
        BY <1>2, <2>4, NextStep DEF StillHolds, ReadsFinalized
      <3>2. UNCHANGED fromWallet /\ invoice'[j].prepaid = invoice[j].prepaid
        <4>1. UNCHANGED fromWallet
          BY <2>4, ContinueWrites DEF Settle, ledger
        <4>2. CASE UNCHANGED invoice
          BY <4>1, <4>2
        <4>3. ASSUME NEW st, SetInvoice(i, st) PROVE invoice'[j].prepaid = invoice[j].prepaid
          BY <1>2, <4>3 DEF SetInvoice, InvoiceRow
        <4>4. CASE \/ MarkPaid(s) \/ WriteFinalize(s) \/ WriteDeclarePaid(s) \/ WriteVoid(s)
                   \/ WriteDeleteInvoice(s)
          BY <4>1, <4>3, <4>4
             DEF MarkPaid, WriteFinalize, WriteDeclarePaid, WriteVoid, WriteDeleteInvoice
        <4> QED
          BY <2>4, <4>1, <4>2, <4>4, ContinueWrites
      <3> QED
        BY <1>6, <2>1, <3>1, <3>2 DEF AccountInv, Account, OneServer
    <2> QED
      BY <2>2, <2>3, <2>4
  <1>7. AccountOf(s)'
    <2> USE DEF Finalizing
    <2>1. Return(s) => req'[s].pc = "idle"
      BY Requests
    <2>2. CASE \/ (WriteFinalize(s) /\ ~Return(s))
               \/ GetWallets(s) \/ DeductBalance(s) \/ SettleWallet(s)
               \/ (SetPrepaid(s) /\ ~Return(s))
               \/ CreateCharge(s) \/ MarkProcessing(s)
      <3>1. /\ req[s].pc \in BeforeCharge \ {"charge"}
            /\ req'[s].inv = i
        <4>1. CASE WriteFinalize(s) /\ ~Return(s)
          BY <1>2, <4>1 DEF WriteFinalize, At, Request
        <4>2. CASE GetWallets(s) \/ DeductBalance(s)
          BY <1>2, <4>2, Requests DEF GetWallets, DeductBalance, At, Request
        <4>3. CASE SettleWallet(s) \/ (SetPrepaid(s) /\ ~Return(s)) \/ MarkProcessing(s)
          BY <4>3, Requests DEF SettleWallet, SetPrepaid, MarkProcessing, At
        <4>4. CASE CreateCharge(s)
          BY <4>4, Requests DEF CreateCharge, At
        <4> QED
          BY <2>2, <4>1, <4>2, <4>3, <4>4
      <3>2. \A j \in Invoices : j = i => ByMethod(j)' = {}
        <4>1. ByMethod(i) = {} /\ ~Charge(s)
          BY <1>2, <3>1 DEF AccountOf, Charge, At
        <4> QED
          BY <1>3, <4>1
      <3>3. /\ req'[s].pc \in BeforeWallet =>
                 settled'[i] = 0 /\ fromWallet'[i] = 0
            /\ req'[s].pc = "set_prepaid" => settled'[i] = req'[s].amt /\ fromWallet'[i] = req'[s].amt
        <4>1. CASE WriteFinalize(s) /\ ~Return(s)
          <5>1. invoice[i].st = "draft" /\ req'[s].pc = "get_wallets"
            BY <1>2, <4>1 DEF WriteFinalize, At, StillHolds, ReadsDraft, Request
          <5>2. UNCHANGED <<settled, fromWallet>>
            BY <4>1 DEF WriteFinalize, ledger
          <5> QED
            BY <1>2, <3>1, <5>1, <5>2 DEF Account
        <4>2. CASE GetWallets(s) \/ DeductBalance(s)
          <5>1. /\ UNCHANGED <<settled, fromWallet>>
                /\ req[s].pc \in {"get_wallets", "deduct_balance"}
                /\ req'[s].pc # "set_prepaid"
            BY <1>2, <4>2, Requests DEF GetWallets, DeductBalance, At, db, ledger, Request
          <5> QED
            BY <1>2, <3>1, <5>1 DEF AccountOf
        <4>3. CASE SettleWallet(s)
          <5>1. /\ req[s].pc = "settle_wallet" /\ req'[s].pc = "set_prepaid"
                /\ req'[s].amt = req[s].amt
                /\ settled' = [settled EXCEPT ![req[s].inv] = @ + req[s].amt]
                /\ fromWallet' = [fromWallet EXCEPT ![req[s].inv] = @ + req[s].amt]
            BY <4>3, Requests DEF SettleWallet, WalletSettlement, At
          <5>2. settled[req[s].inv] = 0 /\ fromWallet[req[s].inv] = 0
            BY <1>2, <5>1 DEF AccountOf
          <5> QED
            BY <1>2, <3>1, <5>1, <5>2
        <4>4. CASE (SetPrepaid(s) /\ ~Return(s)) \/ MarkProcessing(s) \/ CreateCharge(s)
          <5>1. req'[s].pc \in {"create_charge", "charge", "mark_processing"}
            BY <4>4, Requests DEF SetPrepaid, MarkProcessing, CreateCharge
          <5> QED
            BY <5>1
        <4> QED
          BY <2>2, <4>1, <4>2, <4>3, <4>4
      <3> QED
        BY <1>2, <3>1, <3>2, <3>3 DEF AccountOf, ByMethod
    <2>3. CASE \/ CreateManual(s) \/ MarkManual(s) \/ Settle(s) \/ CheckTotal(s)
               \/ CreateCheckout(s) \/ CreateSession(s) \/ SetPaymentId(s)
               \/ Webhook(s) \/ WriteMarkPayment(s) \/ Charge(s) \/ SetChargeId(s)
               \/ ChargeResult(s) \/ MarkCharged(s)
      <3>1. req'[s].pc \notin BeforeCharge
        <4>1. CASE \/ CreateManual(s) \/ MarkManual(s) \/ Settle(s) \/ CheckTotal(s)
                   \/ CreateCheckout(s) \/ CreateSession(s) \/ SetPaymentId(s)
          BY <2>1, <4>1, Requests
             DEF CreateManual, MarkManual, Settle, CheckTotal, CreateCheckout, CreateSession,
                 SetPaymentId
        <4>2. CASE WriteMarkPayment(s) \/ SetChargeId(s) \/ ChargeResult(s) \/ MarkCharged(s)
          BY <2>1, <4>2, Requests
             DEF WriteMarkPayment, SetChargeId, ChargeResult, MarkCharged
        <4>3. CASE Webhook(s)
          BY <1>2, <2>1, <4>3 DEF Webhook, Request
        <4>4. CASE Charge(s)
          BY <1>2, <2>1, <4>4 DEF Charge, Request
        <4> QED
          BY <2>3, <4>1, <4>2, <4>3, <4>4
      <3> QED
        BY <3>1 DEF AccountOf
    <2>4. CASE Return(s)
      BY <2>1, <2>4 DEF AccountOf
    <2> QED
      BY <2>2, <2>3, <2>4
         DEF Continue, MarkPaid, SetCheckout, WriteRefund, WriteRetry, WriteDelete, NoCharge,
             WriteDeclarePaid, WriteVoid, WriteDeleteInvoice, InvoiceGone
  <1>8. \A t \in Servers : AccountOf(t)'
    BY <1>7 DEF OneServer
  <1>9. \A j \in Invoices : Account(j)'
    BY <1>4, <1>5, <1>6 DEF Account
  <1> QED
    BY <1>3, <1>8, <1>9 DEF AccountInv

\* An account none of whose rows changes, while no process that finalizes moves.
LEMMA AccountKept ==
    ASSUME IInv, AccountInv, UNCHANGED <<payment, ledger, created>>, crashes' >= crashes,
           \A j \in Invoices : ByMethod(j)' \subseteq ByMethod(j),
           \A p \in PaymentIds : captured'[p] > 0 => p <= created,
           \A j \in Invoices :
             /\ invoice'[j].prepaid = invoice[j].prepaid
             /\ invoice'[j].st \in {"draft", "deleted"} => invoice[j].st \in {"draft", "deleted"},
           \A j \in Invoices, s \in Servers : crashes' = 0 /\ req[s].pc = "set_prepaid" =>
             req'[s].pc = "set_prepaid" /\ req'[s].inv = req[s].inv,
           \A s \in Servers : AccountOf(s)'
    PROVE  AccountInv'
  <1>1. crashes \in Nat /\ (crashes' = 0 => crashes = 0)
    BY ConstantsAssumption DEF IInv, TypeOK
  <1>2. ASSUME NEW j \in Invoices PROVE Account(j)'
    <2>1. Account(j)
      BY DEF AccountInv
    <2>2. \A p, q \in ByMethod(j)' : p = q
      BY <2>1 DEF Account
    <2>3. crashes' = 0 /\ invoice'[j].prepaid # fromWallet'[j] =>
            \E s \in Servers : req'[s].pc = "set_prepaid" /\ req'[s].inv = j
      BY <1>1, <2>1 DEF Account, ledger
    <2>4. invoice'[j].st \in {"draft", "deleted"} =>
            /\ settled'[j] = 0 /\ fromWallet'[j] = 0 /\ invoice'[j].prepaid = 0
            /\ \A p \in PaymentIds : payment'[p].inv # j
      BY <2>1 DEF Account, ledger
    <2> QED
      BY <2>2, <2>3, <2>4 DEF Account
  <1> QED
    BY <1>2 DEF AccountInv

\* With one process and no PUT of a draft, every step keeps the accounts.
LEMMA AccountNext ==
    ASSUME OneServer, "draft" \notin PutStatuses, IInv, HoldInv, AccountInv, [Next]_vars
    PROVE  AccountInv'
  <1>1. ASSUME UNCHANGED <<payment, captured, session>>
        PROVE  /\ \A j \in Invoices : ByMethod(j)' \subseteq ByMethod(j)
               /\ \A p \in PaymentIds : captured'[p] > 0 => p <= created
    BY <1>1 DEF ByMethod, AccountInv
  <1>2. ASSUME NEW s \in Servers, req'[s].pc \notin Finalizing \cup
                 {"create_charge", "mark_processing", "charge"}
        PROVE  AccountOf(s)'
    BY <1>2 DEF AccountOf, Finalizing
  <1>3. crashes \in Nat
    BY ConstantsAssumption DEF IInv, TypeOK
  <1>4. ASSUME NEW s \in Servers, Arrive(s) PROVE AccountInv'
    <2>1. req[s].pc = "idle" /\ \A t \in Servers : t = s
      BY <1>4, NextStep DEF OneServer
    <2>2. UNCHANGED <<payment, created, ledger, captured, session, crashes>>
      BY <1>4, ArriveWrites DEF provider
    <2>3. AccountOf(s)'
      <3>1. ASSUME NEW i \in Invoices, Finalize(s, i) PROVE AccountOf(s)'
        <4>1. req'[s].pc = "finalize" /\ req'[s].inv = i /\ invoice[i].st = "draft"
          BY <3>1, Requests DEF Finalize, Finalizable
        <4>2. ByMethod(i) = {} /\ ByMethod(i)' = {}
          BY <2>2, <4>1 DEF AccountInv, Account, ByMethod
        <4> QED
          BY <4>1, <4>2 DEF AccountOf, ByMethod
      <3>2. ASSUME NEW i \in Invoices,
                   \/ \E a \in Amounts : RecordManual(s, i, a)
                   \/ \E st \in PutStatuses : UpdateInvoice(s, i, st)
                   \/ Checkout(s, i) \/ BulkFinalize(s, i)
                   \/ DeclarePaid(s, i) \/ Void(s, i) \/ DeleteInvoice(s, i)
            PROVE  req'[s].pc \notin Finalizing \cup {"create_charge", "mark_processing", "charge"}
        BY <2>1, <3>2, Requests
           DEF RecordManual, UpdateInvoice, Checkout, BulkFinalize, DeclarePaid, Void,
               DeleteInvoice, Finalizing
      <3>3. ASSUME NEW p \in PaymentIds,
                   \/ \E a \in Amounts \cup {0} : Refund(s, p, a)
                   \/ MarkPaymentPaid(s, p) \/ Retry(s, p) \/ DeletePayment(s, p)
            PROVE  req'[s].pc \notin Finalizing \cup {"create_charge", "mark_processing", "charge"}
        BY <3>3, Requests DEF Refund, MarkPaymentPaid, Retry, DeletePayment, Operate, Finalizing
      <3> QED
        BY <1>2, <1>4, <3>1, <3>2, <3>3 DEF Arrive
    <2>4. \A j \in Invoices :
             /\ invoice'[j].prepaid = invoice[j].prepaid
             /\ invoice'[j].st \in {"draft", "deleted"} => invoice[j].st \in {"draft", "deleted"}
      <3>1. CASE UNCHANGED invoice
        BY <3>1
      <3>2. ASSUME NEW i \in Invoices, NEW st \in PutStatuses, UpdateInvoice(s, i, st),
                   NEW j \in Invoices
            PROVE  /\ invoice'[j].prepaid = invoice[j].prepaid
                   /\ invoice'[j].st \in {"draft", "deleted"} => invoice[j].st \in {"draft", "deleted"}
        <4>1. st \notin {"draft", "deleted"}
          BY ConstantsAssumption
        <4> QED
          BY <3>2, <4>1 DEF UpdateInvoice, SetInvoice, IInv, TypeOK, InvoiceRow
      <3> QED
        BY <1>4, <3>1, <3>2, ArriveWrites
    <2> QED
      BY <1>1, <1>3, <2>1, <2>2, <2>3, <2>4, AccountKept
  <1>5. ASSUME NEW s \in Servers, NEW e \in events, Delivery(s, e) PROVE AccountInv'
    <2>1. req[s].pc = "idle" /\ \A t \in Servers : t = s
      BY <1>5, NextStep DEF OneServer
    <2>2. UNCHANGED <<db, captured, session, crashes>>
      BY <1>5 DEF Delivery, Receive, Ignore, history
    <2>3. req'[s].pc \in {"idle", "webhook", "set_payment_id"}
      BY <1>5, <2>1, Requests DEF Delivery, Receive, Ignore
    <2>4. AccountOf(s)'
      BY <1>2, <2>3 DEF Finalizing
    <2> QED
      BY <1>1, <1>3, <2>1, <2>2, <2>4, AccountKept DEF db
  <1>6. ASSUME NEW s \in Servers, Crash(s) PROVE AccountInv'
    <2>1. req'[s].pc = "idle" /\ \A t \in Servers : t = s
      BY <1>6, Requests DEF OneServer, Crash
    <2>2. UNCHANGED <<db, captured, session>> /\ crashes' = crashes + 1
      BY <1>6 DEF Crash, provider
    <2>3. AccountOf(s)'
      BY <1>2, <2>1 DEF Finalizing
    <2> QED
      BY <1>1, <1>3, <2>1, <2>2, <2>3, AccountKept DEF db
  <1>7. ASSUME NEW p \in PaymentIds, Customer(p) PROVE AccountInv'
    <2>1. UNCHANGED <<db, req, history>>
      BY <1>7 DEF Customer, CustomerWaits, CustomerPays, CustomerDeclined, SessionExpires
    <2>2. session[p] \in {"open", "waiting"} /\ p <= created
      BY <1>7 DEF Customer, CustomerWaits, CustomerPays, CustomerDeclined, SessionExpires, IInv, RowOK
    <2>3. /\ \E w \in {"open", "waiting", "closed"} : session' = [session EXCEPT ![p] = w]
          /\ captured' = captured \/ captured' = [captured EXCEPT ![p] = Total[payment[p].inv]]
      BY <1>7 DEF Customer, CustomerWaits, CustomerPays, CustomerDeclined, SessionExpires
    <2>4. session \in [PaymentIds -> {"none", "open", "waiting", "closed"}] /\ captured \in [PaymentIds -> Nat]
      BY DEF IInv, TypeOK
    <2>5. ASSUME NEW j \in Invoices PROVE ByMethod(j)' \subseteq ByMethod(j)
      <3> SUFFICES ASSUME NEW q \in PaymentIds, payment'[q].inv = j, session'[q] = "none",
                          captured'[q] > 0
                   PROVE  q \in ByMethod(j)
        BY DEF ByMethod
      <3>1. q # p \/ (session' = session /\ session[q] \in {"open", "waiting"})
        BY <2>2, <2>3, <2>4
      <3>2. q # p
        BY <3>1
      <3> QED
        BY <2>1, <2>3, <2>4, <3>2 DEF ByMethod, db
    <2>6. \A q \in PaymentIds : captured'[q] > 0 => q <= created
      BY <2>2, <2>3, <2>4 DEF AccountInv
    <2>7. ASSUME NEW s \in Servers PROVE AccountOf(s)'
      <3>1. req[s].pc \in Finalizing \cup {"create_charge", "mark_processing", "charge"} =>
              req[s].inv \in Invoices
        BY Requests DEF Finalizing
      <3>2. AccountOf(s)
        BY DEF AccountInv
      <3>3. \A j \in Invoices : ByMethod(j) = {} => ByMethod(j)' = {}
        BY <2>5
      <3> QED
        BY <2>1, <3>1, <3>2, <3>3 DEF AccountOf, db, ledger, ByMethod
    <2> QED
      BY <1>3, <2>1, <2>5, <2>6, <2>7, AccountKept DEF db, history
  <1>8. CASE UNCHANGED vars
    <2>1. \A s \in Servers : AccountOf(s)'
      BY <1>8 DEF vars, AccountInv, AccountOf, ByMethod
    <2> QED
      BY <1>1, <1>3, <1>8, <2>1, AccountKept DEF vars, ledger
  <1> QED
    BY <1>4, <1>5, <1>6, <1>7, <1>8, AccountContinue DEF Next, Rest

\* With one API process and no PUT of a draft: a draft's account is empty, the
\* finalize handler starts from it, and its wallet and charge come once.
THEOREM AccountsKept ==
    ASSUME OneServer, "draft" \notin PutStatuses PROVE Spec => []AccountInv
  <1>1. Init => AccountInv
    <2> SUFFICES ASSUME Init PROVE AccountInv
      OBVIOUS
    <2>1. \A i \in Invoices : ByMethod(i) = {}
      BY DEF Init, ByMethod
    <2>2. \A i \in Invoices : Account(i)
      BY <2>1, ConstantsAssumption DEF Init, Account
    <2>3. \A s \in Servers : AccountOf(s)
      BY DEF Init, AccountOf, Idle, Finalizing
    <2> QED
      BY <2>2, <2>3 DEF Init, AccountInv
  <1>2. IInv /\ HoldInv /\ AccountInv /\ [Next]_vars => AccountInv'
    BY AccountNext
  <1> QED
    BY <1>1, <1>2, ReadsStillHold, Invariant, PTL DEF Spec

\* With one API process and no PUT of a draft, the default payment method is
\* charged at most once for an invoice, for any number of calls and crashes.
THEOREM MethodChargedOnce ==
    ASSUME OneServer, "draft" \notin PutStatuses PROVE Spec => []ChargedOnce
  <1>1. AccountInv => ChargedOnce
    <2> SUFFICES ASSUME AccountInv, NEW i \in Invoices
                 PROVE  Cardinality(ByMethod(i)) <= 1
      BY DEF ChargedOnce
    <2>1. CASE ByMethod(i) = {}
      BY <2>1, FS_EmptySet
    <2>2. CASE ByMethod(i) # {}
      <3>1. PICK p : p \in ByMethod(i)
        BY <2>2
      <3>2. ByMethod(i) = {p}
        BY <3>1 DEF AccountInv, Account
      <3> QED
        BY <3>2, FS_Singleton
    <2> QED
      BY <2>1, <2>2
  <1> QED
    BY <1>1, AccountsKept, PTL

\* With one API process and no PUT of a draft, as long as none crashed, the
\* prepaid credit of an invoice is what the wallet settled of it.
THEOREM PrepaidConsumed ==
    ASSUME OneServer, "draft" \notin PutStatuses PROVE Spec => []PrepaidIsConsumed
  <1>1. AccountInv => PrepaidIsConsumed
    BY DEF AccountInv, Account, PrepaidIsConsumed, At
  <1> QED
    BY <1>1, AccountsKept, PTL

\* With one process, and no PUT of a draft or a finalized invoice, an invoice
\* settled in full is in the hands of the handler that says so.
LEMMA FullNext ==
    ASSUME OneServer, "draft" \notin PutStatuses, "finalized" \notin PutStatuses,
           IInv, HoldInv, AccountInv, FullInv, [Next]_vars
    PROVE  FullInv'
  <1> DEFINE Telling == {"check_total", "mark_paid", "set_prepaid"}
  <1> SUFFICES ASSUME crashes' = 0, NEW j \in Invoices,
                      invoice'[j].st = "finalized", Total[j] > 0, settled'[j] >= Total[j]
               PROVE  \E s \in Servers : req'[s].pc \in Telling /\ req'[s].inv = j
    BY DEF FullInv
  <1>1. /\ crashes \in Nat /\ Total[j] \in Nat
        /\ settled \in [Invoices -> Nat] /\ invoice \in [Invoices -> InvoiceRow]
    BY ConstantsAssumption DEF IInv, TypeOK
  <1>2. ASSUME NEW s \in Servers, Crash(s) PROVE FALSE
    BY <1>1, <1>2 DEF Crash
  <1>3. crashes = 0
    <2>1. ASSUME NEW s \in Servers, NEW e \in events, Delivery(s, e) PROVE UNCHANGED crashes
      BY <2>1 DEF Delivery, Receive, Ignore, history
    <2>2. ASSUME NEW p \in PaymentIds, Customer(p) PROVE UNCHANGED crashes
      BY <2>2 DEF Customer, CustomerWaits, CustomerPays, CustomerDeclined, SessionExpires, history
    <2>3. UNCHANGED vars => UNCHANGED crashes
      BY DEF vars
    <2> QED
      BY <1>2, <2>1, <2>2, <2>3, ArriveWrites, ContinueWrites DEF Next, Rest
  <1>4. CASE ~(invoice[j].st = "finalized" /\ settled[j] >= Total[j])
    <2>1. invoice[j].st = "draft" => settled[j] = 0
      BY DEF AccountInv, Account
    <2>2. PICK s \in Servers : Continue(s)
      <3>1. ASSUME NEW s \in Servers, NEW i \in Invoices, NEW st \in PutStatuses,
                   UpdateInvoice(s, i, st), UNCHANGED ledger
            PROVE  FALSE
        BY <1>1, <1>4, <3>1 DEF UpdateInvoice, SetInvoice, InvoiceRow, ledger
      <3> QED
        BY <1>4, <3>1, NextWrites DEF ledger
    <2>3. CASE Settle(s) \/ SettleWallet(s)
      <3>1. req[s].inv = j
        BY <1>1, <1>4, <2>3 DEF Settle, SettleWallet
      <3> QED
        BY <2>3, <3>1, Requests DEF Settle, SettleWallet
    <2>4. CASE ~Settle(s) /\ ~SettleWallet(s)
      <3>1. settled' = settled
        BY <2>2, <2>4, ContinueWrites DEF ledger
      <3>2. invoice[j].st # "finalized"
        BY <1>4, <3>1
      <3>3. PICK t \in {s} :
              \/ MarkPaid(s) \/ WriteFinalize(s) \/ SetPrepaid(s)
              \/ WriteDeclarePaid(s) \/ WriteVoid(s) \/ WriteDeleteInvoice(s)
        BY <2>2, <3>2, ContinueWrites
      <3>4. WriteFinalize(s) /\ req[s].inv = j
        BY <1>1, <3>2, <3>3
           DEF MarkPaid, WriteFinalize, SetPrepaid, WriteDeclarePaid, WriteVoid,
               WriteDeleteInvoice, SetInvoice, InvoiceRow
      <3>5. invoice[j].st = "draft"
        BY <3>4 DEF WriteFinalize, HoldInv, StillHolds, ReadsDraft
      <3> QED
        BY <1>1, <2>1, <3>1, <3>5
    <2> QED
      BY <2>3, <2>4
  <1>5. CASE invoice[j].st = "finalized" /\ settled[j] >= Total[j]
    <2>1. PICK s \in Servers : req[s].pc \in Telling /\ req[s].inv = j
      BY <1>3, <1>5 DEF FullInv
    <2>2. UNCHANGED req \/ Continue(s)
      <3>1. \A t \in Servers : req[t].pc # "idle" /\ t = s
        BY <2>1 DEF OneServer
      <3>2. ASSUME NEW p \in PaymentIds, Customer(p) PROVE UNCHANGED req
        BY <3>2 DEF Customer, CustomerWaits, CustomerPays, CustomerDeclined, SessionExpires
      <3>3. UNCHANGED vars => UNCHANGED req
        BY DEF vars
      <3> QED
        BY <1>2, <3>1, <3>2, <3>3, NextStep DEF Next, Rest
    <2>3. CASE UNCHANGED req
      BY <2>1, <2>3
    <2>4. CASE Continue(s)
      <3>1. CheckTotal(s) \/ MarkPaid(s) \/ SetPrepaid(s)
        BY <1>5, <2>1, <2>4, NextStep
      <3>2. CASE CheckTotal(s)
        BY <1>5, <2>1, <3>2, Requests DEF CheckTotal, FullySettled
      <3>3. CASE MarkPaid(s)
        BY <1>1, <2>1, <3>3 DEF MarkPaid, SetInvoice, InvoiceRow
      <3>4. CASE SetPrepaid(s)
        <4>1. settled[j] = req[s].amt
          BY <2>1, <3>4 DEF SetPrepaid, At, AccountInv, AccountOf
        <4> QED
          BY <1>1, <1>5, <2>1, <3>4, <4>1 DEF SetPrepaid, CoveredByWallet
      <3> QED
        BY <3>1, <3>2, <3>3, <3>4
    <2> QED
      BY <2>2, <2>3, <2>4
  <1> QED
    BY <1>4, <1>5

\* With one API process, and no PUT of a draft or a finalized invoice, as long
\* as none crashed: an invoice left FINALIZED has something left to settle.
THEOREM SettledIsPaid ==
    ASSUME OneServer, "draft" \notin PutStatuses, "finalized" \notin PutStatuses
    PROVE  Spec => []FullySettledIsPaid
  <1>1. Init => FullInv
    BY DEF Init, FullInv
  <1>2. IInv /\ HoldInv /\ AccountInv /\ FullInv /\ [Next]_vars => FullInv'
    BY FullNext
  <1>3. IInv /\ FullInv => FullySettledIsPaid
    <2> SUFFICES ASSUME IInv, FullInv, crashes = 0, \A s \in Servers : At(s, "idle"),
                        NEW i \in Invoices, invoice[i].st = "finalized", Total[i] > 0
                 PROVE  settled[i] < Total[i]
      BY DEF FullySettledIsPaid
    <2>1. settled[i] \in Nat /\ Total[i] \in Nat
      BY ConstantsAssumption DEF IInv, TypeOK
    <2>2. ~(settled[i] >= Total[i])
      BY DEF FullInv, At
    <2> QED
      BY <2>1, <2>2
  <1> QED
    BY <1>1, <1>2, <1>3, ReadsStillHold, AccountsKept, Invariant, PTL DEF Spec

-----------------------------------------------------------------------------
(* Drafts, with any number of API processes. *)

\* A handler's step brings no payment row into being but the one it creates.
LEMMA ExistingRows ==
    ASSUME IInv, NEW s \in Servers, Continue(s), NEW p \in PaymentIds, Exists(p)'
    PROVE  \/ Exists(p)
           \/ /\ req[s].pc \in Creating /\ invoice[req[s].inv].st # "deleted"
              /\ payment'[p].inv = req[s].inv /\ UNCHANGED invoice
  <1>1. payment \in [PaymentIds -> PaymentRow]
    BY DEF IInv, TypeOK
  <1>2. ASSUME NEW q, NEW st, SetStatus(q, st) PROVE Exists(p)
    BY <1>1, <1>2 DEF SetStatus, Exists, PaymentRow
  <1>3. CASE UNCHANGED payment
    BY <1>3 DEF Exists
  <1>4. CASE SetCheckout(s) \/ SetPaymentId(s) \/ SetChargeId(s) \/ WriteRefund(s)
    <2>1. CASE SetCheckout(s) \/ SetPaymentId(s) \/ SetChargeId(s)
      BY <1>1, <2>1 DEF SetCheckout, SetPaymentId, SetChargeId, Exists, PaymentRow
    <2>2. CASE WriteRefund(s)
      BY <1>1, <2>2 DEF WriteRefund, Exists, PaymentRow
    <2> QED
      BY <1>4, <2>1, <2>2
  <1>5. CASE CreateManual(s) \/ CreateCheckout(s) \/ CreateCharge(s)
    <2>1. /\ req[s].pc \in Creating /\ invoice[req[s].inv].st # "deleted" /\ UNCHANGED invoice
          /\ \E a, step : CreatePayment(s, req[s].inv, a, step)
      BY <1>5 DEF CreateManual, CreateCheckout, CreateCharge, At, Creating
    <2>2. PICK a, step : CreatePayment(s, req[s].inv, a, step)
      BY <2>1
    <2>3. p # created + 1 => payment'[p] = payment[p]
      BY <1>1, <2>2 DEF CreatePayment
    <2>4. payment'[created + 1].inv = req[s].inv
      BY <2>2, NewRow
    <2> QED
      BY <2>1, <2>3, <2>4 DEF Exists
  <1>6. CASE \/ MarkManual(s) \/ Webhook(s) \/ WriteMarkPayment(s) \/ WriteRetry(s)
             \/ WriteDelete(s) \/ MarkProcessing(s) \/ ChargeResult(s)
    <2>1. CASE Webhook(s)
      <3>1. SetStatus(req[s].pay, req[s].res) \/ UNCHANGED payment
        BY <2>1 DEF Webhook
      <3> QED
        BY <1>2, <1>3, <3>1
    <2>2. CASE ~Webhook(s)
      BY <1>2, <1>6, <2>2 DEF MarkManual, WriteMarkPayment, WriteRetry, WriteDelete,
                              MarkProcessing, ChargeResult
    <2> QED
      BY <2>1, <2>2
  <1>7. CASE \/ Settle(s) \/ CheckTotal(s) \/ MarkPaid(s) \/ CreateSession(s)
             \/ WriteFinalize(s) \/ GetWallets(s) \/ DeductBalance(s) \/ SettleWallet(s)
             \/ SetPrepaid(s) \/ NoCharge(s) \/ Charge(s) \/ MarkCharged(s)
             \/ WriteDeclarePaid(s) \/ WriteVoid(s) \/ WriteDeleteInvoice(s) \/ InvoiceGone(s)
    BY <1>3, <1>7 DEF Settle, CheckTotal, MarkPaid, CreateSession, WriteFinalize, GetWallets,
                DeductBalance, SettleWallet, SetPrepaid, NoCharge, Charge, MarkCharged,
                WriteDeclarePaid, WriteVoid, WriteDeleteInvoice, InvoiceGone, db
  <1> QED
    BY <1>4, <1>5, <1>6, <1>7 DEF Continue

\* Which steps of a handler make a draft, or delete an invoice.
LEMMA DraftSteps ==
    ASSUME IInv, NEW s \in Servers, Continue(s), NEW i \in Invoices
    PROVE  /\ invoice'[i].st = "draft" => invoice[i].st = "draft"
           /\ invoice'[i].st = "deleted" =>
                \/ invoice[i].st = "deleted"
                \/ /\ ~Referenced(i) /\ UNCHANGED <<settled, payment>>
  <1>1. invoice \in [Invoices -> InvoiceRow]
    BY DEF IInv, TypeOK
  <1>2. CASE UNCHANGED invoice
    BY <1>2
  <1>3. CASE MarkPaid(s) \/ WriteFinalize(s) \/ WriteDeclarePaid(s) \/ WriteVoid(s)
    BY <1>1, <1>3 DEF MarkPaid, WriteFinalize, WriteDeclarePaid, WriteVoid, SetInvoice,
                      InvoiceRow
  <1>4. CASE SetPrepaid(s)
    <2>1. PICK st \in {"paid", invoice[req[s].inv].st} :
            invoice' = [invoice EXCEPT ![req[s].inv] = [st |-> st, prepaid |-> req[s].amt]]
      BY <1>1, <1>4 DEF SetPrepaid
    <2> QED
      BY <1>1, <2>1
  <1>5. CASE WriteDeleteInvoice(s)
    BY <1>1, <1>5 DEF WriteDeleteInvoice, SetInvoice, InvoiceRow, ledger
  <1> QED
    BY <1>2, <1>3, <1>4, <1>5, ContinueWrites

\* Where a step of a handler leads to the account of its invoice.
LEMMA AccountSteps ==
    ASSUME IInv, NEW s \in Servers, Continue(s)
    PROVE  /\ req'[s].pc \in OnAccount =>
                /\ req'[s].inv = req[s].inv /\ req[s].inv \in Invoices
                /\ \/ req[s].pc \in OnAccount
                   \/ req[s].pc \in {"webhook", "mark_payment"} /\ Exists(req[s].pay)
                   \/ invoice'[req[s].inv].st = "finalized"
           /\ req'[s].pc \in {"set_payment_id", "webhook", "mark_payment"} =>
                /\ req[s].pc = "set_payment_id"
                /\ req'[s].inv = req[s].inv /\ req'[s].pay = req[s].pay
  <1> USE DEF OnAccount, Creating
  <1>1. /\ req \in [Servers -> Request] /\ req[s] \in Request
        /\ invoice \in [Invoices -> InvoiceRow]
        /\ req[s].pc # "idle" => req[s].inv \in Invoices
    BY Requests DEF IInv, TypeOK
  <1>2. CASE Return(s)
    BY <1>2, Requests
  <1>3. CASE CreateManual(s) \/ CreateCheckout(s) \/ CreateCharge(s)
    <2>1. PICK a, step : /\ CreatePayment(s, req[s].inv, a, step)
                         /\ step \in {"mark_manual", "create_session", "mark_processing"}
      BY <1>3 DEF CreateManual, CreateCheckout, CreateCharge
    <2>2. req'[s].pc = step /\ req'[s].inv = req[s].inv
      BY <2>1, Requests
    <2> QED
      BY <1>1, <1>3, <2>1, <2>2 DEF CreateManual, CreateCheckout, CreateCharge, At
  <1>4. CASE MarkManual(s) \/ Settle(s) \/ SettleWallet(s) \/ SetPaymentId(s)
    BY <1>1, <1>4, Requests DEF MarkManual, Settle, SettleWallet, SetPaymentId, At
  <1>5. CASE CheckTotal(s) \/ MarkCharged(s) \/ CreateSession(s) \/ MarkProcessing(s)
             \/ SetChargeId(s) \/ ChargeResult(s)
    BY <1>1, <1>2, <1>5, Requests
       DEF CheckTotal, MarkCharged, CreateSession, MarkProcessing, SetChargeId, ChargeResult, At
  <1>6. CASE Charge(s)
    BY <1>1, <1>2, <1>6 DEF Charge, At, Request
  <1>7. CASE Webhook(s)
    BY <1>1, <1>2, <1>7 DEF Webhook, At, Request
  <1>8. CASE WriteMarkPayment(s)
    BY <1>1, <1>2, <1>8, Requests DEF WriteMarkPayment, At
  <1>9. CASE WriteFinalize(s)
    <2>1. req[s].inv \in Invoices /\ invoice'[req[s].inv].st = "finalized"
      BY <1>1, <1>9 DEF WriteFinalize, SetInvoice, InvoiceRow
    <2>2. ~Return(s) => req'[s].pc = "get_wallets" /\ req'[s].inv = req[s].inv
      BY <1>1, <1>9 DEF WriteFinalize, Request
    <2> QED
      BY <1>2, <2>1, <2>2
  <1>10. CASE GetWallets(s) \/ DeductBalance(s)
    BY <1>1, <1>10, Requests DEF GetWallets, DeductBalance, At, Request
  <1>11. CASE SetPrepaid(s)
    <2>1. ~Return(s) => /\ Goto(s, "create_charge") /\ ~CoveredByWallet(s)
                        /\ invoice[req[s].inv].st = "finalized"
      BY <1>11 DEF SetPrepaid
    <2>2. req[s].inv \in Invoices
      BY <1>1, <1>11 DEF SetPrepaid, At
    <2>3. ~CoveredByWallet(s) => invoice'[req[s].inv].st = invoice[req[s].inv].st
      BY <1>1, <1>11, <2>2 DEF SetPrepaid
    <2> QED
      BY <1>2, <2>1, <2>2, <2>3, Requests
  <1> QED
    BY <1>2, <1>3, <1>4, <1>5, <1>6, <1>7, <1>8, <1>9, <1>10, <1>11
       DEF Continue, MarkPaid, SetCheckout, WriteRefund, WriteRetry, WriteDelete, NoCharge,
           WriteDeclarePaid, WriteVoid, WriteDeleteInvoice, InvoiceGone

\* Nor does it change the request of another process.
LEMMA SameRequest ==
    ASSUME IInv, NEW s \in Servers, Continue(s), NEW t \in Servers, t # s
    PROVE  req'[t] = req[t]
  <1>1. req \in [Servers -> Request]
    BY DEF IInv, TypeOK
  <1>2. CASE \/ CreateManual(s) \/ MarkManual(s) \/ Settle(s) \/ CheckTotal(s) \/ MarkPaid(s)
             \/ CreateCheckout(s) \/ CreateSession(s) \/ SetCheckout(s)
             \/ SetPaymentId(s) \/ Webhook(s) \/ WriteMarkPayment(s) \/ WriteRefund(s)
             \/ WriteRetry(s) \/ WriteDelete(s)
    BY <1>1, <1>2
       DEF CreateManual, MarkManual, Settle, CheckTotal, MarkPaid, CreateCheckout,
           CreateSession, SetCheckout, SetPaymentId, Webhook, WriteMarkPayment,
           WriteRefund, WriteRetry, WriteDelete, CreatePayment, Goto, Return
  <1>3. CASE \/ WriteFinalize(s) \/ GetWallets(s) \/ DeductBalance(s) \/ SettleWallet(s)
             \/ SetPrepaid(s) \/ NoCharge(s) \/ CreateCharge(s) \/ MarkProcessing(s)
             \/ Charge(s) \/ SetChargeId(s) \/ ChargeResult(s) \/ MarkCharged(s)
             \/ WriteDeclarePaid(s) \/ WriteVoid(s) \/ WriteDeleteInvoice(s) \/ InvoiceGone(s)
    BY <1>1, <1>3
       DEF WriteFinalize, GetWallets, DeductBalance, SettleWallet, SetPrepaid, NoCharge,
           CreateCharge, MarkProcessing, Charge, SetChargeId, ChargeResult, MarkCharged,
           WriteDeclarePaid, WriteVoid, WriteDeleteInvoice, InvoiceGone, CreatePayment, Goto,
           Return
  <1> QED
    BY <1>2, <1>3 DEF Continue

\* A handler's step on the account of a draft does not happen, nor one that
\* finds the invoice deleted.
LEMMA UntouchedContinue ==
    ASSUME IInv, UntouchedInv, NEW s \in Servers, Continue(s)
    PROVE  UntouchedInv'
  <1> DEFINE Late == {"set_payment_id", "webhook", "mark_payment"}
  <1>1. /\ created \in Nat /\ created' \in Nat /\ created' >= created
        /\ settled \in [Invoices -> Nat] /\ MaxPayments \in Nat
        /\ req[s].pc # "idle" => req[s].inv \in Invoices
    <2>1. created' = created \/ created' = created + 1
      BY ContinueWrites DEF CreateManual, CreateCheckout, CreateCharge, CreatePayment
    <2> QED
      BY <2>1, Requests, ConstantsAssumption DEF IInv, TypeOK
  <1>2. ASSUME NEW i \in Invoices, invoice'[i].st \in {"draft", "deleted"}
        PROVE  settled'[i] = 0 /\ PaymentsOf(i)' = {}
    <2>1. CASE invoice[i].st \in {"draft", "deleted"}
      <3>1. settled[i] = 0 /\ PaymentsOf(i) = {}
        BY <2>1 DEF UntouchedInv, DraftIsUntouched
      <3>2. settled'[i] = settled[i]
        <4>1. CASE Settle(s) \/ SettleWallet(s)
          <5>1. req[s].inv # i
            BY <2>1, <4>1 DEF Settle, SettleWallet, At, UntouchedInv, OnAccount
          <5> QED
            BY <1>1, <4>1, <5>1 DEF Settle, SettleWallet
        <4>2. CASE UNCHANGED ledger
          BY <4>2 DEF ledger
        <4> QED
          BY <4>1, <4>2, ContinueWrites
      <3>3. ASSUME NEW p \in PaymentsOf(i)' PROVE FALSE
        <4>1. p \in PaymentIds /\ Exists(p)' /\ payment'[p].inv = i
          BY DEF PaymentsOf
        <4>2. ~Exists(p)
          <5>1. ASSUME Exists(p) PROVE p \in 1..created
            BY <1>1, <4>1, <5>1 DEF IInv, RowOK, Exists, PaymentStatus, PaymentIds
          <5>2. Exists(p) => payment[p].inv = i
            BY <4>1, <5>1, Rows
          <5> QED
            BY <3>1, <4>1, <5>2 DEF PaymentsOf
        <4>3. req[s].pc \in Creating /\ invoice[i].st # "deleted" /\ req[s].inv = i
          BY <4>1, <4>2, ExistingRows
        <4> QED
          BY <2>1, <4>3 DEF UntouchedInv, OnAccount
      <3> QED
        BY <3>1, <3>2, <3>3
    <2>2. CASE invoice[i].st \notin {"draft", "deleted"}
      <3>1. ~Referenced(i) /\ UNCHANGED <<settled, payment>>
        BY <1>2, <2>2, DraftSteps
      <3>2. PaymentsOf(i)' = PaymentsOf(i)
        BY <3>1 DEF PaymentsOf, Exists
      <3> QED
        BY <1>1, <3>1, <3>2 DEF Referenced
    <2> QED
      BY <2>1, <2>2
  <1>3. ASSUME NEW t \in Servers, req'[t].pc \in Late
        PROVE  req'[t].pay \in 1..created' /\ payment'[req'[t].pay].inv = req'[t].inv
    <2>1. req[t].pc \in Late /\ req'[t].inv = req[t].inv /\ req'[t].pay = req[t].pay
      BY <1>3, AccountSteps, SameRequest
    <2>2. req[t].pay \in 1..created /\ payment[req[t].pay].inv = req[t].inv
      BY <2>1 DEF UntouchedInv
    <2> QED
      BY <1>1, <2>1, <2>2, Rows
  <1>4. ASSUME NEW t \in Servers, req'[t].pc \in OnAccount
        PROVE  invoice'[req'[t].inv].st # "draft"
    <2>1. /\ req'[t].inv = req[t].inv /\ req[t].inv \in Invoices
          /\ \/ req[t].pc \in OnAccount
             \/ req[t].pc \in {"webhook", "mark_payment"} /\ Exists(req[t].pay)
             \/ invoice'[req[t].inv].st = "finalized"
      <3>1. CASE t = s
        BY <1>4, <3>1, AccountSteps
      <3>2. CASE t # s
        <4>1. req'[t] = req[t] /\ req[t].pc # "idle"
          BY <1>4, <3>2, SameRequest DEF OnAccount, Creating
        <4> QED
          BY <1>4, <4>1, Requests
      <3> QED
        BY <3>1, <3>2
    <2>2. CASE req[t].pc \in OnAccount
      BY <2>1, <2>2, DraftSteps DEF UntouchedInv
    <2>3. CASE req[t].pc \in {"webhook", "mark_payment"} /\ Exists(req[t].pay)
      <3>1. payment[req[t].pay].inv = req[t].inv
        BY <2>3 DEF UntouchedInv
      <3>2. req[t].pay \in PaymentsOf(req[t].inv)
        BY <2>3, <3>1 DEF PaymentsOf, Exists
      <3>3. invoice[req[t].inv].st # "draft"
        BY <2>1, <3>2 DEF UntouchedInv, DraftIsUntouched
      <3> QED
        BY <2>1, <3>3, DraftSteps
    <2> QED
      BY <2>1, <2>2, <2>3
  <1> QED
    BY <1>2, <1>3, <1>4 DEF UntouchedInv, DraftIsUntouched

\* What else happens touches no account, and begins only where one is open.
LEMMA UntouchedNext ==
    ASSUME "draft" \notin PutStatuses, IInv, UntouchedInv, [Next]_vars
    PROVE  UntouchedInv'
  <1> DEFINE Late == {"set_payment_id", "webhook", "mark_payment"}
  <1>1. ASSUME UNCHANGED db,
               \A t \in Servers : \/ req'[t] = req[t]
                                  \/ req'[t].pc \notin Late \cup OnAccount
                                  \/ /\ req'[t].pc \in Late => /\ req'[t].pay \in 1..created
                                                               /\ payment[req'[t].pay].inv = req'[t].inv
                                     /\ req'[t].pc \in OnAccount =>
                                          invoice[req'[t].inv].st # "draft"
        PROVE  UntouchedInv'
    BY <1>1 DEF UntouchedInv, DraftIsUntouched, PaymentsOf, Exists, db, ledger
  <1>2. ASSUME NEW s \in Servers, NEW step \in Steps, NEW i, NEW p, NEW a, NEW res,
               Begin(s, step, i, p, a, res), UNCHANGED db,
               step \in Late => p \in 1..created /\ payment[p].inv = i,
               step \in OnAccount => invoice[i].st # "draft"
        PROVE  UntouchedInv'
    <2>1. req'[s].pc = step /\ req'[s].inv = i /\ req'[s].pay = p
      BY <1>2, Requests
    <2>2. \A t \in Servers \ {s} : req'[t] = req[t]
      BY <1>2 DEF Begin, IInv, TypeOK
    <2> QED
      BY <1>1, <1>2, <2>1, <2>2
  <1>3. ASSUME NEW p \in PaymentIds, Exists(p) PROVE p \in 1..created
    BY <1>3, ConstantsAssumption DEF IInv, RowOK, TypeOK, Exists, PaymentStatus, PaymentIds
  <1>4. ASSUME NEW s \in Servers, Arrive(s) PROVE UntouchedInv'
    <2>1. ASSUME NEW i \in Invoices, NEW st \in PutStatuses, UpdateInvoice(s, i, st)
          PROVE  UntouchedInv'
      <3>1. /\ invoice[i].st # "deleted" /\ UNCHANGED <<req, payment, created, settled>>
            /\ st # "draft" /\ st # "deleted"
            /\ invoice' = [invoice EXCEPT ![i] = [invoice[i] EXCEPT !.st = st]]
        BY <2>1, ConstantsAssumption DEF UpdateInvoice, SetInvoice, ledger
      <3>2. invoice \in [Invoices -> InvoiceRow]
        BY DEF IInv, TypeOK
      <3>3. \A j \in Invoices : invoice'[j].st \in {"draft", "deleted"} =>
                                   invoice'[j] = invoice[j]
        BY <3>1, <3>2 DEF InvoiceRow
      <3>4. \A t \in Servers : req[t].pc \in OnAccount => req[t].inv \in Invoices
        BY Requests DEF OnAccount, Creating
      <3> QED
        BY <3>1, <3>3, <3>4 DEF UntouchedInv, DraftIsUntouched, PaymentsOf, Exists
    <2>2. ASSUME NEW i \in Invoices,
                 \/ \E a \in Amounts : RecordManual(s, i, a)
                 \/ Checkout(s, i) \/ Finalize(s, i) \/ BulkFinalize(s, i)
                 \/ DeclarePaid(s, i) \/ Void(s, i) \/ DeleteInvoice(s, i)
          PROVE  UntouchedInv'
      <3>1. PICK step, a :
              /\ step \in {"create_manual", "create_checkout", "finalize", "bulk_finalize",
                          "declare_paid", "void", "delete_invoice"}
              /\ Begin(s, step, i, NoPayment, a, "none") /\ UNCHANGED db
              /\ step \in {"create_manual", "create_checkout"} => invoice[i].st = "finalized"
        BY <2>2 DEF RecordManual, Checkout, Finalize, BulkFinalize, DeclarePaid, Void,
                    DeleteInvoice, Payable
      <3>2. step \in Steps /\ step \notin Late
        BY <3>1 DEF Creating, Finalizing
      <3>3. step \in OnAccount => invoice[i].st # "draft"
        BY <3>1 DEF OnAccount, Creating
      <3> QED
        BY <1>2, <3>1, <3>2, <3>3
    <2>3. ASSUME NEW p \in PaymentIds,
                 \/ \E a \in Amounts \cup {0} : Refund(s, p, a)
                 \/ MarkPaymentPaid(s, p) \/ Retry(s, p) \/ DeletePayment(s, p)
          PROVE  UntouchedInv'
      <3>1. PICK step, a :
              /\ step \in {"mark_refunded", "mark_payment", "retry", "delete_payment"}
              /\ Begin(s, step, payment[p].inv, p, a, "none") /\ UNCHANGED db
              /\ payment[p].st \in PaymentStatus
        BY <2>3 DEF Refund, MarkPaymentPaid, Retry, DeletePayment, Operate, PaymentStatus
      <3>2. step \in Steps /\ step \notin OnAccount
        BY <3>1 DEF OnAccount, Creating
      <3>3. p \in 1..created
        BY <1>3, <3>1 DEF Exists
      <3> QED
        BY <1>2, <3>1, <3>2, <3>3
    <2> QED
      BY <1>4, <2>1, <2>2, <2>3 DEF Arrive
  <1>5. ASSUME NEW s \in Servers, NEW e \in events, Delivery(s, e) PROVE UntouchedInv'
    <2>1. CASE Ignore(s, e)
      BY <1>1, <2>1 DEF Ignore
    <2>2. CASE Receive(s, e)
      <3>1. PICK step \in Late :
              /\ Begin(s, step, payment[e.pay].inv, e.pay, payment[e.pay].amt, ResultOf(e))
              /\ UNCHANGED db
        BY <2>2 DEF Receive
      <3>2. e.pay \in PaymentIds /\ Exists(e.pay)
        BY <2>2 DEF Receive, Names, Exists
      <3>3. step \in Steps /\ step \notin OnAccount
        BY <3>1 DEF OnAccount, Creating
      <3> QED
        BY <1>2, <1>3, <3>1, <3>2, <3>3
    <2> QED
      BY <1>5, <2>1, <2>2 DEF Delivery
  <1>6. ASSUME NEW s \in Servers, Crash(s) PROVE UntouchedInv'
    <2>1. req'[s].pc = "idle" /\ UNCHANGED db
      BY <1>6, Requests DEF Crash
    <2>2. \A t \in Servers \ {s} : req'[t] = req[t]
      BY <1>6 DEF Crash, Return, IInv, TypeOK
    <2> QED
      BY <1>1, <2>1, <2>2 DEF OnAccount, Creating
  <1>7. ASSUME NEW p \in PaymentIds, Customer(p) PROVE UntouchedInv'
    BY <1>1, <1>7 DEF Customer, CustomerWaits, CustomerPays, CustomerDeclined, SessionExpires
  <1>8. CASE UNCHANGED vars
    BY <1>1, <1>8 DEF vars, db, ledger
  <1> QED
    BY <1>4, <1>5, <1>6, <1>7, <1>8, UntouchedContinue DEF Next, Rest

\* However many API processes there are, an account is touched only after the
\* draft was finalized, as long as no PUT makes a draft.
LEMMA UntouchedAlways ==
    ASSUME "draft" \notin PutStatuses PROVE Spec => []UntouchedInv
  <1>1. Init => UntouchedInv
    <2> SUFFICES ASSUME Init PROVE UntouchedInv
      OBVIOUS
    <2>1. \A i \in Invoices : settled[i] = 0 /\ PaymentsOf(i) = {}
      BY DEF Init, PaymentsOf, Exists, PaymentStatus
    <2> QED
      BY <2>1 DEF Init, UntouchedInv, DraftIsUntouched, Idle, OnAccount, Creating
  <1>2. IInv /\ UntouchedInv /\ [Next]_vars => UntouchedInv'
    BY UntouchedNext
  <1> QED
    BY <1>1, <1>2, Invariant, PTL DEF Spec

\* However many API processes interleave and crash: as long as no PUT makes a
\* draft, finalizing, paying and deleting leave a draft, or a deleted one,
\* without payments and without settlements.
THEOREM DraftsUntouched ==
    ASSUME "draft" \notin PutStatuses PROVE Spec => []DraftIsUntouched
  <1>1. UntouchedInv => DraftIsUntouched
    BY DEF UntouchedInv
  <1>2. Spec => []UntouchedInv
    BY UntouchedAlways
  <1> QED
    BY <1>1, <1>2, PTL

-----------------------------------------------------------------------------
(* The life of an invoice, with one API process. *)

\* When the money of an invoice is in.
LEMMA MoneyIn ==
    ASSUME NEW i \in Invoices
    PROVE  /\ Money[i] <=> FullySettled(i) \/ Charged(i)
           /\ Money'[i] <=> FullySettled(i)' \/ Charged(i)'
  BY Zenon DEF Money

\* The money of an invoice that a step does not name stays as it is.
LEMMA SameMoney ==
    ASSUME NEW i \in Invoices, settled'[i] = settled[i], fromWallet'[i] = fromWallet[i],
           \A p \in PaymentIds : /\ payment'[p].inv = i <=> payment[p].inv = i
                                 /\ payment[p].inv = i => captured'[p] = captured[p]
    PROVE  Money'[i] = Money[i]
  <1>1. Charged(i)' <=> Charged(i)
    BY DEF Charged
  <1> QED
    BY <1>1 DEF Money, FullySettled

\* A step that leaves the statuses alone, and the money of all invoices but one,
\* receives money for that one.
LEMMA Received ==
    ASSUME IInv, TypeOK', NEW i \in Invoices, UNCHANGED <<invoice, declared>>,
           \A j \in Invoices \ {i} : settled'[j] = settled[j] /\ Money'[j] = Money[j],
           settled[i] <= settled'[i], Charged(i) => Charged(i)',
           settled'[i] # settled[i] => invoice[i].st \notin {"draft", "deleted"}
    PROVE  Lifecycle!Receive(i)
  <1>1. /\ settled \in [Invoices -> Nat] /\ settled' \in [Invoices -> Nat]
        /\ Total[i] \in Nat
    BY ConstantsAssumption DEF IInv, TypeOK
  <1>2. settled' = [settled EXCEPT ![i] = settled'[i]] /\ settled'[i] >= settled[i]
    BY <1>1
  <1>3. Money[i] => Money'[i]
    <2>1. FullySettled(i) => FullySettled(i)'
      BY <1>1 DEF FullySettled
    <2> QED
      BY <2>1, MoneyIn
  <1>4. Money' = [Money EXCEPT ![i] = Money'[i]]
    <2>1. Money = [j \in Invoices |-> Money[j]] /\ Money' = [j \in Invoices |-> Money'[j]]
      BY Zenon DEF Money
    <2> QED
      BY <2>1
  <1>5. Status' = Status /\ Status[i] = invoice[i].st
    BY DEF Status
  <1> QED
    BY <1>2, <1>3, <1>4, <1>5 DEF Lifecycle!Receive

\* A step that moves one invoice along an edge, and no money.
LEMMA Moved ==
    ASSUME IInv, NEW i \in Invoices, NEW st, SetInvoice(i, st),
           UNCHANGED <<payment, ledger, captured>>
    PROVE  /\ Status[i] = invoice[i].st /\ Lifecycle!Moves(i, st)
           /\ UNCHANGED <<settled, Money>>
  <1>1. invoice \in [Invoices -> InvoiceRow]
    BY DEF IInv, TypeOK
  <1>2. Status' = [Status EXCEPT ![i] = st]
    BY <1>1 DEF SetInvoice, Status, InvoiceRow
  <1>3. \A j \in Invoices : Money'[j] = Money[j]
    BY SameMoney DEF ledger
  <1> QED
    BY <1>2, <1>3 DEF Status, Lifecycle!Moves, ledger, Money

\* The steps of a handler that write the invoice.
LEMMA LifeWrites ==
    ASSUME IInv, HoldInv, NEW s \in Servers,
           \/ MarkPaid(s) \/ WriteFinalize(s) \/ SetPrepaid(s)
           \/ WriteDeclarePaid(s) \/ WriteVoid(s) \/ WriteDeleteInvoice(s)
    PROVE  [Lifecycle!Next]_(Lifecycle!vars)
  <1> DEFINE i == req[s].inv
  <1>1. /\ i \in Invoices /\ req[s].pc # "idle"
        /\ invoice \in [Invoices -> InvoiceRow] /\ settled[i] \in Nat /\ Total[i] \in Nat
        /\ fromWallet[i] \in Nat /\ fromWallet[i] <= settled[i] /\ req[s].amt \in Nat
        /\ RequestOK(s) /\ StillHolds(s)
    <2>1. req[s].pc # "idle"
      BY DEF MarkPaid, WriteFinalize, SetPrepaid, WriteDeclarePaid, WriteVoid,
             WriteDeleteInvoice, At
    <2>2. i \in Invoices
      BY <2>1, Requests
    <2> QED
      BY <2>1, <2>2, ConstantsAssumption DEF IInv, TypeOK, Request, HoldInv
  <1> HIDE DEF i
  <1> USE DEF history, provider
  <1>2. CASE MarkPaid(s)
    <2>1. SetInvoice(i, "paid") /\ UNCHANGED <<payment, ledger, captured, declared>>
      BY <1>2 DEF MarkPaid, i
    <2>2. invoice[i].st = "finalized" /\ Money[i]
      BY <1>1, <1>2 DEF MarkPaid, At, StillHolds, ReadsFinalized, RequestOK, Money, FullySettled, i
    <2>3. Lifecycle!Pay(i)
      BY <1>1, <2>1, <2>2, Moved DEF Lifecycle!Pay
    <2> QED
      BY <1>1, <2>3 DEF Lifecycle!Next
  <1>3. CASE WriteFinalize(s)
    <2>1. SetInvoice(i, "finalized") /\ UNCHANGED <<payment, ledger, captured, declared>>
      BY <1>3 DEF WriteFinalize, i
    <2>2. invoice[i].st = "draft"
      BY <1>1, <1>3 DEF WriteFinalize, StillHolds, ReadsDraft, i
    <2>3. Lifecycle!Finalize(i)
      BY <1>1, <2>1, <2>2, Moved DEF Lifecycle!Finalize
    <2> QED
      BY <1>1, <2>3 DEF Lifecycle!Next
  <1>4. CASE SetPrepaid(s)
    <2>1. /\ UNCHANGED <<payment, ledger, captured, declared>>
          /\ invoice[i].st = "finalized" /\ req[s].amt <= fromWallet[i]
      BY <1>1, <1>4 DEF SetPrepaid, At, StillHolds, ReadsFinalized, RequestOK, i
    <2>2. UNCHANGED <<settled, Money>>
      <3>1. \A j \in Invoices : Money'[j] = Money[j]
        BY <2>1, SameMoney DEF ledger
      <3> QED
        BY <2>1, <3>1 DEF Money, ledger
    <2>3. CASE CoveredByWallet(s)
      <3>1. Status' = [Status EXCEPT ![i] = "paid"]
        <4>1. invoice' = [invoice EXCEPT ![i] = [st |-> "paid", prepaid |-> req[s].amt]]
          BY <1>1, <1>4, <2>3 DEF SetPrepaid, i
        <4> QED
          BY <1>1, <4>1 DEF Status
      <3>2. Status[i] = "finalized" /\ Money[i]
        <4>1. FullySettled(i)
          BY <1>1, <2>1, <2>3 DEF CoveredByWallet, FullySettled, i
        <4> QED
          BY <1>1, <2>1, <4>1, MoneyIn DEF Status
      <3>3. Lifecycle!Pay(i)
        BY <2>1, <2>2, <3>1, <3>2 DEF Lifecycle!Pay, Lifecycle!Moves
      <3> QED
        BY <1>1, <3>3 DEF Lifecycle!Next
    <2>4. CASE ~CoveredByWallet(s)
      <3>1. Status' = Status
        BY <1>1, <1>4, <2>4 DEF SetPrepaid, Status, i
      <3> QED
        BY <2>1, <2>2, <3>1 DEF Lifecycle!vars
    <2> QED
      BY <2>3, <2>4
  <1>5. CASE WriteDeclarePaid(s)
    <2>1. /\ SetInvoice(i, "paid") /\ UNCHANGED <<payment, ledger, captured>>
          /\ declared' = [declared EXCEPT ![i] = TRUE]
      BY <1>5 DEF WriteDeclarePaid, i
    <2>2. invoice[i].st = "finalized"
      BY <1>1, <1>5 DEF WriteDeclarePaid, At, StillHolds, ReadsFinalized, i
    <2>3. Lifecycle!Declare(i)
      BY <1>1, <2>1, <2>2, Moved DEF Lifecycle!Declare
    <2> QED
      BY <1>1, <2>3 DEF Lifecycle!Next
  <1>6. CASE WriteVoid(s)
    <2>1. SetInvoice(i, "voided") /\ UNCHANGED <<payment, ledger, captured, declared>>
      BY <1>6 DEF WriteVoid, i
    <2>2. invoice[i].st \in {"draft", "finalized", "voided"}
      BY <1>1, <1>6 DEF WriteVoid, At, StillHolds, i
    <2>3. /\ Status[i] = invoice[i].st /\ Status' = [Status EXCEPT ![i] = "voided"]
          /\ UNCHANGED <<settled, Money>>
      BY <1>1, <2>1, Moved DEF Lifecycle!Moves
    <2>4. CASE invoice[i].st = "voided"
      <3>1. Status' = Status
        BY <2>3, <2>4 DEF Status
      <3> QED
        BY <2>1, <2>3, <3>1 DEF Lifecycle!vars
    <2>5. CASE invoice[i].st # "voided"
      <3>1. Lifecycle!Void(i)
        BY <2>1, <2>2, <2>3, <2>5 DEF Lifecycle!Void, Lifecycle!Moves
      <3> QED
        BY <1>1, <3>1 DEF Lifecycle!Next
    <2> QED
      BY <2>4, <2>5
  <1>7. CASE WriteDeleteInvoice(s)
    <2>1. UNCHANGED <<payment, ledger, captured, declared>>
      BY <1>7 DEF WriteDeleteInvoice
    <2>2. CASE Referenced(i)
      <3>1. UNCHANGED invoice
        BY <1>7, <2>2 DEF WriteDeleteInvoice, i
      <3>2. Status' = Status /\ UNCHANGED <<settled, Money>>
        <4>1. \A j \in Invoices : Money'[j] = Money[j]
          BY <2>1, SameMoney DEF ledger
        <4> QED
          BY <2>1, <3>1, <4>1 DEF Status, Money, ledger
      <3> QED
        BY <2>1, <3>2 DEF Lifecycle!vars
    <2>3. CASE ~Referenced(i)
      <3>1. SetInvoice(i, "deleted")
        BY <1>7, <2>3 DEF WriteDeleteInvoice, i
      <3>2. invoice[i].st = "draft" /\ settled[i] = 0
        BY <1>1, <1>7, <2>3 DEF WriteDeleteInvoice, At, StillHolds, ReadsDraft, Referenced, i
      <3>3. Lifecycle!Delete(i)
        BY <1>1, <2>1, <3>1, <3>2, Moved DEF Lifecycle!Delete
      <3> QED
        BY <1>1, <3>3 DEF Lifecycle!Next
    <2> QED
      BY <2>2, <2>3
  <1> QED
    BY <1>2, <1>3, <1>4, <1>5, <1>6, <1>7

\* A handler's step that leaves the invoices alone receives money for its own
\* invoice, or none.
LEMMA LifeReceives ==
    ASSUME IInv, IInv', UntouchedInv, NEW s \in Servers, Continue(s),
           UNCHANGED <<invoice, declared>>
    PROVE  [Lifecycle!Next]_(Lifecycle!vars)
  <1>0. PICK i : i = req[s].inv
    OBVIOUS
  <1>1. /\ settled \in [Invoices -> Nat] /\ fromWallet \in [Invoices -> Nat]
        /\ captured \in [PaymentIds -> Nat] /\ req[s].amt \in Nat
        /\ Total \in [Invoices -> Nat] /\ NoInvoice \notin Invoices /\ created \in Nat
        /\ TypeOK'
    BY ConstantsAssumption DEF IInv, TypeOK, Request
  <1>2. req[s].pc # "idle" => i \in Invoices
    BY <1>0, Requests
  <1>3. ASSUME NEW p \in PaymentIds
        PROVE  \/ payment'[p].inv = payment[p].inv
               \/ /\ payment[p].inv = NoInvoice /\ payment'[p].inv = i
                  /\ req[s].pc \in Creating
    <2>1. p = created + 1 => payment[p].inv = NoInvoice
      BY <1>1 DEF IInv, RowOK
    <2> QED
      BY <1>0, <2>1, Rows
  <1>4. ASSUME NEW j \in Invoices, j # i, settled'[j] = settled[j],
               fromWallet'[j] = fromWallet[j],
               \A p \in PaymentIds : payment[p].inv = j => captured'[p] = captured[p]
        PROVE  Money'[j] = Money[j]
    BY <1>1, <1>3, <1>4, SameMoney
  <1>5. ASSUME UNCHANGED captured, NEW j \in Invoices, fromWallet[j] <= fromWallet'[j],
               Charged(j)
        PROVE  Charged(j)'
    <2>1. PICK p \in PaymentIds :
            payment[p].inv = j /\ captured[p] + fromWallet[j] >= Total[j]
      BY <1>5 DEF Charged
    <2>2. payment'[p].inv = j
      BY <1>1, <1>3, <2>1
    <2>3. captured'[p] + fromWallet'[j] >= Total[j]
      BY <1>1, <1>5, <2>1 DEF TypeOK
    <2> QED
      BY <2>2, <2>3 DEF Charged
  <1>6. CASE Settle(s) \/ SettleWallet(s)
    <2>1. /\ i \in Invoices /\ invoice[i].st \notin {"draft", "deleted"}
          /\ UNCHANGED captured
      BY <1>0, <1>2, <1>6 DEF Settle, SettleWallet, At, UntouchedInv, OnAccount, provider
    <2>2. /\ settled[i] <= settled'[i] /\ fromWallet[i] <= fromWallet'[i]
          /\ \A j \in Invoices \ {i} : settled'[j] = settled[j] /\ fromWallet'[j] = fromWallet[j]
      BY <1>0, <1>1, <1>6, <2>1 DEF Settle, SettleWallet, WalletSettlement
    <2>3. Lifecycle!Receive(i)
      BY <1>1, <1>4, <1>5, <2>1, <2>2, Received
    <2> QED
      BY <2>1, <2>3 DEF Lifecycle!Next
  <1>7. CASE Charge(s)
    <2>1. /\ i \in Invoices /\ req[s].pay \in PaymentIds /\ payment[req[s].pay].inv = i
          /\ req[s].amt + fromWallet[i] >= Total[i]
          /\ UNCHANGED <<payment, settled, fromWallet>>
          /\ UNCHANGED captured \/ captured' = [captured EXCEPT ![req[s].pay] = req[s].amt]
      <3>1. /\ req[s].pc = "charge" /\ UNCHANGED <<payment, settled, fromWallet>>
            /\ UNCHANGED captured \/ captured' = [captured EXCEPT ![req[s].pay] = req[s].amt]
        BY <1>7 DEF Charge, At, db, ledger
      <3>2. RequestOK(s)
        BY DEF IInv
      <3> QED
        BY <1>0, <1>2, <3>1, <3>2, Rows DEF RequestOK, Charging
    <2>2. Charged(i) => Charged(i)'
      <3>1. CASE UNCHANGED captured
        BY <1>1, <1>5, <2>1, <3>1
      <3>2. CASE captured' = [captured EXCEPT ![req[s].pay] = req[s].amt]
        <4>1. captured'[req[s].pay] = req[s].amt
          BY <1>1, <2>1, <3>2
        <4> QED
          BY <2>1, <4>1 DEF Charged
      <3> QED
        BY <2>1, <3>1, <3>2
    <2>3. ASSUME NEW j \in Invoices \ {i} PROVE Money'[j] = Money[j]
      BY <1>1, <1>4, <2>1
    <2> QED
      <3>1. settled[i] <= settled'[i] /\ \A j \in Invoices : settled'[j] = settled[j]
        BY <1>1, <2>1
      <3>2. Lifecycle!Receive(i)
        BY <1>1, <2>1, <2>2, <2>3, <3>1, Received
      <3> QED
        BY <2>1, <3>2 DEF Lifecycle!Next
  <1>8. CASE ~(Settle(s) \/ SettleWallet(s) \/ Charge(s))
    <2>1. UNCHANGED <<settled, fromWallet, captured>>
      BY <1>8, ContinueWrites DEF ledger
    <2>2. CASE req[s].pc \in Creating
      <3>1. i \in Invoices
        BY <1>2, <2>2 DEF Creating
      <3>2. \A j \in Invoices \ {i} : Money'[j] = Money[j]
        BY <1>4, <2>1
      <3>3. settled[i] <= settled'[i] /\ (Charged(i) => Charged(i)')
        BY <1>1, <1>5, <2>1, <3>1
      <3>4. Lifecycle!Receive(i)
        BY <1>1, <2>1, <3>1, <3>2, <3>3, Received
      <3> QED
        BY <3>1, <3>4 DEF Lifecycle!Next
    <2>3. CASE req[s].pc \notin Creating
      <3>1. \A j \in Invoices : Money'[j] = Money[j]
        BY <1>3, <2>1, <2>3, SameMoney
      <3>2. Status' = Status /\ Money' = Money
        BY <3>1 DEF Status, Money
      <3> QED
        BY <2>1, <3>2 DEF Lifecycle!vars
    <2> QED
      BY <2>2, <2>3
  <1> QED
    BY <1>6, <1>7, <1>8

\* Every step moves an invoice along its life, or is none for it.
LEMMA LifeNext ==
    ASSUME IInv, IInv', HoldInv, UntouchedInv, [Next]_vars
    PROVE  [Lifecycle!Next]_(Lifecycle!vars)
  <1>1. ASSUME UNCHANGED <<invoice, payment, settled, fromWallet, captured, declared>>
        PROVE  UNCHANGED Lifecycle!vars
    <2>1. \A j \in Invoices : Money'[j] = Money[j]
      BY <1>1, SameMoney
    <2> QED
      BY <1>1, <2>1 DEF Status, Money, Lifecycle!vars
  <1>2. ASSUME NEW s \in Servers, Continue(s) PROVE [Lifecycle!Next]_(Lifecycle!vars)
    BY <1>2, ContinueWrites, LifeWrites, LifeReceives
  <1>3. ASSUME NEW s \in Servers, NEW i \in Invoices, NEW st \in PutStatuses,
               UpdateInvoice(s, i, st)
        PROVE  Lifecycle!Next
    <2>1. /\ SetInvoice(i, st) /\ UNCHANGED <<payment, ledger, captured>>
          /\ invoice[i].st # "deleted"
          /\ declared' = [declared EXCEPT ![i] = @ \/ st = "paid"]
      BY <1>3 DEF UpdateInvoice, provider
    <2>2. Lifecycle!Put(i, st)
      BY <2>1, Moved DEF Lifecycle!Put
    <2> QED
      BY <2>2 DEF Lifecycle!Next
  <1>4. ASSUME NEW s \in Servers, Arrive(s) PROVE [Lifecycle!Next]_(Lifecycle!vars)
    BY <1>1, <1>3, <1>4, ArriveWrites DEF ledger, provider
  <1>5. ASSUME NEW s \in Servers, Crash(s) PROVE UNCHANGED Lifecycle!vars
    BY <1>1, <1>5 DEF Crash, db, ledger, provider
  <1>6. ASSUME NEW s \in Servers, NEW e \in events, Delivery(s, e)
        PROVE  UNCHANGED Lifecycle!vars
    BY <1>1, <1>6 DEF Delivery, Receive, Ignore, db, ledger, provider, history
  <1>7. ASSUME NEW p \in PaymentIds, CustomerPays(p) PROVE Lifecycle!Next
    <2>0. PICK i \in Invoices : i = payment[p].inv
      <3>1. created \in Nat /\ session[p] \in {"open", "waiting"} /\ RowOK(p) /\ p \in Nat
        BY <1>7 DEF CustomerPays, IInv, TypeOK, PaymentIds
      <3> QED
        BY <3>1 DEF RowOK
    <2>1. /\ payment[p].inv = i /\ Total[i] \in Nat /\ fromWallet[i] \in Nat
          /\ settled \in [Invoices -> Nat] /\ captured \in [PaymentIds -> Nat]
      BY <2>0, ConstantsAssumption DEF IInv, TypeOK
    <2>2. /\ UNCHANGED <<invoice, payment, settled, fromWallet, declared>>
          /\ captured' = [captured EXCEPT ![p] = Total[i]]
      BY <1>7, <2>1 DEF CustomerPays, db, ledger, history
    <2>3. \A j \in Invoices \ {i} : settled'[j] = settled[j] /\ Money'[j] = Money[j]
      BY <2>1, <2>2, SameMoney
    <2>4. Charged(i)'
      BY <2>1, <2>2 DEF Charged
    <2>5. settled[i] <= settled'[i]
      BY <2>1, <2>2
    <2>6. Lifecycle!Receive(i)
      BY <2>1, <2>2, <2>3, <2>4, <2>5, Received DEF IInv
    <2> QED
      BY <2>1, <2>6 DEF Lifecycle!Next
  <1>8. ASSUME NEW p \in PaymentIds, CustomerWaits(p) \/ CustomerDeclined(p) \/ SessionExpires(p)
        PROVE  UNCHANGED Lifecycle!vars
    BY <1>1, <1>8 DEF CustomerWaits, CustomerDeclined, SessionExpires, db, ledger, history
  <1>9. CASE UNCHANGED vars
    BY <1>1, <1>9 DEF vars
  <1> QED
    BY <1>2, <1>4, <1>5, <1>6, <1>7, <1>8, <1>9 DEF Next, Rest, Customer

\* With one API process, and no PUT that makes a draft, the life of every invoice
\* is one that InvoiceLifecycle allows: whatever webhooks, retries, late handlers
\* and crashes do, its status moves along the edges of finalize, void, delete, pay
\* and PUT only; it is PAID from FINALIZED and once its money came in, or declared;
\* nothing is settled on a draft and no draft with a settlement goes.
THEOREM LifecycleImplemented ==
    ASSUME OneServer, "draft" \notin PutStatuses PROVE Spec => IsLifecycle
  <1>1. Init => Lifecycle!Init
    <2> SUFFICES ASSUME Init PROVE Lifecycle!Init
      OBVIOUS
    <2>1. Status = [i \in Invoices |-> "draft"]
      BY DEF Init, Status
    <2>2. Money \in [Invoices -> BOOLEAN]
      <3>1. \A i \in Invoices : Money[i] \in BOOLEAN
        BY Zenon, MoneyIn DEF Money
      <3> QED
        BY <3>1 DEF Money
    <2> QED
      BY <2>1, <2>2 DEF Init, Lifecycle!Init
  <1>2. IInv /\ IInv' /\ HoldInv /\ UntouchedInv /\ [Next]_vars
          => [Lifecycle!Next]_(Lifecycle!vars)
    BY LifeNext
  <1>3. Spec => []UntouchedInv
    BY UntouchedAlways
  <1>4. Spec => []HoldInv
    BY ReadsStillHold
  <1> QED
    BY <1>1, <1>2, <1>3, <1>4, Invariant, PTL DEF Spec, IsLifecycle, Lifecycle!Spec

=============================================================================
