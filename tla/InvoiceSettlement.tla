-------------------------- MODULE InvoiceSettlement --------------------------
(***************************************************************************)
(* How an invoice of bxb gets paid: the handlers of routers/invoices.py,   *)
(* routers/payments.py and the portal's "pay now", over the tables         *)
(* invoices, payments, invoice_settlements and the customer's wallet, and  *)
(* the payment provider that answers by webhooks.                          *)
(*                                                                         *)
(* Every repository method of the code commits on its own, so a handler is *)
(* a sequence of small transactions.  An API process runs one handler at a *)
(* time (they are coroutines that do not await between their commits) and  *)
(* req[s] is the point process s has reached: the step named by req[s].pc  *)
(* is the next repository or provider call it makes.  A process may crash, *)
(* or an exception may end the handler, between any two of them.           *)
(***************************************************************************)
EXTENDS Integers, FiniteSets

CONSTANTS
    Servers,       \* the API processes (the Dockerfile starts one)
    Invoices,
    NoInvoice,     \* the invoice of a process that serves none
    Total,         \* total_cents of each invoice
    Credits,       \* the balances the customer's wallet may start with
    HasMethod,     \* invoices whose customer has a default payment method
    PaysLate,      \* bound: payments whose checkout may be completed unpaid
    Amounts,       \* amounts of manual payments and of partial refunds
    PutStatuses,   \* the statuses clients write with PUT /invoices/{id}
    Redelivery,    \* the provider may deliver a webhook again
    MaxPayments,   \* bound: payment rows created in a behaviour
    MaxSettled,    \* bound: a payment that settled this much settles no more
    MaxCrashes     \* bound: crashes of an API process

ASSUME ConstantsAssumption ==
    /\ NoInvoice \notin Invoices
    /\ Total \in [Invoices -> Nat]
    /\ Credits \subseteq Nat
    /\ HasMethod \subseteq Invoices
    /\ PaysLate \subseteq Nat
    /\ Amounts \subseteq Nat \ {0}
    /\ PutStatuses \subseteq {"draft", "finalized", "paid", "voided"}
    /\ Redelivery \in BOOLEAN
    /\ MaxPayments \in Nat /\ MaxSettled \in Nat /\ MaxCrashes \in Nat

VARIABLES
    invoice,    \* table invoices: status, prepaid_credit_amount_cents
    payment,    \* table payments, by order of creation
    created,    \* payments created so far
    settled,    \* SUM(amount_cents) of the settlements of an invoice
    settledBy,  \* the part of it whose source is a given payment
    fromWallet, \* the part of it whose source is the wallet
    wallet,     \* balance_cents of the customer's wallet
    req,        \* what each API process is doing
    session,    \* provider: the checkout session made for a payment
    captured,   \* provider: the money taken for a payment
    events,     \* provider: webhooks on their way
    declared,   \* history: an operator declared the invoice paid
    crashes     \* history: crashes so far

ledger == <<settled, settledBy, fromWallet>>
db == <<invoice, payment, created, ledger, wallet>>
provider == <<session, captured, events>>
history == <<declared, crashes>>
vars == <<invoice, payment, created, settled, settledBy, fromWallet, wallet,
          req, session, captured, events, declared, crashes>>

PaymentIds == 1..MaxPayments
NoPayment == 0

InvoiceStatus == {"draft", "finalized", "paid", "voided"}
PaymentStatus == {"pending", "processing", "succeeded", "failed",
                  "refunded", "canceled"}
\* A "checkout.session.completed" whose payment_status is not "paid" is named
\* "checkout.session.unpaid" here.
EventTypes == {"checkout.session.completed", "checkout.session.unpaid",
               "checkout.session.expired", "payment_intent.succeeded",
               "payment_intent.payment_failed"}

InvoiceRow == [st : InvoiceStatus \cup {"deleted"}, prepaid : Nat]
PaymentRow == [st : PaymentStatus \cup {"none", "deleted"},
               inv : Invoices \cup {NoInvoice}, amt : Nat,
               url : BOOLEAN,   \* provider_checkout_url is set
               pid : BOOLEAN]   \* provider_payment_id is set

\* The steps at which a handler creates a payment row.
Creating == {"create_manual", "create_checkout", "create_charge"}
\* The steps of the finalize handler up to the one that may create a payment.
Finalizing == {"finalize", "get_wallets", "deduct_balance", "settle_wallet",
               "set_prepaid"}
Steps == Creating \cup Finalizing \cup
    {"idle", "mark_manual", "settle", "check_total", "mark_paid",
     "create_session", "set_checkout", "delete_payment",
     "mark_processing", "charge", "set_charge_id", "charge_result",
     "mark_charged", "set_payment_id", "webhook", "mark_payment",
     "mark_refunded", "retry", "bulk_finalize", "void", "declare_paid",
     "delete_invoice"}
Results == {"none", "succeeded", "failed", "canceled", "pending"}

Request == [pc : Steps, inv : Invoices \cup {NoInvoice},
            pay : PaymentIds \cup {NoPayment},
            amt : Nat,          \* the amount the handler works with
            res : Results]      \* what the provider or its webhook said
Idle == [pc |-> "idle", inv |-> NoInvoice, pay |-> NoPayment, amt |-> 0,
         res |-> "none"]

-----------------------------------------------------------------------------
(* The handlers' control. *)

At(s, step) == req[s].pc = step
Begin(s, step, i, p, a, r) ==
    /\ At(s, "idle")
    /\ req' = [req EXCEPT ![s] = [pc |-> step, inv |-> i, pay |-> p,
                                  amt |-> a, res |-> r]]
Goto(s, step) == req' = [req EXCEPT ![s].pc = step]
Return(s) == req' = [req EXCEPT ![s] = Idle]

(* Rows.  A query for a row that was deleted finds nothing: payments' mark *)
(* methods then return None and change nothing.                            *)
Exists(p) == p \in PaymentIds /\ payment[p].st \in PaymentStatus
PaymentsOf(i) == {p \in PaymentIds : Exists(p) /\ payment[p].inv = i}
SetStatus(p, st) ==
    payment' = IF Exists(p) THEN [payment EXCEPT ![p].st = st] ELSE payment
SetInvoice(i, st) == invoice' = [invoice EXCEPT ![i].st = st]

(* The bounds: room for one more payment, the ones that handlers are about *)
(* to create counted, so that MaxPayments never stops a handler half way;  *)
(* and a payment's first settlement is never held back.                    *)
Room == LET busy == {s \in Servers : req[s].pc \in Creating \cup Finalizing}
        IN  created + Cardinality(busy) < MaxPayments
Below(p) == settledBy[p] < MaxSettled

\* PaymentRepository.create: a pending payment; the process goes on to step.
CreatePayment(s, i, a, step) ==
    LET p == created + 1 IN
    /\ p \in PaymentIds
    /\ created' = p
    /\ payment' = [payment EXCEPT ![p] =
                     [st |-> "pending", inv |-> i, amt |-> a,
                      url |-> FALSE, pid |-> FALSE]]
    /\ req' = [req EXCEPT ![s] = [pc |-> step, inv |-> i, pay |-> p,
                                  amt |-> a, res |-> "none"]]

-----------------------------------------------------------------------------
(* The decisions the handlers take, each followed by the use of it below.  *)
(* A definition named ..Wrong is not used: it is the decision a plausible  *)
(* mistake would take, kept to show which property notices it.             *)

\* record_manual_payment, create_checkout_session, pay_portal_invoice
PayableWrong(i) == invoice[i].st # "paid"
Payable(i) == invoice[i].st = "finalized"

\* InvoiceRepository.finalize, .void
FinalizableWrong(i) == invoice[i].st \in {"draft", "finalized"}
Finalizable(i) == invoice[i].st = "draft"
VoidableWrong(i) == invoice[i].st \in InvoiceStatus
Voidable(i) == invoice[i].st \in InvoiceStatus \ {"paid"}

\* total_settled >= total_cents
OverSettledWrong(i) == settled[i] > Total[i]
FullySettled(i) == settled[i] >= Total[i]

\* consume_credits takes no more than the balance and the invoice's total.
Consumable(balance, i) == IF balance < Total[i] THEN balance ELSE Total[i]
\* What the wallet gave covers the invoice: remaining_amount <= 0.
CoveredByWalletWrong(s) == req[s].amt > 0
CoveredByWallet(s) == req[s].amt >= Total[req[s].inv]
\* The amount of the settlement a wallet's consumption records.
WalletSettlementWrong(s) == Total[req[s].inv]
WalletSettlement(s) == req[s].amt

\* The result of a webhook after which a settlement is recorded.
SettlesWrong(result) == result # "canceled"
Settles(result) == result = "succeeded"

\* How a webhook finds its payment: a checkout event names the session and
\* carries the payment's id in its metadata; an intent event is found by
\* provider_payment_id only.
NamesWrong(e, p) == e.pay = p /\ Exists(p) /\ payment[p].pid
Names(e, p) ==
    /\ e.pay = p /\ Exists(p)
    /\ e.type \in {"payment_intent.succeeded", "payment_intent.payment_failed"}
          => payment[p].pid

-----------------------------------------------------------------------------
(* POST /payments/record *)

RecordManual(s, i, a) ==
    /\ Payable(i) /\ Room
    /\ Begin(s, "create_manual", i, NoPayment, a, "none")
    /\ UNCHANGED <<db, provider, history>>

CreateManual(s) ==
    /\ At(s, "create_manual")
    /\ invoice[req[s].inv].st # "deleted"
    /\ CreatePayment(s, req[s].inv, req[s].amt, "mark_manual")
    /\ UNCHANGED <<invoice, ledger, wallet, provider, history>>

MarkManual(s) ==
    /\ At(s, "mark_manual")
    /\ SetStatus(req[s].pay, "succeeded")
    /\ Goto(s, "settle")
    /\ UNCHANGED <<invoice, created, ledger, wallet, provider, history>>

(* _record_settlement_and_maybe_mark_paid, the tail of every handler that  *)
(* learns that a payment succeeded: insert the settlement, read the status *)
(* of the invoice and the sum, then write PAID.  mark_paid looks at the    *)
(* status the session has already loaded, so the write is unconditional.   *)

Settle(s) ==
    LET r == req[s] IN
    /\ At(s, "settle")
    /\ invoice[r.inv].st # "deleted"
    /\ settled' = [settled EXCEPT ![r.inv] = @ + r.amt]
    /\ settledBy' = [settledBy EXCEPT ![r.pay] = @ + r.amt]
    /\ Goto(s, "check_total")
    /\ UNCHANGED <<invoice, payment, created, fromWallet, wallet, provider, history>>

CheckTotal(s) ==
    LET i == req[s].inv IN
    /\ At(s, "check_total")
    /\ IF invoice[i].st = "finalized" /\ FullySettled(i)
         THEN Goto(s, "mark_paid")
         ELSE Return(s)
    /\ UNCHANGED <<db, provider, history>>

MarkPaid(s) ==
    /\ At(s, "mark_paid")
    /\ SetInvoice(req[s].inv, "paid")
    /\ Return(s)
    /\ UNCHANGED <<payment, created, ledger, wallet, provider, history>>

-----------------------------------------------------------------------------
(* POST /payments/checkout and the portal's POST /invoices/{id}/pay *)

\* The newest pending payment of the invoice already has a checkout URL.
ReusesCheckout(i) ==
    \E p \in PaymentsOf(i) :
        /\ payment[p].st = "pending" /\ payment[p].url
        /\ \A q \in PaymentsOf(i) : payment[q].st = "pending" => q <= p

Checkout(s, i) ==
    /\ Payable(i) /\ Room
    /\ ~ReusesCheckout(i)
    /\ Begin(s, "create_checkout", i, NoPayment, Total[i], "none")
    /\ UNCHANGED <<db, provider, history>>

CreateCheckout(s) ==
    /\ At(s, "create_checkout")
    /\ invoice[req[s].inv].st # "deleted"
    /\ CreatePayment(s, req[s].inv, req[s].amt, "create_session")
    /\ UNCHANGED <<invoice, ledger, wallet, provider, history>>

\* The provider opens a session, or the call raises: ImportError ends the
\* handler (the row stays), any other exception deletes the row first.
CreateSession(s) ==
    LET p == req[s].pay IN
    /\ At(s, "create_session")
    /\ \/ /\ session' = [session EXCEPT ![p] = "open"]
          /\ Goto(s, "set_checkout")
       \/ Return(s) /\ UNCHANGED session
       \/ Goto(s, "delete_payment") /\ UNCHANGED session
    /\ UNCHANGED <<db, captured, events, history>>

SetCheckout(s) ==
    LET p == req[s].pay IN
    /\ At(s, "set_checkout")
    /\ payment' = IF Exists(p) THEN [payment EXCEPT ![p].url = TRUE]
                               ELSE payment
    /\ Return(s)
    /\ UNCHANGED <<invoice, created, ledger, wallet, provider, history>>

-----------------------------------------------------------------------------
(* POST /payments/webhook/{provider} *)

ResultOf(e) ==
    CASE e.type \in {"checkout.session.completed",
                     "payment_intent.succeeded"} -> "succeeded"
      [] e.type = "payment_intent.payment_failed" -> "failed"
      [] e.type = "checkout.session.expired" -> "canceled"
      [] e.type = "checkout.session.unpaid" -> "pending"

Acknowledge(e) == events' = IF Redelivery THEN events ELSE events \ {e}

Receive(s, e) ==
    LET p == e.pay
        unset == e.type # "checkout.session.expired" /\ ~payment[p].pid
    IN
    /\ Names(e, p)
    /\ Settles(ResultOf(e)) => Below(p)
    /\ Begin(s, IF unset THEN "set_payment_id" ELSE "webhook",
             payment[p].inv, p, payment[p].amt, ResultOf(e))
    /\ Acknowledge(e)
    /\ UNCHANGED <<db, session, captured, history>>

\* "Payment not found - might be for a different system": answered 200.
Ignore(s, e) ==
    /\ At(s, "idle")
    /\ ~Names(e, e.pay)
    /\ Acknowledge(e)
    /\ UNCHANGED <<db, req, session, captured, history>>

SetPaymentId(s) ==
    LET p == req[s].pay IN
    /\ At(s, "set_payment_id")
    /\ payment' = IF Exists(p) THEN [payment EXCEPT ![p].pid = TRUE]
                               ELSE payment
    /\ Goto(s, "webhook")
    /\ UNCHANGED <<invoice, created, ledger, wallet, provider, history>>

\* The status of the payment is not looked at.  A success goes on to settle
\* what the row says now; reading a deleted row raises.  "pending" is no branch
\* of the handler: it has stored the provider's id and changes no status.
Webhook(s) ==
    LET p == req[s].pay
        r == req[s].res
    IN
    /\ At(s, "webhook")
    /\ IF r = "pending" THEN UNCHANGED payment ELSE SetStatus(p, r)
    /\ IF Settles(r) /\ Exists(p)
         THEN req' = [req EXCEPT ![s].pc = "settle", ![s].amt = payment[p].amt]
         ELSE Return(s)
    /\ UNCHANGED <<invoice, created, ledger, wallet, provider, history>>

-----------------------------------------------------------------------------
(* POST /payments/{id}/mark-paid, /refund, /retry and DELETE: the status is *)
(* checked when the row is read and overwritten in a later transaction.     *)

Operate(s, p, from, step, a) ==
    /\ payment[p].st = from
    /\ Begin(s, step, payment[p].inv, p, a, "none")
    /\ UNCHANGED <<db, provider, history>>

MarkPaymentPaid(s, p) ==
    /\ Operate(s, p, "pending", "mark_payment", payment[p].amt)
    /\ Below(p)
\* A partial refund keeps the rest of the amount, one without an amount all
\* of it (a = 0); what is written is computed from the row as it was read.
Refund(s, p, a) ==
    /\ a <= payment[p].amt
    /\ Operate(s, p, "succeeded", "mark_refunded", payment[p].amt - a)
Retry(s, p) == Operate(s, p, "failed", "retry", 0)
DeletePayment(s, p) == Operate(s, p, "pending", "delete_payment", 0)

WriteMarkPayment(s) ==
    LET p == req[s].pay IN
    /\ At(s, "mark_payment")
    /\ SetStatus(p, "succeeded")
    /\ IF Exists(p) THEN Goto(s, "settle") ELSE Return(s)
    /\ UNCHANGED <<invoice, created, ledger, wallet, provider, history>>

WriteRefund(s) ==
    LET p == req[s].pay IN
    /\ At(s, "mark_refunded")
    /\ payment' = IF Exists(p)
                    THEN [payment EXCEPT ![p].st = "refunded",
                                         ![p].amt = req[s].amt]
                    ELSE payment
    /\ Return(s)
    /\ UNCHANGED <<invoice, created, ledger, wallet, provider, history>>

WriteRetry(s) ==
    /\ At(s, "retry")
    /\ SetStatus(req[s].pay, "pending")
    /\ Return(s)
    /\ UNCHANGED <<invoice, created, ledger, wallet, provider, history>>

WriteDelete(s) ==
    /\ At(s, "delete_payment")
    /\ SetStatus(req[s].pay, "deleted")
    /\ Return(s)
    /\ UNCHANGED <<invoice, created, ledger, wallet, provider, history>>

-----------------------------------------------------------------------------
(* POST /invoices/{id}/finalize: finalize, apply the wallet, then charge   *)
(* the customer's default payment method.                                  *)

Finalize(s, i) ==
    /\ Finalizable(i) /\ Room
    /\ Begin(s, "finalize", i, NoPayment, 0, "none")
    /\ UNCHANGED <<db, provider, history>>

\* bulk_finalize applies no wallet and charges nothing.
BulkFinalize(s, i) ==
    /\ Finalizable(i)
    /\ Begin(s, "bulk_finalize", i, NoPayment, 0, "none")
    /\ UNCHANGED <<db, provider, history>>

WriteFinalize(s) ==
    LET i == req[s].inv IN
    /\ req[s].pc \in {"finalize", "bulk_finalize"}
    /\ invoice[i].st # "deleted"
    /\ SetInvoice(i, "finalized")
    /\ IF At(s, "finalize") /\ Total[i] > 0
         THEN req' = [req EXCEPT ![s].pc = "get_wallets",
                                 ![s].amt = invoice[i].prepaid]
         ELSE Return(s)
    /\ UNCHANGED <<payment, created, ledger, wallet, provider, history>>

\* consume_credits reads the balance; deduct_balance writes what it read less
\* the amount consumed, the settlement follows, and then the invoice.  With an
\* empty wallet the process keeps the prepaid credit the invoice already had.
GetWallets(s) ==
    /\ At(s, "get_wallets")
    /\ IF wallet > 0
         THEN req' = [req EXCEPT ![s].pc = "deduct_balance", ![s].amt = wallet]
         ELSE Goto(s, "create_charge")
    /\ UNCHANGED <<db, provider, history>>

DeductBalance(s) ==
    LET consumed == Consumable(req[s].amt, req[s].inv) IN
    /\ At(s, "deduct_balance")
    /\ wallet' = req[s].amt - consumed
    /\ req' = [req EXCEPT ![s].pc = "settle_wallet", ![s].amt = consumed]
    /\ UNCHANGED <<invoice, payment, created, ledger, provider, history>>

SettleWallet(s) ==
    LET i == req[s].inv IN
    /\ At(s, "settle_wallet")
    /\ invoice[i].st # "deleted"
    /\ settled' = [settled EXCEPT ![i] = @ + WalletSettlement(s)]
    /\ fromWallet' = [fromWallet EXCEPT ![i] = @ + WalletSettlement(s)]
    /\ Goto(s, "set_prepaid")
    /\ UNCHANGED <<invoice, payment, created, settledBy, wallet, provider,
                   history>>

SetPrepaid(s) ==
    LET i == req[s].inv IN
    /\ At(s, "set_prepaid")
    /\ invoice[i].st # "deleted"
    /\ invoice' = [invoice EXCEPT ![i] =
         [st |-> IF CoveredByWallet(s) THEN "paid" ELSE @.st, prepaid |-> req[s].amt]]
    /\ IF CoveredByWallet(s) \/ invoice[i].st # "finalized"
         THEN Return(s)
         ELSE Goto(s, "create_charge")
    /\ UNCHANGED <<payment, created, ledger, wallet, provider, history>>

\* Here req[s].amt is the prepaid credit.
NoCharge(s) ==
    LET i == req[s].inv IN
    /\ At(s, "create_charge")
    /\ i \notin HasMethod \/ req[s].amt >= Total[i]
    /\ Return(s)
    /\ UNCHANGED <<db, provider, history>>

CreateCharge(s) ==
    LET i == req[s].inv IN
    /\ At(s, "create_charge")
    /\ i \in HasMethod
    /\ invoice[i].st # "deleted"
    /\ req[s].amt < Total[i]
    /\ CreatePayment(s, i, Total[i] - req[s].amt, "mark_processing")
    /\ UNCHANGED <<invoice, ledger, wallet, provider, history>>

MarkProcessing(s) ==
    /\ At(s, "mark_processing")
    /\ SetStatus(req[s].pay, "processing")
    /\ Goto(s, "charge")
    /\ UNCHANGED <<invoice, created, ledger, wallet, provider, history>>

(* charge_payment_method: the provider takes the money or declines, and    *)
(* announces either by an intent event; or the call raises, with the money *)
(* taken or not, and the handler ends with the payment PROCESSING.  Every  *)
(* status of an intent but "succeeded" is answered as a failure, also that *)
(* of one still processing, whose money arrives.                           *)
Charge(s) ==
    LET p == req[s].pay
        says(t) == events' = events \cup {[type |-> t, pay |-> p]}
        taken == captured' = [captured EXCEPT ![p] = req[s].amt]
        answer(res) == req' = [req EXCEPT ![s].pc = "set_charge_id",
                                          ![s].res = res]
    IN
    /\ At(s, "charge")
    /\ \/ /\ taken /\ says("payment_intent.succeeded")
          /\ \E res \in {"succeeded", "failed"} : answer(res)
       \/ taken /\ says("payment_intent.succeeded") /\ Return(s)
       \/ /\ says("payment_intent.payment_failed") /\ answer("failed")
          /\ UNCHANGED captured
       \/ Return(s) /\ UNCHANGED <<captured, events>>
    /\ UNCHANGED <<db, session, history>>

\* The id of an intent that was declined may be missing from the provider's
\* error: then the row keeps none.
SetChargeId(s) ==
    LET p == req[s].pay IN
    /\ At(s, "set_charge_id")
    /\ \/ payment' = IF Exists(p) THEN [payment EXCEPT ![p].pid = TRUE]
                                  ELSE payment
       \/ req[s].res = "failed" /\ captured[p] = 0 /\ UNCHANGED payment
    /\ Goto(s, "charge_result")
    /\ UNCHANGED <<invoice, created, ledger, wallet, provider, history>>

ChargeResult(s) ==
    /\ At(s, "charge_result")
    /\ SetStatus(req[s].pay, req[s].res)
    /\ IF req[s].res = "succeeded" THEN Goto(s, "mark_charged") ELSE Return(s)
    /\ UNCHANGED <<invoice, created, ledger, wallet, provider, history>>

\* mark_paid of a successful charge: no settlement is recorded.
MarkCharged(s) ==
    /\ At(s, "mark_charged")
    /\ IF invoice[req[s].inv].st = "finalized"
         THEN Goto(s, "mark_paid")
         ELSE Return(s)
    /\ UNCHANGED <<db, provider, history>>

-----------------------------------------------------------------------------
(* The other operations on an invoice. *)

\* POST /invoices/{id}/pay
DeclarePaid(s, i) ==
    /\ invoice[i].st = "finalized"
    /\ Begin(s, "declare_paid", i, NoPayment, 0, "none")
    /\ UNCHANGED <<db, provider, history>>

WriteDeclarePaid(s) ==
    LET i == req[s].inv IN
    /\ At(s, "declare_paid")
    /\ invoice[i].st # "deleted"
    /\ SetInvoice(i, "paid")
    /\ declared' = [declared EXCEPT ![i] = TRUE]
    /\ Return(s)
    /\ UNCHANGED <<payment, created, ledger, wallet, provider, crashes>>

\* POST /invoices/{id}/void and bulk_void
Void(s, i) ==
    /\ Voidable(i)
    /\ Begin(s, "void", i, NoPayment, 0, "none")
    /\ UNCHANGED <<db, provider, history>>

WriteVoid(s) ==
    LET i == req[s].inv IN
    /\ At(s, "void")
    /\ invoice[i].st # "deleted"
    /\ SetInvoice(i, "voided")
    /\ Return(s)
    /\ UNCHANGED <<payment, created, ledger, wallet, provider, history>>

\* PUT /invoices/{id} writes any status.
UpdateInvoice(s, i, st) ==
    /\ At(s, "idle")
    /\ invoice[i].st # "deleted"
    /\ SetInvoice(i, st)
    /\ declared' = [declared EXCEPT ![i] = @ \/ st = "paid"]
    /\ UNCHANGED <<req, payment, created, ledger, wallet, provider, crashes>>

DeleteInvoice(s, i) ==
    /\ invoice[i].st = "draft"
    /\ Begin(s, "delete_invoice", i, NoPayment, 0, "none")
    /\ UNCHANGED <<db, provider, history>>

\* The foreign keys of payments and settlements are RESTRICT.
Referenced(i) == settled[i] > 0 \/ PaymentsOf(i) # {}

WriteDeleteInvoice(s) ==
    LET i == req[s].inv IN
    /\ At(s, "delete_invoice")
    /\ IF Referenced(i) THEN UNCHANGED invoice ELSE SetInvoice(i, "deleted")
    /\ Return(s)
    /\ UNCHANGED <<payment, created, ledger, wallet, provider, history>>

-----------------------------------------------------------------------------
(* Endings that are not a handler's own. *)

\* A write, or an insert that refers to the invoice, finds the invoice gone.
InvoiceGone(s) ==
    /\ req[s].pc \in Creating \cup
           {"settle", "finalize", "bulk_finalize", "settle_wallet", "set_prepaid",
            "declare_paid", "void"}
    /\ invoice[req[s].inv].st = "deleted"
    /\ Return(s)
    /\ UNCHANGED <<db, provider, history>>

Crash(s) ==
    /\ ~At(s, "idle")
    /\ crashes < MaxCrashes
    /\ crashes' = crashes + 1
    /\ Return(s)
    /\ UNCHANGED <<db, provider, declared>>

(* The customer at the provider's checkout page: a payment attempt may be  *)
(* declined and tried again in the same session, and the money of a slow   *)
(* method comes, or does not, after the session is completed unpaid.       *)

CustomerWaits(p) ==
    /\ session[p] = "open" /\ p \in PaysLate
    /\ session' = [session EXCEPT ![p] = "waiting"]
    /\ events' = events \cup {[type |-> "checkout.session.unpaid", pay |-> p]}
    /\ UNCHANGED <<db, req, captured, history>>

CustomerPays(p) ==
    /\ session[p] \in {"open", "waiting"}
    /\ session' = [session EXCEPT ![p] = "closed"]
    /\ captured' = [captured EXCEPT ![p] = Total[payment[p].inv]]
    /\ events' = events \cup
         {[type |-> t, pay |-> p] :
             t \in {"payment_intent.succeeded"} \cup
                     (IF session[p] = "open" THEN {"checkout.session.completed"}
                                             ELSE {})}
    /\ UNCHANGED <<db, req, history>>

CustomerDeclined(p) ==
    /\ session[p] \in {"open", "waiting"}
    /\ session' = [session EXCEPT ![p] = IF @ = "waiting" THEN "closed" ELSE @]
    /\ events' = events \cup
         {[type |-> "payment_intent.payment_failed", pay |-> p]}
    /\ UNCHANGED <<db, req, captured, history>>

SessionExpires(p) ==
    /\ session[p] = "open"
    /\ session' = [session EXCEPT ![p] = "closed"]
    /\ events' = events \cup {[type |-> "checkout.session.expired", pay |-> p]}
    /\ UNCHANGED <<db, req, captured, history>>

-----------------------------------------------------------------------------

Init ==
    /\ invoice = [i \in Invoices |-> [st |-> "draft", prepaid |-> 0]]
    /\ payment = [p \in PaymentIds |->
                     [st |-> "none", inv |-> NoInvoice, amt |-> 0,
                      url |-> FALSE, pid |-> FALSE]]
    /\ created = 0
    /\ settled = [i \in Invoices |-> 0]
    /\ settledBy = [p \in PaymentIds |-> 0]
    /\ fromWallet = [i \in Invoices |-> 0]
    /\ wallet \in Credits
    /\ req = [s \in Servers |-> Idle]
    /\ session = [p \in PaymentIds |-> "none"]
    /\ captured = [p \in PaymentIds |-> 0]
    /\ events = {}
    /\ declared = [i \in Invoices |-> FALSE]
    /\ crashes = 0

\* A request reaches an idle process.
Arrive(s) ==
    \/ \E i \in Invoices :
         \/ \E a \in Amounts : RecordManual(s, i, a)
         \/ \E st \in PutStatuses : UpdateInvoice(s, i, st)
         \/ Checkout(s, i) \/ Finalize(s, i) \/ BulkFinalize(s, i)
         \/ DeclarePaid(s, i) \/ Void(s, i) \/ DeleteInvoice(s, i)
    \/ \E p \in PaymentIds :
         \/ \E a \in Amounts \cup {0} : Refund(s, p, a)
         \/ MarkPaymentPaid(s, p) \/ Retry(s, p) \/ DeletePayment(s, p)

\* A webhook reaches an idle process.
Delivery(s, e) == Receive(s, e) \/ Ignore(s, e)

\* The handler a process runs takes its next step.
Continue(s) ==
    \/ CreateManual(s) \/ MarkManual(s)
    \/ Settle(s) \/ CheckTotal(s) \/ MarkPaid(s)
    \/ CreateCheckout(s) \/ CreateSession(s) \/ SetCheckout(s)
    \/ SetPaymentId(s) \/ Webhook(s)
    \/ WriteMarkPayment(s) \/ WriteRefund(s) \/ WriteRetry(s) \/ WriteDelete(s)
    \/ WriteFinalize(s) \/ GetWallets(s) \/ DeductBalance(s)
    \/ SettleWallet(s) \/ SetPrepaid(s)
    \/ NoCharge(s) \/ CreateCharge(s) \/ MarkProcessing(s) \/ Charge(s)
    \/ SetChargeId(s) \/ ChargeResult(s) \/ MarkCharged(s)
    \/ WriteDeclarePaid(s) \/ WriteVoid(s) \/ WriteDeleteInvoice(s)
    \/ InvoiceGone(s)

Customer(p) == \/ CustomerWaits(p) \/ CustomerPays(p)
               \/ CustomerDeclined(p) \/ SessionExpires(p)

\* Nobody has to call: with all processes idle the system may rest, so a
\* deadlock is a handler that cannot go on.
Rest == (\A s \in Servers : At(s, "idle")) /\ UNCHANGED vars

Next ==
    \/ Rest
    \/ \E s \in Servers : Arrive(s) \/ Continue(s) \/ Crash(s)
    \/ \E s \in Servers, e \in events : Delivery(s, e)
    \/ \E p \in PaymentIds : Customer(p)

Spec == Init /\ [][Next]_vars

(* A process that is not down finishes what it began; the provider sends a *)
(* webhook again until it is answered, so an event that can be received    *)
(* again and again is received.                                            *)
Fairness ==
    /\ \A s \in Servers : WF_vars(Continue(s))
    /\ \A p \in PaymentIds, t \in EventTypes :
         SF_vars(\E s \in Servers, e \in events :
                   e = [type |-> t, pay |-> p] /\ Receive(s, e))

FairSpec == Spec /\ Fairness

-----------------------------------------------------------------------------
(* Properties *)

\* Every variable holds values of its type.
TypeOK ==
    /\ invoice \in [Invoices -> InvoiceRow]
    /\ payment \in [PaymentIds -> PaymentRow]
    /\ created \in 0..MaxPayments
    /\ settled \in [Invoices -> Nat]
    /\ settledBy \in [PaymentIds -> Nat]
    /\ fromWallet \in [Invoices -> Nat]
    /\ wallet \in Nat
    /\ req \in [Servers -> Request]
    /\ session \in [PaymentIds -> {"none", "open", "waiting", "closed"}]
    /\ captured \in [PaymentIds -> Nat]
    /\ events \subseteq [type : EventTypes, pay : PaymentIds]
    /\ declared \in [Invoices -> BOOLEAN]
    /\ crashes \in 0..MaxCrashes

(* Safety, whatever the order of handlers, webhooks and crashes. *)

\* The money one payment of i brought in, with what the wallet gave, covers
\* the total.
Charged(i) == \E p \in PaymentIds :
    payment[p].inv = i /\ captured[p] + fromWallet[i] >= Total[i]

\* An invoice is PAID only if its settlements cover the total, or the provider
\* charged what the wallet left, or an operator said so: mark_paid is never
\* reached for money that did not arrive, whatever is redelivered, refunded,
\* retried or interleaved.
PaidIsCovered == \A i \in Invoices :
    invoice[i].st = "paid" => declared[i] \/ settled[i] >= Total[i] \/ Charged(i)

(* The inductive invariant behind PaidIsCovered: what the tables promise    *)
(* each other, and what a handler knows at each step.                      *)
RowOK(p) ==
    /\ payment[p].st = "none" => payment[p].inv = NoInvoice
    /\ payment[p].st # "none" => payment[p].inv \in Invoices
    /\ payment[p].st = "none" <=> p > created
    /\ session[p] \in {"open", "waiting"} => p <= created

Charging == {"mark_processing", "charge", "set_charge_id", "charge_result",
             "mark_charged"}
KnowsResult == {"set_payment_id", "webhook", "set_charge_id", "charge_result"}

RequestOK(s) ==
    LET r == req[s]
        covered == settled[r.inv] >= Total[r.inv] \/ Charged(r.inv)
    IN
    /\ r.pc # "idle" => r.inv \in Invoices
    /\ r.pc \in Charging \cup {"create_session"} =>
         r.pay \in 1..created /\ payment[r.pay].inv = r.inv
    /\ r.pc \in KnowsResult => r.res # "none"
    /\ r.pc \in {"get_wallets", "set_prepaid", "create_charge"} =>
         r.amt <= fromWallet[r.inv]
    /\ r.pc \in {"mark_processing", "charge"} =>
         r.amt + fromWallet[r.inv] >= Total[r.inv]
    /\ r.pc \in {"set_charge_id", "charge_result"} /\ r.res = "succeeded" => covered
    /\ r.pc \in {"mark_charged", "mark_paid"} => covered

IInv ==
    /\ TypeOK
    /\ \A p \in PaymentIds : RowOK(p)
    /\ \A s \in Servers : RequestOK(s)
    /\ \A i \in Invoices :
         invoice[i].prepaid <= fromWallet[i] /\ fromWallet[i] <= settled[i]
    /\ PaidIsCovered

\* A draft (or a deleted draft) has no payments and nothing settled, though
\* finalizing, deleting, paying and crashing interleave: finalize starts from
\* a clean account and a delete loses no money.
DraftIsUntouched == \A i \in Invoices :
    invoice[i].st \in {"draft", "deleted"} => settled[i] = 0 /\ PaymentsOf(i) = {}

\* The default payment method is charged at most once for an invoice, however
\* often finalize is called, crashes half way and is called again.
ByMethod(i) == {p \in PaymentIds :
    payment[p].inv = i /\ session[p] = "none" /\ captured[p] > 0}
ChargedOnce == \A i \in Invoices : Cardinality(ByMethod(i)) <= 1

\* With no crash between the settlement and mark_paid, an invoice that is
\* still FINALIZED when no handler runs has something left to settle.
FullySettledIsPaid ==
    crashes = 0 /\ (\A s \in Servers : At(s, "idle")) =>
        \A i \in Invoices : invoice[i].st = "finalized" /\ Total[i] > 0
                                => settled[i] < Total[i]

\* With no crash between the wallet and the invoice, prepaid_credit_amount is
\* what the wallet settled.
PrepaidIsConsumed ==
    crashes = 0 /\ (\A s \in Servers : At(s, "idle")) =>
        \A i \in Invoices : invoice[i].prepaid = fromWallet[i]

\* PAID and VOIDED are final: no webhook, retry or late handler reopens an
\* invoice or turns one into the other; only a PUT does.
ByPut == \E s \in Servers, i \in Invoices, st \in PutStatuses :
    UpdateInvoice(s, i, st)
ClosedIsFinal ==
    [][\A i \in Invoices : invoice[i].st \in {"paid", "voided"}
          => invoice'[i].st = invoice[i].st \/ ByPut]_vars

\* What all of this amounts to for an invoice is the life of InvoiceLifecycle: no
\* webhook, retry, late handler or crash takes its status along another edge than
\* finalize, void, delete and pay have there, marks it PAID before its money came
\* in, settles a draft, or drops a draft that something was settled on.
Status == [i \in Invoices |-> invoice[i].st]
Money == [i \in Invoices |-> FullySettled(i) \/ Charged(i)]
Lifecycle == INSTANCE InvoiceLifecycle WITH status <- Status, money <- Money
IsLifecycle == Lifecycle!Spec

\* A payment's settlement is recorded only while the payment is SUCCEEDED.
SettlesWhatSucceeded ==
    [][\A p \in PaymentIds :
          settledBy'[p] > settledBy[p] => payment[p].st = "succeeded"]_vars

\* The inductive invariant behind DraftIsUntouched, however many processes there
\* are: what a handler does to an account it does after the draft was finalized.
OnAccount == Creating \cup {"mark_manual", "settle", "get_wallets", "deduct_balance",
                           "settle_wallet"}
UntouchedInv ==
    /\ DraftIsUntouched
    /\ \A s \in Servers :
         /\ req[s].pc \in {"set_payment_id", "webhook", "mark_payment"} =>
              req[s].pay \in 1..created /\ payment[req[s].pay].inv = req[s].inv
         /\ req[s].pc \in OnAccount => invoice[req[s].inv].st # "draft"

(* The inductive invariants behind the others, of one API process, as       *)
(* the Dockerfile starts it.                                                *)
OneServer == \A s, t \in Servers : s = t

\* Nothing changes between a handler's steps, so the status that it read still
\* holds when it writes.
ReadsDraft == {"finalize", "bulk_finalize", "delete_invoice"}
ReadsFinalized == Creating \cup {"get_wallets", "deduct_balance", "settle_wallet",
    "set_prepaid", "mark_paid", "declare_paid"}

StillHolds(s) ==
    LET r == req[s] IN
    /\ r.pay # NoPayment => payment[r.pay].inv = r.inv
    /\ r.pc \in {"mark_manual", "settle"} => Exists(r.pay)
    /\ r.pc = "settle" => payment[r.pay].st = "succeeded"
    /\ r.pc \in ReadsDraft => invoice[r.inv].st = "draft"
    /\ r.pc \in ReadsFinalized => invoice[r.inv].st = "finalized"
    /\ r.pc = "void" => invoice[r.inv].st \in {"draft", "finalized", "voided"}

HoldInv == \A s \in Servers : StillHolds(s)

\* While no PUT makes a draft of an invoice: a draft has an empty account, the
\* finalize handler starts from it, and what it has settled is the wallet's.
Account(i) ==
    /\ invoice[i].st \in {"draft", "deleted"} =>
         /\ settled[i] = 0 /\ fromWallet[i] = 0 /\ invoice[i].prepaid = 0
         /\ \A p \in PaymentIds : payment[p].inv # i
    /\ \A p, q \in ByMethod(i) : p = q
    /\ crashes = 0 /\ invoice[i].prepaid # fromWallet[i] =>
         \E s \in Servers : req[s].pc = "set_prepaid" /\ req[s].inv = i

AccountOf(s) ==
    LET r == req[s] IN
    /\ r.pc \in Finalizing \cup {"create_charge", "mark_processing", "charge"} =>
         ByMethod(r.inv) = {}
    /\ r.pc \in {"get_wallets", "deduct_balance", "settle_wallet"} =>
         settled[r.inv] = 0 /\ fromWallet[r.inv] = 0
    /\ r.pc = "set_prepaid" => settled[r.inv] = r.amt /\ fromWallet[r.inv] = r.amt

AccountInv ==
    /\ \A p \in PaymentIds : captured[p] > 0 => p <= created
    /\ \A i \in Invoices : Account(i)
    /\ \A s \in Servers : AccountOf(s)

\* While no PUT makes a draft or a finalized invoice of one: what is settled
\* in full and not PAID yet is in the hands of a handler about to say so.
FullInv ==
    crashes = 0 =>
        \A i \in Invoices :
            invoice[i].st = "finalized" /\ Total[i] > 0 /\ settled[i] >= Total[i] =>
                \E s \in Servers :
                    /\ req[s].pc \in {"check_total", "mark_paid", "set_prepaid"}
                    /\ req[s].inv = i

(* Liveness, under FairSpec. *)

\* What a customer paid at the checkout is settled in the end, crashes and
\* out-of-order webhooks notwithstanding, unless the payment row was deleted.
CapturedIsSettled == \A p \in PaymentIds :
    (session[p] # "none" /\ captured[p] > 0) ~> (settledBy[p] > 0 \/ ~Exists(p))

(* What a comment of the repository says and the code does not keep: it is *)
(* refuted by a run of its own.                                            *)


=============================================================================
