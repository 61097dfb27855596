\* One API process that may crash once between any two commits, a wallet that
\* covers nothing, half or all of the invoice, a default payment method, two
\* payments, the first of which may be paid late, and webhooks redelivered at
\* will.
SPECIFICATION Spec

CONSTANTS
    i1 = i1
    NoInvoice = NoInvoice
    Servers = {s1}
    Invoices = {i1}
    Total <- TotalMC
    Credits = {0, 1, 2}
    HasMethod = {i1}
    PaysLate = {1}
    Amounts = {1}
    PutStatuses = {}
    Redelivery = TRUE
    MaxPayments = 2
    MaxSettled = 2
    MaxCrashes = 1

INVARIANTS
    DraftIsUntouched
    ChargedOnce
    FullySettledIsPaid
    PrepaidIsConsumed

PROPERTIES
    IsLifecycle
    SettlesWhatSucceeded
