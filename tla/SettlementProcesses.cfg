\* Two API processes interleave their commits on an invoice half covered by the
\* wallet, without a default payment method, and one payment; PUT reopens
\* invoices; one crash, under fairness.
SPECIFICATION FairSpec

CONSTANTS
    i1 = i1
    NoInvoice = NoInvoice
    Servers = {s1, s2}
    Invoices = {i1}
    Total <- TotalMC
    Credits = {1}
    HasMethod = {}
    PaysLate = {}
    Amounts = {}
    PutStatuses = {"finalized"}
    Redelivery = TRUE
    MaxPayments = 1
    MaxSettled = 2
    MaxCrashes = 1

INVARIANTS
    PaidIsCovered

PROPERTIES
    CapturedIsSettled
