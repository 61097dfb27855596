\* No trial, no crash: what periods cost, in advance and in arrears, with
\* downgrades scheduled for their end.
SPECIFICATION Spec

CONSTANTS
    Worker = Worker
    NoPlan = NoPlan
    cheap = cheap
    dear = dear
    Servers = {s1}
    Plans = {cheap, dear}
    Price <- PriceMC
    Period = 3
    TrialDays = 0
    Advance = {TRUE, FALSE}
    Endings = {"invoice", "credit_note"}
    Scheduling = TRUE
    Puts = {}
    MaxDay = 4
    MaxInvoices = 2
    MaxCrashes = 0

INVARIANTS
    PeriodFairlyBilled
    CreditWithinCost
