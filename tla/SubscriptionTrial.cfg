\* A trial of one day, paid in advance; the worker and one API process, either
\* of which may crash once, under fairness.
SPECIFICATION FairSpec

CONSTANTS
    Worker = Worker
    NoPlan = NoPlan
    cheap = cheap
    dear = dear
    Servers = {s1}
    Plans = {cheap, dear}
    Price <- PriceMC
    Period = 2
    TrialDays = 1
    Advance = {TRUE}
    Endings = {"skip"}
    Scheduling = FALSE
    Puts = {"active"}
    MaxDay = 2
    MaxInvoices = 1
    MaxCrashes = 1

INVARIANTS
    FeeOnce
    FeeAfterTrial

PROPERTIES
    EndedIsFinal
    TrialEnds
