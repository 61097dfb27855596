\* Two events, each of either period; a threshold reached by the first, an alert
\* that goes off at each; two API processes and one worker, one fault.
SPECIFICATION Spec

CONSTANTS
    e1 = e1
    e2 = e2
    s1 = s1
    s2 = s2
    low = low
    each = each
    Servers = {s1, s2}
    Workers = {w1}
    Txns = {e1, e2}
    Thresholds = {low}
    Amount <- AmountMC
    Alerts = {each}
    Value <- ValueMC
    Recurring = {each}
    Dual = TRUE
    MaxPeriod = 1
    MaxBatch = 2
    MaxJobs = 1
    MaxFaults = 1

SYMMETRY Interchangeable

INVARIANTS
    CrossedOnce
    Noticed
    ToldOnce
