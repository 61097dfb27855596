\* Two wallets of different rates and two API processes, either of which may
\* crash once; four operations begin.
SPECIFICATION Spec

CONSTANTS
    Servers = {s1, s2}
    Wallets = {1, 2}
    Rate <- RateMC
    Credits = {1, 2}
    Bills = {1, 3}
    MaxCalls = 4
    MaxCrashes = 1

INVARIANTS
    NeverOverdrawn
    TakenBeforeSettled
    BalanceIsLedgers

PROPERTIES
    PriorityRespected
    TerminatedIsFrozen
