\* Two keys, a thing with a unique identifier and one without, and two API
\* processes; a request is sent once too often, and one thing goes wrong: a reply
\* is lost, a process crashes, or records expire.
SPECIFICATION FairSpec

CONSTANTS
    k1 = k1
    k2 = k2
    customer = customer
    alert = alert
    Servers = {s1, s2}
    Keys = {k1, k2}
    Things = {customer, alert}
    Unique = {customer}
    Requests <- RequestsMC
    MaxDuplicates = 1
    MaxFaults = 1

INVARIANTS
    TypeOK
    ToldIsRecorded
    CreatedOnce
    ConflictIsForeign

PROPERTIES
    AnswerIsFinal
    IsAnswered
