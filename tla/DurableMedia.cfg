\* Two rows, two workers and an IA worker, with redeliveries and faults.
CONSTANTS
    Media = {m1, m2}
    Workers = {w1, w2}
    IaWorkers = {i1}
    NoWorker = NoWorker
    NoMsg = NoMsg
    MaxAttempts = 2
    MaxDeliveries = 1
    MaxFaults = 2
    LegacyRecovery = TRUE
SPECIFICATION FairSpec
INVARIANTS
    ResultOfLastAttempt
PROPERTIES
    VerdictByLastClaimant
    KeepsPromise
    EveryMediaDecided
CHECK_DEADLOCK FALSE
