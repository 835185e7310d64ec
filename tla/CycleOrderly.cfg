\* Two cycles that share a message, no worker outlives its lease, under
\* fairness.
CONSTANTS
    c1 = c1
    c2 = c2
    m1 = m1
    m2 = m2
    Cycles = {c1, c2}
    Media = {m1}
    Workers = {w1, w2}
    NoWorker = NoWorker
    NoCycle = NoCycle
    Histories <- TwoCycleHistories
    Prepared = {c1, c2}
    MaxRetries = 1
    MaxStarts = 2
    MaxFaults = 2
    LeaseOverrun = FALSE
SPECIFICATION FairSpec
INVARIANTS
    OneWorkerPerCycle
    EvidenceAgrees
    MessageClassifiedOnce
    CompletedIsEligible
PROPERTIES
    TerminalIsFinal
    EveryCycleSettles
    BlockedCycleRecovers
CHECK_DEADLOCK FALSE
