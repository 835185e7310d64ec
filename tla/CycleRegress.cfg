\* A worker that outlives its lease reopens a completed cycle.
CONSTANTS
    c1 = c1
    c2 = c2
    m1 = m1
    m2 = m2
    Cycles = {c1}
    Media = {m1}
    Workers = {w1, w2}
    NoWorker = NoWorker
    NoCycle = NoCycle
    Histories <- StableHistory
    Prepared = {c1}
    MaxRetries = 2
    MaxStarts = 2
    MaxFaults = 2
    LeaseOverrun = TRUE
SPECIFICATION Spec
PROPERTIES
    TerminalIsFinal
CHECK_DEADLOCK FALSE
