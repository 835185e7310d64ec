\* One cycle with two media messages, two workers that may overrun leases.
CONSTANTS
    c1 = c1
    c2 = c2
    m1 = m1
    m2 = m2
    Cycles = {c1}
    Media = {m1, m2}
    Workers = {w1, w2}
    NoWorker = NoWorker
    NoCycle = NoCycle
    Histories <- OneCycleHistories
    Prepared = {c1}
    MaxRetries = 2
    MaxStarts = 2
    MaxFaults = 2
    LeaseOverrun = TRUE
SPECIFICATION Spec
SYMMETRY Symmetry
INVARIANTS
    VerdictNeedsMedia
CHECK_DEADLOCK FALSE
