\* Lists of two families with one push; a result that may be replaced,
\* a status and an orphan; two events and two racing deliveries.
CONSTANTS
    named = named
    junk = junk
    Order <- IAThenImage
    Values = {named, junk}
    Malformed = {junk}
    InitialLists <- LeftBehind
    MaxItems = 2
    MaxPushes = 1
    OldInstancesDuringApply = FALSE
    p1 = p1
    p2 = p2
    bad = bad
    r1 = r1
    ResultKeys = {r1}
    StatusKeys = {s1}
    OrphanKeys = {o1}
    Payloads = {p1, p2, bad}
    Unreadable = {bad}
    None = None
    MaxKeys = 2
    MaxWrites = 2
    ProducersDuringApply = FALSE
    e1 = e1
    e2 = e2
    d1 = d1
    d2 = d2
    Events = {e1, e2}
    Deliveries = {d1, d2}
    TTL = 2
    MaxMarkers = 1
    BatchSize = 1
    MaxTime = 5
SPECIFICATION ExitSpec
INVARIANTS
    EvidenceKept
    RemovedWereReviewed
    ErasedResultsDurable
    ErasedWereReviewed
    AcceptedOnceAnHour
    HandoffCovers
CHECK_DEADLOCK FALSE
