\* A caller dies before its POST, and the operation is called for forever.
CONSTANTS
    Operations = {o1}
    Callers = {k1, k2}
    Keys = {}
    NoCaller = NoCaller
    NoOp = NoOp
    MaxFaults = 1
SPECIFICATION FairSpec
PROPERTIES
    AbandonedClaimRecovered
CHECK_DEADLOCK FALSE
