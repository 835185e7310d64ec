\* One operation, three callers, two commands of the operator.
CONSTANTS
    Operations = {o1}
    Callers = {k1, k2, k3}
    Keys = {y1, y2}
    NoCaller = NoCaller
    NoOp = NoOp
    MaxFaults = 5
SPECIFICATION Spec
SYMMETRY Symmetry
INVARIANTS
    AtMostOneRequest
    SafeToRetry
    OnePostAtATime
PROPERTIES
    RefusedCreatesNothing
CHECK_DEADLOCK FALSE
