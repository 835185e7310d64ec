\* Every history of one ticket, delivered in any order, two faults.
CONSTANTS
    Departments = {d1, d2}
    Unassigned = Unassigned
    Skew = 2
    MaxTime = 5
    MaxDisorder = 3
    MaxFaults = 2
SPECIFICATION Spec
SYMMETRY Symmetry
INVARIANTS
    ClosureOnce
    CyclesArePeriods
    MessagesKept
    DepartmentRight
CHECK_DEADLOCK FALSE
