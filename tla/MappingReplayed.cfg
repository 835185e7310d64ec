\* One operator, two departments, one operation key.
CONSTANTS
    c1 = c1
    x1 = x1
    x2 = x2
    d1 = d1
    t1 = t1
    Contacts = {c1}
    Companies = {x1}
    Cycles = {}
    Workers = {w1}
    Keys = {}
    None = None
    ContactOf <- OnlyContact
    Evidence = {}
    Departments = {d1, d2}
    Targets = {t1}
    InitialTargets = {t1}
    DepartmentOf <- FirstDepartment
    OpKeys = {o1}
    InitialLinks <- Unlinked
    InitialRules <- Rules
    MaxVersions = 2
    MaxChanges = 0
    MaxStarts = 2
SPECIFICATION PreparationSpec
INVARIANTS
    ReplayIsSameOperation
CHECK_DEADLOCK FALSE
