\* Two workers, one cycle, any three operations, with or without a
\* confirmed link and an active rule at first; one change of the directory.
CONSTANTS
    c1 = c1
    x1 = x1
    x2 = x2
    d1 = d1
    t1 = t1
    Contacts = {c1}
    Companies = {x1, x2}
    Cycles = {cy1}
    Workers = {w1, w2}
    Keys = {k1}
    None = None
    ContactOf <- OnlyContact
    Evidence <- TwoMatches
    Departments = {d1}
    Targets = {t1, t2}
    InitialTargets = {t1}
    DepartmentOf <- FirstDepartment
    OpKeys = {o1}
    InitialLinks <- Links
    InitialRules <- Rules
    MaxVersions = 2
    MaxChanges = 1
    MaxStarts = 3
SYMMETRY AnyWorker
SPECIFICATION PreparationSpec
INVARIANTS
    OneConfirmedCompany
    AppliedOncePerKey
    OneActiveRule
    PreparationsAgree
PROPERTIES
    OutcomeIsConfirmedLink
    
    ChangesAreAudited
CHECK_DEADLOCK FALSE
