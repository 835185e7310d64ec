\* Two executions of any kind, two companies that may be related to a
\* department, a limit that the whole list meets.
CONSTANTS
    Executions = {e1, e2}
    Companies = {x1, x2}
    Targets = {t1}
    Backfill = Backfill
    None = None
    PageLimit = 2
    MaxChanges = 2
SPECIFICATION Spec
SYMMETRY Symmetry
INVARIANTS
    DirectoryIsOneView
    OutcomeStillHolds
    RecordIsTruthful
PROPERTIES
    QuietViewIsWhole
CHECK_DEADLOCK FALSE
