\* The folder selector on every page, as its slot is written for.
SPECIFICATION Spec
CONSTANTS
    t1 = t1
    t2 = t2
    o1 = o1
    o2 = o2
    None = None
    Cancelled = Cancelled
    Failed = Failed
    Targets <- MCTargets
    Answers <- MCAnswers
    Selectable <- AnyPage
INVARIANTS
    TypeOK
    PageHasItsResults
    BuildsOnlyUnderPlan
PROPERTIES
    ScanEnds
CHECK_DEADLOCK FALSE
