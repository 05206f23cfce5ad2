SPECIFICATION Spec
CONSTANTS
    MaxId = 4
    PlanKeep = 2
INVARIANTS
    PlanDetectsStale
    PlanExact
    PlanPreservesMeaning
CHECK_DEADLOCK FALSE
