SPECIFICATION Spec
CONSTANTS
    PlanOf <- TwoSteps
    Sensitive = {1}
    LevelControl = {2}
    TableCapacity = 2
    LedgerCapacity = 2
    MaxGeneration = 1
    MaxFaults = 2
INVARIANTS
    TypeOK
    AtMostOnce
    OncePerApproval
    WriteAhead
    LedgerTruthful
    PublishedDurable
    PlanOrder
CHECK_DEADLOCK FALSE
