SPECIFICATION Spec
CONSTANTS
    Crews = {"a", "b"}
    Requests <- MCRequests
    request <- MCRequest
    ceiling <- MCCeiling
    equity = 4
    limit <- MCLimit
    Sum <- MCSum
    Observations <- MCObservations
    MaxTime = 1
    MaxDecisions = 2
INVARIANTS
    CapacityHeld
    AdmittedWithinLimits
PROPERTIES
    DecidedOnce
    PoolSpec
