SPECIFICATION Spec
CONSTANTS
    Principals = {1, 2, 3, 5}
    RatesBps <- SomeRates
    Periods = {0, 1, 2, 5}
    MaxRateBps = 3
    MinPrincipal = 2
    Denominator = 7
    I128Max = 60
    MaxPeriods = 3
    BatchInputs <- SmallBatches
    MaxAmounts = 3
    BatchU64Max = 6
INVARIANTS
    NeverAhead
    LosesLessThanAUnit
    OutcomeExact
CHECK_DEADLOCK FALSE
