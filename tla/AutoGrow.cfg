SPECIFICATION Spec
CONSTANTS
    StartGi = 2
    MaxGi = 5
    FactorNum = 3
    FactorDen = 2
    HandSizes = {4, 7}
INVARIANTS
    TypeOK
    GrowthStaysInQuota
PROPERTIES
    NeverShrinks
    BouncesAreConfirmed
