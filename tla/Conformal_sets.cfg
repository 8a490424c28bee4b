SPECIFICATION Spec
CONSTANTS
    Unit = 360
    MaxRaw = 3
    MaxRows = 5
    Alphas = {10, 25, 40}
CHECK_DEADLOCK FALSE
INVARIANTS
    TypeOK
    SuspicionIsMonotone
    SkipsReviewWhenSure
    CoversItsCalibration
    CoversGivenCalibrator
