SPECIFICATION Spec
CONSTANTS
    Scale = 1000
    Second = 100
    WindowLen = 6000
    CloseOfDay = 5760000
    DayLen = 8640000
    NNormal = 6
    AbuseCount = 5
    TStart <- MCStarts
    Dt = 10
    Normals <- MCNormals
    Abusers <- MCAbusers
    Mids = {3300}
    BenignQty = {1}
    BenignSides = {"BUY"}
    BenignMoves <- EitherEnd
    Draws <- MCDraws
CHECK_DEADLOCK FALSE
INVARIANTS
    TypeOK
    DedupKeepsTheStream
    LabelsTrue
    StepsPastScenario
    TrainingLabelsExact
    TrainingMatchesServing
    OnlyAbusersAlerted
    AlertsConsistent
