SPECIFICATION MCSpec
CONSTANTS
    Value <- MCValue
    MaxFields = 2
    Detector <- MCDetector
    Threshold <- MCThreshold
    RegRefs <- MCRegRefs
    Trader <- MCTrader
    Instrument <- MCInstrument
    Window = {0, 6}
    WindowLen = 6
    RuleScore <- MCRuleScore
    MlScore <- MCMlScore
    Now = {1, 2}
    MaxAlerts = 2
    MaxChanges = 2
CHECK_DEADLOCK FALSE
INVARIANTS
    TypeOK
    AlertIdsNameWindows
    AuditHashExact
    BytesTellFieldsApart
    LanguagesAgreeExactly
