SPECIFICATION MCSpec
CONSTANTS
    Value <- MCHalfScores
    MaxFields = 1
    Detector <- MCDetector
    Threshold <- MCThreshold
    RegRefs <- MCRegRefs
    Trader <- MCTrader
    Instrument <- MCInstrument
    Window = {0, 6}
    WindowLen = 6
    RuleScore <- MCPlainRuleScore
    MlScore <- MCMlScore
    Now = {1, 2}
    MaxAlerts = 0
    MaxChanges = 0
CHECK_DEADLOCK FALSE
INVARIANT
    BytesIdentical
