SPECIFICATION MCSpec
CONSTANTS
    Value <- MCHalfScores
    MaxFields = 0
    Detector <- MCDetector
    Threshold <- MCThreshold
    RegRefs <- MCRegRefs
    Trader <- MCTrader
    Instrument <- MCInstrument
    Window = {0, 6}
    WindowLen = 6
    RuleScore <- MCPlainRuleScore
    MlScore <- MCMlScore
    Now = {1, 2}
    MaxAlerts = 1
    MaxChanges = 1
CHECK_DEADLOCK FALSE
INVARIANT
    FilledVerifies
