SPECIFICATION MCSpec
CONSTANTS
    Scale = 1000
    Second = 100
    WindowLen = 6000
    CloseOfDay = 5760000
    DayLen = 8640000
    Abuser <- MCAbuser
    Starts <- MCStarts
    Mids = {3300}
    Draws <- MCDraws
    MaxNoise = 0
CHECK_DEADLOCK FALSE
INVARIANT
    DetectionMatrix
