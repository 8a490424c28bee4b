SPECIFICATION FairSpec
CONSTANTS
    Instrument <- MCInstrument
    NoValue = NoValue
    Qty <- MCQty
    MaxOrders = 4
    MaxInterrupted = 2
CHECK_DEADLOCK FALSE
INVARIANT
    TypeOK
    CountedOnce
PROPERTIES
    KeepsRunningTotals
    AllCounted
