SPECIFICATION Spec
CONSTANTS
    Threads = {t1, t2}
    NoThread = NoThread
    Amounts = {1, 2}
    Interval = 2
    Steps <- SetBack
    MaxTime = 6
    MaxMarks = 2
    Denominator <- Denominators
    Scale = 144
INVARIANTS
    MeterInv
    RatesBounded
    ReadIsFresh
PROPERTIES
    LastTickOnlyGrows
