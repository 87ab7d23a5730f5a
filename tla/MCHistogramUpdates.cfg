SPECIFICATION FairSpec
CONSTANTS
    Updaters = {u1, u2}
    Clearers = {}
    Readers = {}
    NoThread = NoThread
    Values <- MixedValues
    MaxUpdates = 3
    MaxClears = 0
    Half = 4
    Scale = 6
INVARIANTS
    ExtremesExact
    Accounting
    VarianceExact
    VarianceNonNegative
PROPERTIES
    ExtremesMonotone
    EveryCallReturns
