SPECIFICATION Spec
CONSTANTS
    Updaters = {u1, u2}
    Clearers = {c1}
    NoThread = NoThread
    Values = {1, 2}
    Draws = {0, 1}
    Reservoir = 2
    Threshold = 2
    Smallest <- Underflow
    Steps <- SetBack
    MaxTime = 4
    MaxUpdates = 4
    MaxClears = 1
SYMMETRY UpdaterSymmetry
INVARIANTS
    SampleInv
    KeepsTheBest
    PrioritiesBounded
    QuantilesSplit
