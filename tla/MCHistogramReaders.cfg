SPECIFICATION Spec
CONSTANTS
    Updaters = {u1, u2}
    Clearers = {c1}
    Readers = {r1}
    NoThread = NoThread
    Values = {1}
    MaxUpdates = 2
    MaxClears = 1
    Half = 100
    Scale = 2
SYMMETRY UpdaterSymmetry
INVARIANTS
    IndInv
    MeanCoversCounted
    ExtremeReadsRecorded
    ClearedIsNew
