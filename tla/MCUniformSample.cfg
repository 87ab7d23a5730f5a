SPECIFICATION Spec
CONSTANTS
    Updaters = {u1, u2, u3}
    Clearers = {c1}
    Readers = {r1}
    NoThread = NoThread
    Values = {1, 2}
    Reservoir = 2
    MaxUpdates = 4
    MaxClears = 1
SYMMETRY UpdaterSymmetry
INVARIANTS
    SampleInv
    SnapshotsRecorded
