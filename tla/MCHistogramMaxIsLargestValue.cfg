SPECIFICATION Spec
CONSTANTS
    Updaters = {u1, u2}
    Clearers = {}
    Readers = {}
    NoThread = NoThread
    Values = {1, 2}
    MaxUpdates = 2
    MaxClears = 0
    Half = 100
    Scale = 2
INVARIANT MaxIsLargestValue
