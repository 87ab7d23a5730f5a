SPECIFICATION Spec
CONSTANTS
    Threads = {t1, t2}
    Contexts = {c1, c2}
    Steps <- SetBack
    MaxTime = 1
    MaxActivations = 4
    MaxClears = 1
SYMMETRY Symmetry
INVARIANTS
    TimerInv
    OneFate
    HalvesAgree
