SPECIFICATION FairSpec
CONSTANTS
    Controllers = {c1, c2, c3}
    Owner = c1
    Loops = {l1, l2, l3}
    NoLoop = NoLoop
INVARIANTS
    LoopDiscipline
    OneLoop
    StoppedMeansNoLoop
    NoRunAfterDestruction
PROPERTIES
    CallsReturn
    KeepsReporting
