SPECIFICATION Spec
CONSTANTS
    Controllers = {c1}
    Owner = c1
    Loops = {l1}
    NoLoop = NoLoop
INVARIANT DestructorStopsRuns
