SPECIFICATION FairSpec
CONSTANTS
    Clients = {c1, c2}
    Pollers = {p1}
    NoThread = NoThread
    Names <- MCNames
    Specs = {counter, meter, badTimer}
    Invalid = {badTimer}
    Objects = {o1, o2}
    Null = Null
INVARIANTS
    RegistryInv
    SharedBySameName
PROPERTIES
    ImplementsWriteOnce
    CallsReturn
