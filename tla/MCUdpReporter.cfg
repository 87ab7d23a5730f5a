SPECIFICATION FairSpec
CONSTANTS
    Metrics <- SomeOfEach
    Addresses = {a1, a2}
    ReconnectAfter = 5
INVARIANTS
    SenderInv
PROPERTIES
    ReconnectsOnTime
    Heals
