SPECIFICATION Spec
CONSTANTS
    Depth = 2
    MaxChunks = 5
INVARIANTS
    PipeTypeOK
    NoSlotRace
    InOrder
    NoLostWakeup
    EofMeansDrained
PROPERTIES
    ImplementsChannel
