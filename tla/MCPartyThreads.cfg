SPECIFICATION Spec
CONSTANTS
    Garbler = Garbler
    Evaluator = Evaluator
    Workers = 2
    BufCap = 1
    NetCap = 1
    Batches = 3
    Runs <- MCRuns
    Recipients <- MCRecipients
INVARIANTS
    MessagesMatched
    SocketsNotShared
PROPERTIES
    SessionEnds
    FeqStopsBoth
CHECK_DEADLOCK FALSE
