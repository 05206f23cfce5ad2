SPECIFICATION Spec
CONSTANTS
    LgBatch = 2
    Garbler = Garbler
    Evaluator = Evaluator
    ShortLen = 3
    LongLen = 5
    Programs <- MCPrograms
INVARIANTS
    NoAliasing
    LiveIntact
    MatchesEngine
