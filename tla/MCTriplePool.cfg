SPECIFICATION Spec
CONSTANTS
    Garbler = Garbler
    Evaluator = Evaluator
    Ssp = 2
    Floor = 2
    Batch = 2
    Reps <- MCReps
INVARIANTS
    TriplesAuthentic
    FeqAgrees
    CoinsAgree
    BucketBound
    SigmaCorrect
