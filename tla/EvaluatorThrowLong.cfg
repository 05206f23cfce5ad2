SPECIFICATION Spec
CONSTANTS
    KBatch = 2
    Depth = 2
    NetCap = 3
    MaxAnds = 5
    Throws = {"evaluator"}
PROPERTIES
    EvaluatorThrowJoins
