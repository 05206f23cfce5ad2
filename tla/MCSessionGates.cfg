SPECIFICATION Spec
CONSTANTS
    MaxId = 4
    MaxKeep = 1
    MaxArgs = 2
    MaxAdds = 0
    Programs = {}
INVARIANTS
    CarriedCorrect
    NoInternalError
PROPERTIES
    GammaFailsOnlyOnDisagreement
