SPECIFICATION Spec
CONSTANTS
    MaxId = 3
    MaxKeep = 1
    MaxArgs = 2
    MaxAdds = 2
    Programs <- MCPrograms
INVARIANTS
    TypeOK
    CtxInv
    IdsPartitioned
    CarriedCorrect
    EngineOutputsSettled
PROPERTIES
    StaleForever
