SPECIFICATION Spec
CONSTANTS
    MaxId = 3
    MaxKeep = 1
    MaxArgs = 2
    MaxAdds = 0
    Programs = {}
INVARIANTS
    RevealCorrect
