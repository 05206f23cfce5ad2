SPECIFICATION Spec
CONSTANTS
    Garbler = Garbler
    Evaluator = Evaluator
    Programs <- MCPrograms
    Owners <- MCOwners
    Recipients <- MCRecipients
INVARIANTS
    LabelsMatch
    MasksCorrect
    SeedsAgree
    NoHonestAbort
    DecodeCorrect
