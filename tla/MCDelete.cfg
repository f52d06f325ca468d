SPECIFICATION Spec
CONSTANTS
    BF = 3
    Inputs <- MCInputs
INVARIANTS
    DeleteCorrect
    UnreadIntact
    NoAbort
PROPERTY Terminates
