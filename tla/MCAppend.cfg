SPECIFICATION Spec
CONSTANTS
    BF = 3
    Inputs <- MCInputs
INVARIANTS
    OldIntact
    AppendCorrect
