SPECIFICATION Spec
CONSTANTS
    BF = 3
    Inputs <- MCAll
INVARIANTS
    NoEarlyUnlink
    SettledRemoved
PROPERTY Terminates
