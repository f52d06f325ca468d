SPECIFICATION Spec
CONSTANTS
    Scenarios <- MCScenarios
    Lists <- MCLists
INVARIANTS
    Selected
    Diagnosed
    UpdateExact
PROPERTY Terminates
