CONSTANTS
  Cap = 2
  Rec = 2
  N = 5
  Scenarios <- MCScenarios
SPECIFICATION Spec

    
PROPERTY Terminates
