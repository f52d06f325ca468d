CONSTANTS
  Inputs <- MCInputs
  MaxMounts = 4
SPECIFICATION Spec
INVARIANTS
    VolumesTrue
    
PROPERTY OneTape
PROPERTY Terminates
