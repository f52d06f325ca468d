CONSTANTS
  Scenarios <- MCScenarios
  Inos <- MCInos
SPECIFICATION Spec
INVARIANTS
    RenamesPossible
    ChangedDumped
    ExactOrDiagnosed
