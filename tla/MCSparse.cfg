CONSTANTS
  BS = 2
  NHead = 1
  NExt = 1
  Scenarios <- MCScenarios
SPECIFICATION Spec
INVARIANTS
    HeaderTrue
    RoundTrip
    NextFound
    DiffExact
