CONSTANT
  Scenarios <- MCScenarios
SPECIFICATION Spec
INVARIANTS
    Whole
    NoImpostor
    UntouchedArchived
    LinksSound
