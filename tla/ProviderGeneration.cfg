SPECIFICATION Spec
CONSTANTS
  Scenarios <- MCScenarios
  Changes = 2
INVARIANTS
  LostIsReported
  SettledCallsVerify
  ReadsThroughParents
  WholeIsWhole
  RenderedResolves
PROPERTIES
  AccountIsKept
