SPECIFICATION Spec
CONSTANTS
  type = type
  mode = mode
  tags = tags
  role = role
  NoField = NoField
  Gate = type
  Fields <- MCFields
  Declared <- MCDeclared
  Enumerated <- MCEnumerated
  Composite <- MCComposite
  Members <- MCMembers
  Segments <- MCSegments
  Jobs <- MCJobs
  Answers <- MCAnswers
  Attempts = 5
  ProbeAttempts = 4
  CycleAttempts = 3
  SearchLimit = 3
INVARIANTS
  RefusalIsOfBody
  FalseClaimsAreContradicted
  NoContradiction
PROPERTIES
  Terminates
