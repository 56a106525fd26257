SPECIFICATION Spec
CONSTANTS
  d1 = d1
  d2 = d2
  d3 = d3
  s1 = s1
  s2 = s2
  mod = mod
  sum = sum
  p1 = p1
  p2 = p2
  owned = owned
  NoDoc = NoDoc
  GoMod = mod
  GoSum = sum
  Docs <- MCDocs
  SdkOf <- MCSdkOf
  ProviderOf <- MCProvider
  Authored <- MCAuthored
  Faults <- AnyFault
  MaxJobs = 4
  MaxEdits = 1
INVARIANTS
  SuccessIsClean
  EditsCaught
  Accounted
  AuthoredUntouched
PROPERTIES
  SwapIsAtomic
