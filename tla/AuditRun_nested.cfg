\* A parent and a child whose item path holds the parent's id, one run, and every
\* way a request or a ledger write can go wrong short of a torn line.
\* The process stops after the last run.
SPECIFICATION Spec
CONSTANTS
  NumEntities = 2
  Parent <- NestedParent
  EmbedsParent = {2}
  BaseName <- NestedNames
  NoName = NoName
  MaxObjects = 3
  MaxSeq = 3
  MaxRuns = 1
  Faults = {"lost", "unsynced", "noid", "unclear", "unseen", "late", "stuck", "deaf", "blind", "crash"}
INVARIANTS
  RecordedBeforeSent
  ChildrenAreNewer
  RegistryIsLive
CHECK_DEADLOCK FALSE
