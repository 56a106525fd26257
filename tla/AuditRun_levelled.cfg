\* Two runs against an API that answers every delete and every listing: what
\* may be left.
\* The process stops after the last run.
SPECIFICATION Spec
CONSTANTS
  NumEntities = 2
  Parent <- NestedParent
  EmbedsParent = {2}
  BaseName <- NamelessChild
  NoName = NoName
  MaxObjects = 1
  MaxSeq = 3
  MaxRuns = 2
  Faults = {"noid", "unclear", "unseen"}
INVARIANTS
  LevelledTenant
CHECK_DEADLOCK FALSE
