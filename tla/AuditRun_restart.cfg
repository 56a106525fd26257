\* One entity, a run and a second one that starts from the files the first left,
\* with kills, torn ledger lines, late creates and refused deletes, and that
\* cleaning up comes to its end even so.
\* The process stops after the last run.
SPECIFICATION FairSpec
CONSTANTS
  NumEntities = 1
  Parent <- OneParent
  EmbedsParent = {}
  BaseName <- OneName
  NoName = NoName
  MaxObjects = 2
  MaxSeq = 2
  MaxRuns = 2
  Faults = {"torn", "noid", "unseen", "late", "stuck", "crash"}
INVARIANTS
  NameAccount
  TraceableStaysRecorded
PROPERTIES
  CleanupEnds
CHECK_DEADLOCK FALSE
