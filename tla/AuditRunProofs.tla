--------------------------- MODULE AuditRunProofs ---------------------------
(***************************************************************************)
(* What holds of every audit run, for every plan, every bound and every    *)
(* combination of faults.                                                  *)
(***************************************************************************)
EXTENDS AuditRun, FiniteSetTheorems, SequenceTheorems, WellFoundedInduction, TLAPS

\* The greatest member of a set of sequence numbers exists.
LEMMA NewestIsMax ==
  ASSUME NEW S \in SUBSET Seqs, S # {}
  PROVE  Newest(S) \in S /\ \A t \in S : t <= Newest(S)
<1> DEFINE Below == OpToRel(<, Nat)
           Mirror == {i \in Nat : i <= MaxSeq /\ (MaxSeq - i) \in S}
<1>0. MaxSeq \in Nat /\ S \subseteq 1 .. MaxSeq
  BY PlanAssumption DEF Seqs
<1>1. IsWellFoundedOn(Below, Nat)
  BY NatLessThanWellFounded
<1>2. Mirror \subseteq Nat /\ Mirror # {}
  <2>1. PICK s \in S : TRUE
    OBVIOUS
  <2>2. MaxSeq - s \in Mirror
    BY <1>0, <2>1
  <2> QED
    BY <2>2
<1> HIDE DEF Below
<1>3. PICK x \in Mirror : \A y \in Mirror : ~(<<y, x>> \in Below)
  BY <1>1, <1>2, WFMin
<1>4. \A y \in Mirror : ~(y < x)
  BY <1>2, <1>3 DEF Below, OpToRel
<1>5. \A t \in S : t <= MaxSeq - x
  <2> TAKE t \in S
  <2>1. MaxSeq - t \in Mirror
    BY <1>0
  <2> QED
    BY <1>0, <1>4, <2>1
<1> QED
  BY <1>0, <1>5 DEF Newest

\* Whatever a write does to it, a ledger file stays one.
LEMMA AppendedType ==
  ASSUME NEW f \in LedgerFile, NEW kind \in {"intents", "known", "closed"},
         NEW S \in SUBSET Seqs, NEW w \in Writes
  PROVE  Appended(f, kind, S, w) \in LedgerFile
<1>1. w \in {"ok", "unsynced", "torn", "lost"}
  BY DEF Writes
<1>2. Torn(f) \in LedgerFile
  BY DEF LedgerFile, Torn, Tails
<1>3. Extended(f, kind, S) \in LedgerFile
  <2>1. f.tail \in Tails
    BY DEF LedgerFile
  <2>2. CASE kind = "intents"
    BY <2>1, <2>2 DEF LedgerFile, Extended, Tails
  <2>3. CASE kind = "known"
    BY <2>1, <2>3 DEF LedgerFile, Extended, Tails
  <2>4. CASE kind = "closed"
    BY <2>1, <2>4 DEF LedgerFile, Extended, Tails
  <2> QED
    BY <2>2, <2>3, <2>4
<1> QED
  BY <1>1, <1>2, <1>3 DEF Appended

\* Setting the parent of one intent keeps a list of intents one, of the same length.
LEMMA UnderType ==
  ASSUME NEW s \in Seq(Intent), NEW i, NEW u \in 0 .. MaxSeq
  PROVE  /\ [s EXCEPT ![i].under = u] \in Seq(Intent)
         /\ Len([s EXCEPT ![i].under = u]) = Len(s)
<1> DEFINE t == [s EXCEPT ![i].under = u]
<1>1. Len(s) \in Nat /\ s \in [1 .. Len(s) -> Intent]
  BY LenProperties
<1>2. t \in [1 .. Len(s) -> Intent]
  BY <1>1 DEF Intent
<1> QED
  BY <1>1, <1>2, IsASeq, LenProperties

-----------------------------------------------------------------------------
\* What type correctness rests on: where the process is bounds what its
\* variables address.
Shape ==
  /\ TypeOK
  /\ phase # "down" => run \in Runs
  /\ phase = "steps" => current \in Entities
  /\ phase = "down" => at = AllIdle
  /\ \A e \in Entities : at[e] \in {"send", "wait"} => slot[e] \in Seqs



\* The first state has the shape.
LEMMA ShapeInit == Init => Shape
<1> SUFFICES ASSUME Init PROVE Shape
  OBVIOUS
<1>1. 1 \in Entities /\ 0 \in 0 .. MaxRuns /\ 0 \in 0 .. MaxSeq
  BY PlanAssumption DEF Entities
<1>2. EmptyFile \in LedgerFile
  BY DEF EmptyFile, LedgerFile, Tails
<1>3. log \in [Runs -> Seq(Intent)] /\ \A r \in Runs : Len(log[r]) <= MaxSeq
  BY PlanAssumption DEF Init
<1>4. disk \in [Runs -> LedgerFile]
  BY <1>2 DEF Init
<1>5. registry \in [Entities -> 0 .. MaxSeq] /\ at \in [Entities -> Points]
      /\ slot \in [Entities -> 0 .. MaxSeq]
  BY <1>1 DEF Init, NoRegistry, AllIdle, Points
<1>6. \A e \in Entities : at[e] \notin {"send", "wait"}
  BY DEF Init, AllIdle
<1>7. probing \in BOOLEAN /\ clean \in BOOLEAN
  BY DEF Init
<1>8. run \in 0 .. MaxRuns /\ file \in 0 .. MaxRuns /\ current \in 1 .. NumEntities + 1
  BY PlanAssumption DEF Init
<1>9. phase \in Phases /\ phase = "down" /\ at = AllIdle
  BY DEF Init, Phases
<1>10. /\ learned = {} /\ settled = {} /\ tenant = {} /\ overdue = {} /\ doomed = {}
       /\ queue = {} /\ todo = {} /\ found = {}
  BY DEF Init
<1> QED
  BY <1>3, <1>4, <1>5, <1>6, <1>7, <1>8, <1>9, <1>10 DEF Shape, TypeOK


\* What a log leaves outstanding is among the sequence numbers it names.
LEMMA OutstandingType ==
  ASSUME Shape, run \in Runs
  PROVE  Outstanding \subseteq Seqs
  BY PlanAssumption, LenProperties DEF Shape, TypeOK, Outstanding, Seqs

\* Going on to the next entity keeps the shape.
LEMMA NextEntityShape ==
  ASSUME Shape, Stepping, NextEntity
  PROVE  /\ phase' \in Phases \ {"down"}
         /\ registry' \in [Entities -> 0 .. MaxSeq]
         /\ at' = AllIdle /\ at' \in [Entities -> Points]
         /\ slot' \in [Entities -> 0 .. MaxSeq]
         /\ probing' \in BOOLEAN
         /\ current' \in 1 .. NumEntities + 1
         /\ phase' = "steps" => current' \in Entities
         /\ doomed' \subseteq Seqs
         /\ todo' \subseteq Seqs
         /\ \A e \in Entities : at'[e] \notin {"send", "wait"}
<1>1. Outstanding \subseteq Seqs
  BY OutstandingType DEF Shape, Stepping
<1>2. probing' \in BOOLEAN
  BY DEF NextEntity
<1>3. current \in Entities
  BY DEF Shape, Stepping
<1>4. AllIdle \in [Entities -> Points] /\ \A e \in Entities : AllIdle[e] \notin {"send", "wait"}
  BY DEF AllIdle, Points
<1>5. NoRegistry \in [Entities -> 0 .. MaxSeq]
  BY PlanAssumption DEF NoRegistry
<1>6. registry' \in [Entities -> 0 .. MaxSeq]
  BY DEF NextEntity, Shape, TypeOK
<1>7. CASE current < NumEntities
  <2>1. /\ phase' = "steps"
        /\ todo' \subseteq Seqs
        /\ current' = current + 1
    BY <1>7 DEF NextEntity, Stepping, Shape, TypeOK
  <2>2. current' \in Entities /\ current' \in 1 .. NumEntities + 1
    BY <1>3, <1>7, <2>1, PlanAssumption DEF Entities
  <2> QED
    BY <1>2, <1>4, <1>5, <1>6, <2>1, <2>2 DEF NextEntity, Phases
<1>8. CASE ~(current < NumEntities)
  <2>1. phase' = "own" /\ todo' \subseteq Seqs /\ current' = 1
    BY <1>1, <1>8 DEF NextEntity
  <2>2. current' \in 1 .. NumEntities + 1
    BY <2>1, PlanAssumption
  <2> QED
    BY <1>2, <1>4, <1>5, <1>6, <2>1, <2>2 DEF NextEntity, Phases
<1> QED
  BY <1>7, <1>8

\* A file with a line appended, whole or torn, is a file.
LEMMA AppendedDiskType ==
  ASSUME Shape, NEW kind \in {"intents", "known", "closed"},
         NEW S \in SUBSET Seqs, NEW w \in Writes
  PROVE  [disk EXCEPT ![run] = Appended(@, kind, S, w)] \in [Runs -> LedgerFile]
<1>1. disk \in [Runs -> LedgerFile]
  BY DEF Shape, TypeOK
<1>2. run \in Runs => Appended(disk[run], kind, S, w) \in LedgerFile
  BY <1>1, AppendedType
<1> QED
  BY <1>1, <1>2

\* A run's log with an entry added is a log.
LEMMA LongerLogType ==
  ASSUME Shape, run \in Runs, NEW line \in Intent, Len(log[run]) + 1 \in Seqs
  PROVE  /\ [log EXCEPT ![run] = Append(@, line)] \in [Runs -> Seq(Intent)]
         /\ \A r \in Runs : Len([log EXCEPT ![run] = Append(@, line)][r]) <= MaxSeq
<1>1. log \in [Runs -> Seq(Intent)] /\ \A r \in Runs : Len(log[r]) <= MaxSeq
  BY DEF Shape, TypeOK
<1>2. Append(log[run], line) \in Seq(Intent) /\ Len(Append(log[run], line)) = Len(log[run]) + 1
  BY <1>1, AppendProperties
<1> QED
  BY <1>1, <1>2 DEF Seqs

\* What a delete leaves is a set of objects.
LEMMA WithoutType ==
  ASSUME Shape, NEW o
  PROVE  Without(o) \subseteq Runs \X Seqs
  BY DEF Without, Shape, TypeOK

\* A create whose outcome is not learned leaves sets of objects.
LEMMA UnlearnedType ==
  ASSUME Shape, NEW o \in Runs \X Seqs, NEW possible, Unlearned(o, possible)
  PROVE  tenant' \subseteq Runs \X Seqs /\ overdue' \subseteq Runs \X Seqs
  BY DEF Unlearned, worldVars, Shape, TypeOK

\* A start, an end, a kill and a late create keep the shape.
LEMMA StartingShape ==
  ASSUME Shape, Start \/ Exit \/ Crash \/ \E o \in overdue : CarryOut(o)
  PROVE  Shape'
<1>1. 1 \in Entities /\ 0 \in 0 .. MaxSeq
  BY PlanAssumption DEF Entities
<1>2. ASSUME Rest
      PROVE  /\ registry' \in [Entities -> 0 .. MaxSeq]
             /\ at' \in [Entities -> Points] /\ at' = AllIdle
             /\ \A e \in Entities : at'[e] \notin {"send", "wait"}
             /\ slot' \in [Entities -> 0 .. MaxSeq]
             /\ doomed' = {} /\ todo' = {} /\ found' = {} /\ learned' = {} /\ settled' = {}
             /\ file' = 0
    BY <1>1, <1>2 DEF Rest, NoRegistry, AllIdle, Points
<1>3. ASSUME Rest PROVE clean' \in BOOLEAN /\ probing' \in BOOLEAN
  BY <1>3 DEF Rest
<1>4. 0 \in 0 .. MaxRuns /\ 1 \in 1 .. NumEntities + 1
  BY PlanAssumption
<1>5. CASE Start
  <2>1. run' \in Runs /\ run' \in 0 .. MaxRuns
    BY <1>5, PlanAssumption DEF Start, Shape, TypeOK, Runs
  <2>2. disk' \in [Runs -> LedgerFile]
    <3>1. \A f \in LedgerFile : [f EXCEPT !.present = TRUE] \in LedgerFile
      BY DEF LedgerFile
    <3> QED
      BY <1>5, <3>1 DEF Start, Shape, TypeOK
  <2>3. queue' \subseteq Runs
    BY <1>5, PlanAssumption DEF Start, Shape, TypeOK, Runs
  <2>4. Rest /\ phase' = "prior" /\ current' = 1 /\ UNCHANGED <<log, worldVars>>
    BY <1>5 DEF Start
  <2> QED
    BY <1>2, <1>3, <1>4, <2>1, <2>2, <2>3, <2>4 DEF Shape, TypeOK, Phases, worldVars
<1>6. CASE Exit
  <2>1. disk' \in [Runs -> LedgerFile]
    <3>1. \A f \in LedgerFile : [f EXCEPT !.present = FALSE] \in LedgerFile
      BY DEF LedgerFile
    <3> QED
      BY <1>6, <3>1 DEF Exit, Shape, TypeOK
  <2>2. Rest /\ phase' = "down" /\ current' = 1 /\ queue' = {}
        /\ UNCHANGED <<run, log, worldVars>>
    BY <1>6 DEF Exit
  <2> QED
    BY <1>2, <1>3, <1>4, <2>1, <2>2 DEF Shape, TypeOK, Phases, worldVars
<1>7. CASE Crash
  <2>1. disk' \in [Runs -> LedgerFile]
    <3>1. disk \in [Runs -> LedgerFile]
      BY DEF Shape, TypeOK
    <3>2. run \in Runs => Torn(disk[run]) \in LedgerFile
      BY <3>1 DEF LedgerFile, Torn, Tails
    <3>3. disk' \in {disk, [disk EXCEPT ![run] = Torn(disk[run])]}
      BY <1>7 DEF Crash
    <3> QED
      BY <3>1, <3>2, <3>3
  <2>2. tenant' \subseteq Runs \X Seqs /\ overdue' \subseteq Runs \X Seqs
    <3>1. CASE \E e \in Entities : at[e] = "wait"
      <4> DEFINE d == CHOOSE e \in Entities : at[e] = "wait"
      <4>1. d \in Entities /\ at[d] = "wait"
        BY <3>1
      <4>2. <<run, slot[d]>> \in Runs \X Seqs
        BY <1>7, <4>1 DEF Crash, Shape
      <4>3. Unlearned(<<run, slot[d]>>, ParentReached(d))
        BY <1>7, <3>1 DEF Crash
      <4> HIDE DEF d
      <4> QED
        BY <4>2, <4>3, UnlearnedType
    <3>2. CASE ~\E e \in Entities : at[e] = "wait"
      BY <1>7, <3>2 DEF Crash, worldVars, Shape, TypeOK
    <3> QED
      BY <3>1, <3>2
  <2>3. Rest /\ phase' = "down" /\ current' = 1 /\ queue' = {} /\ UNCHANGED <<run, log>>
    BY <1>7 DEF Crash
  <2> QED
    BY <1>2, <1>3, <1>4, <2>1, <2>2, <2>3 DEF Shape, TypeOK, Phases
<1>8. CASE \E o \in overdue : CarryOut(o)
  BY <1>8 DEF CarryOut, Shape, TypeOK, memoryVars, progressVars, passVars
<1> QED
  BY <1>5, <1>6, <1>7, <1>8

\* The steps of a create keep the shape.
LEMMA CreatingShape ==
  ASSUME Shape, NEW e \in Entities, CreateStep(e)
  PROVE  Shape'
<1>1. Stepping => run \in Runs /\ current \in Entities
  BY DEF Shape, Stepping
<1>2. Parent[e] # 0 => Parent[e] \in Entities
  BY PlanAssumption DEF Entities
<1>3. \A p \in Points : \A d \in Entities : [at EXCEPT ![d] = p] \in [Entities -> Points]
  BY DEF Shape, TypeOK
<1>4. CASE Enter(e)
  <2>1. at' \in [Entities -> Points]
        /\ \A d \in Entities : at'[d] \in {"send", "wait"} => at[d] = at'[d]
    BY <1>2, <1>4 DEF Enter, Shape, TypeOK, Points, NeedsParent
  <2> QED
    BY <1>1, <1>4, <2>1 DEF Enter, Stepping, Shape, TypeOK, memoryVars, worldVars, passVars
<1>5. CASE Resolved(e)
  <2>1. at' \in [Entities -> Points]
        /\ \A d \in Entities : at'[d] \in {"send", "wait"} => at[d] = at'[d]
    BY <1>5 DEF Resolved, Shape, TypeOK, Points
  <2> QED
    BY <1>1, <1>5, <2>1 DEF Resolved, Stepping, Shape, TypeOK, memoryVars, worldVars, passVars
<1>6. ASSUME NEW w \in Writes, RecordIntent(e, w) PROVE Shape'
  <2> DEFINE seq == Len(log[run]) + 1
             line == [ent |-> e, suffixed |-> Suffixed(e), under |-> 0]
  <2>1. Stepping /\ run \in Runs /\ current \in Entities /\ seq \in Seqs
    BY <1>1, <1>6 DEF RecordIntent
  <2>2. line \in Intent
    <3>1. Suffixed(e) \in BOOLEAN
      BY DEF Suffixed
    <3> QED
      BY <3>1, PlanAssumption DEF Intent
  <2>3. log' \in [Runs -> Seq(Intent)] /\ \A r \in Runs : Len(log'[r]) <= MaxSeq
    BY <1>6, <2>1, <2>2, LongerLogType DEF RecordIntent
  <2>4. disk' \in [Runs -> LedgerFile]
    BY <1>6, <2>1, AppendedDiskType DEF RecordIntent
  <2>5. CASE w = "ok"
    <3>1. /\ at' = [at EXCEPT ![e] = "send"] /\ slot' = [slot EXCEPT ![e] = seq]
          /\ UNCHANGED <<phase, registry, probing, current, doomed, todo>>
      BY <1>6, <2>5 DEF RecordIntent
    <3>2. at' \in [Entities -> Points] /\ slot' \in [Entities -> 0 .. MaxSeq]
          /\ \A d \in Entities : at'[d] \in {"send", "wait"} => slot'[d] \in Seqs
      BY <2>1, <3>1 DEF Shape, TypeOK, Points, Seqs
    <3> QED
      BY <1>6, <2>1, <2>3, <2>4, <3>1, <3>2
         DEF RecordIntent, Stepping, Shape, TypeOK, memoryVars, worldVars
  <2>6. CASE w # "ok"
    <3>1. NextEntity
      BY <1>6, <2>6 DEF RecordIntent
    <3> QED
      BY <1>6, <2>1, <2>3, <2>4, <3>1, NextEntityShape
         DEF RecordIntent, Shape, TypeOK, memoryVars, worldVars
  <2> QED
    BY <2>5, <2>6
<1>7. CASE Send(e)
  <2>1. at' \in [Entities -> Points]
        /\ \A d \in Entities : at'[d] \in {"send", "wait"} => at[d] \in {"send", "wait"}
    BY <1>2, <1>7 DEF Send, Shape, TypeOK, Points, NeedsParent
  <2>2. log' \in [Runs -> Seq(Intent)] /\ \A r \in Runs : Len(log'[r]) <= MaxSeq
    <3>1. log \in [Runs -> Seq(Intent)] /\ \A r \in Runs : Len(log[r]) <= MaxSeq
      BY DEF Shape, TypeOK
    <3>2. CASE UNCHANGED log
      BY <3>1, <3>2
    <3>3. CASE Parent[e] # 0
               /\ log' = [log EXCEPT ![run][slot[e]].under = registry[Parent[e]]]
      <4>1. registry[Parent[e]] \in 0 .. MaxSeq /\ log[run] \in Seq(Intent) /\ run \in Runs
        BY <1>1, <1>2, <1>7, <3>1, <3>3 DEF Send, Shape, TypeOK
      <4> QED
        BY <3>1, <3>3, <4>1, UnderType
    <3> QED
      BY <1>7, <3>2, <3>3 DEF Send
  <2> QED
    BY <1>1, <1>7, <2>1, <2>2 DEF Send, Stepping, Shape, TypeOK, memoryVars, worldVars, passVars
<1>8. CASE Abandon(e)
  <2>1. Stepping /\ NextEntity
    BY <1>8 DEF Abandon
  <2> QED
    BY <1>1, <1>8, <2>1, NextEntityShape DEF Abandon, Shape, TypeOK, memoryVars, worldVars
<1> DEFINE o == <<run, slot[e]>>
<1>9. Waiting(e) => Stepping /\ slot[e] \in Seqs /\ o \in Runs \X Seqs
  BY <1>1 DEF Waiting, Shape
<1>10. ASSUME NEW id \in BOOLEAN, NEW w \in Writes, Accepted(e, id, w) PROVE Shape'
  <2>1. Waiting(e) /\ Stepping /\ slot[e] \in Seqs /\ o \in Runs \X Seqs /\ run \in Runs
    BY <1>1, <1>9, <1>10 DEF Accepted
  <2>2. /\ tenant' \subseteq Runs \X Seqs
        /\ learned' \subseteq Seqs
        /\ doomed' \subseteq Seqs
    BY <1>10, <2>1 DEF Accepted, Shape, TypeOK
  <2>3. probing' \in BOOLEAN
    BY <1>10 DEF Accepted, Shape, TypeOK
  <2>4. disk' \in [Runs -> LedgerFile]
    <3>1. (IF id THEN {slot[e]} ELSE {}) \in SUBSET Seqs
      BY <2>1
    <3> QED
      BY <1>10, <3>1, AppendedDiskType DEF Accepted
  <2>5. /\ at' \in [Entities -> Points]
        /\ slot' \in [Entities -> 0 .. MaxSeq]
        /\ registry' \in [Entities -> 0 .. MaxSeq]
        /\ \A d \in Entities : at'[d] \in {"send", "wait"} => slot'[d] \in Seqs
    BY <1>10, <2>1, PlanAssumption DEF Accepted, Shape, TypeOK, Points, Seqs
  <2> QED
    BY <1>1, <1>10, <2>1, <2>2, <2>3, <2>4, <2>5
       DEF Accepted, Stepping, Shape, TypeOK, passVars
<1>11. ASSUME NEW w \in Writes, Refused(e, w) PROVE Shape'
  <2>1. Waiting(e) /\ Stepping /\ slot[e] \in Seqs /\ run \in Runs
    BY <1>1, <1>9, <1>11 DEF Refused
  <2>2. probing' \in BOOLEAN
    BY <1>11 DEF Refused, Shape, TypeOK
  <2>3. disk' \in [Runs -> LedgerFile] /\ settled' \subseteq Seqs
    BY <1>11, <2>1, AppendedDiskType DEF Refused, Shape, TypeOK
  <2>4. /\ at' \in [Entities -> Points]
        /\ slot' \in [Entities -> 0 .. MaxSeq]
        /\ \A d \in Entities : at'[d] \in {"send", "wait"} => slot'[d] \in Seqs
    BY <1>11, <2>1, PlanAssumption DEF Refused, Shape, TypeOK, Points, Seqs
  <2> QED
    BY <1>1, <1>11, <2>1, <2>2, <2>3, <2>4
       DEF Refused, Stepping, Shape, TypeOK, worldVars, passVars
<1>12. CASE Unclear(e)
  <2>1. Waiting(e) /\ Stepping /\ run \in Runs
    BY <1>1, <1>9, <1>12 DEF Unclear
  <2>2. tenant' \subseteq Runs \X Seqs /\ overdue' \subseteq Runs \X Seqs
    BY <1>9, <1>12, <2>1, UnlearnedType DEF Unclear
  <2>3. CASE NextEntity
    BY <1>12, <2>1, <2>2, <2>3, NextEntityShape DEF Unclear, Shape, TypeOK, memoryVars
  <2>4. CASE ~NextEntity
    <3>1. /\ at' = AllIdle /\ slot' = NoRegistry /\ probing' = FALSE
          /\ UNCHANGED <<phase, registry, current, doomed, todo>>
      BY <1>12, <2>4 DEF Unclear
    <3>2. /\ at' \in [Entities -> Points]
          /\ slot' \in [Entities -> 0 .. MaxSeq]
          /\ \A d \in Entities : at'[d] \notin {"send", "wait"}
      BY <3>1, PlanAssumption DEF AllIdle, NoRegistry, Points
    <3>3. probing' \in BOOLEAN
      BY <3>1
    <3> QED
      BY <1>1, <1>12, <2>1, <2>2, <3>1, <3>2, <3>3
         DEF Unclear, Stepping, Shape, TypeOK, memoryVars
  <2> QED
    BY <2>3, <2>4
<1>13. CASE Unseen(e)
  <2>1. Waiting(e) /\ Stepping /\ run \in Runs /\ NextEntity
    BY <1>1, <1>9, <1>13 DEF Unseen
  <2>2. tenant' \subseteq Runs \X Seqs /\ overdue' \subseteq Runs \X Seqs
    BY <1>9, <1>13, <2>1, UnlearnedType DEF Unseen
  <2> QED
    BY <1>13, <2>1, <2>2, NextEntityShape DEF Unseen, Shape, TypeOK, memoryVars
<1> QED
  BY <1>4, <1>5, <1>6, <1>7, <1>8, <1>10, <1>11, <1>12, <1>13 DEF CreateStep

\* The steps of an entity's program keep the shape.
LEMMA ProgramShape ==
  ASSUME Shape, ProgramStep
  PROVE  Shape'
<1>1. Stepping => run \in Runs /\ current \in Entities
  BY DEF Shape, Stepping
<1>2. CASE FinishEntity
  <2>1. Stepping /\ NextEntity
    BY <1>2 DEF FinishEntity
  <2> QED
    BY <1>1, <1>2, <2>1, NextEntityShape DEF FinishEntity, Shape, TypeOK, memoryVars, worldVars
<1>3. ASSUME NEW probe \in BOOLEAN, BeginCreate(probe) PROVE Shape'
  <2>1. at' \in [Entities -> Points]
        /\ \A d \in Entities : at'[d] \in {"send", "wait"} => at[d] = at'[d]
    BY <1>3 DEF BeginCreate, Shape, TypeOK, Points
  <2>2. probing' \in BOOLEAN
    BY <1>3 DEF BeginCreate
  <2> QED
    BY <1>1, <1>3, <2>1, <2>2
       DEF BeginCreate, Stepping, Shape, TypeOK, memoryVars, worldVars, passVars
<1>4. CASE ResolveParent
  <2>1. at' \in [Entities -> Points]
        /\ \A d \in Entities : at'[d] \in {"send", "wait"} => at[d] = at'[d]
    BY <1>4 DEF ResolveParent, Shape, TypeOK, Points
  <2> QED
    BY <1>1, <1>4, <2>1
       DEF ResolveParent, Stepping, Shape, TypeOK, memoryVars, worldVars, passVars
<1>5. CASE \E e \in Entities : CreateStep(e)
  BY <1>5, CreatingShape
<1>6. ASSUME NEW S, S \subseteq Seqs, BeginDelete(S) PROVE Shape'
  BY <1>6 DEF BeginDelete, Shape, TypeOK, memoryVars, worldVars, passVars
<1>7. CASE DeleteMinimal
  <2>1. {registry[current]} \cap learned \subseteq Seqs
    BY DEF Shape, TypeOK
  <2> QED
    BY <1>6, <1>7, <2>1 DEF DeleteMinimal
<1>8. CASE CleanupDelete
  <2>1. {s \in Outstanding \cap learned : EntityOf(run, s) = current} \subseteq Seqs
    BY DEF Shape, TypeOK
  <2> QED
    BY <1>6, <1>8, <2>1 DEF CleanupDelete
<1> DEFINE s == Newest(doomed)
<1>9. Deleting => s \in Seqs /\ Stepping
  BY NewestIsMax DEF Deleting, Shape, TypeOK
<1>10. NextDelete => doomed' \subseteq Seqs /\ probing' \in BOOLEAN
  BY DEF NextDelete, Shape, TypeOK
<1> HIDE DEF s
<1>11. ASSUME NEW w \in Writes, DeleteGone(w) PROVE Shape'
  <2>1. Deleting /\ s \in Seqs /\ Stepping /\ run \in Runs /\ current \in Entities /\ NextDelete
    BY <1>1, <1>9, <1>11 DEF DeleteGone
  <2>2. tenant' \subseteq Runs \X Seqs
    BY <1>11, WithoutType DEF DeleteGone, Shape, TypeOK
  <2>3. settled' \subseteq Seqs /\ disk' \in [Runs -> LedgerFile]
    <3>1. /\ settled' = settled \cup {s}
          /\ disk' = [disk EXCEPT ![run] = Appended(@, "closed", {s}, w)]
      BY <1>11 DEF DeleteGone, s
    <3> QED
      BY <2>1, <3>1, AppendedDiskType DEF Shape, TypeOK
  <2>4. registry' \in [Entities -> 0 .. MaxSeq]
    <3>1. registry' \in {registry, [registry EXCEPT ![EntityOf(run, s)] = 0]}
      BY <1>11 DEF DeleteGone, s
    <3>2. registry \in [Entities -> 0 .. MaxSeq] /\ 0 \in 0 .. MaxSeq
      BY PlanAssumption DEF Shape, TypeOK
    <3>3. \A d : [registry EXCEPT ![d] = 0] \in [Entities -> 0 .. MaxSeq]
      BY <3>2
    <3> QED
      BY <3>1, <3>2, <3>3
  <2> QED
    BY <1>10, <1>11, <2>1, <2>2, <2>3, <2>4 DEF DeleteGone, Stepping, Shape, TypeOK, passVars
<1>12. CASE DeleteRefused
  <2>1. Stepping /\ run \in Runs /\ current \in Entities /\ NextDelete
    BY <1>1, <1>9, <1>12 DEF DeleteRefused
  <2> QED
    BY <1>10, <1>12, <2>1
       DEF DeleteRefused, Stepping, Shape, TypeOK, memoryVars, worldVars, passVars
<1>13. CASE DeleteUnseen
  <2>1. Stepping /\ run \in Runs /\ current \in Entities
    BY <1>1, <1>9, <1>13 DEF DeleteUnseen
  <2>2. tenant' \subseteq Runs \X Seqs
    BY <1>13, WithoutType DEF DeleteUnseen, Shape, TypeOK
  <2>3. CASE NextEntity
    BY <1>13, <2>1, <2>2, <2>3, NextEntityShape DEF DeleteUnseen, Shape, TypeOK, memoryVars
  <2>4. CASE ~NextEntity
    <3>1. NextDelete /\ UNCHANGED <<phase, registry, at, slot, current, todo>>
      BY <1>13, <2>4 DEF DeleteUnseen
    <3> QED
      BY <1>10, <1>13, <2>1, <2>2, <3>1 DEF DeleteUnseen, Stepping, Shape, TypeOK, memoryVars
  <2> QED
    BY <2>3, <2>4
<1> QED
  BY <1>2, <1>3, <1>4, <1>5, <1>7, <1>8, <1>11, <1>12, <1>13 DEF ProgramStep

\* The steps of the boundary cleanups keep the shape.
LEMMA CleanupShape ==
  ASSUME Shape, CleanupStep
  PROVE  Shape'
<1>1. todo # {} => Newest(todo) \in Seqs
  BY NewestIsMax DEF Shape, TypeOK
<1>2. \A o : Without(o) \subseteq Runs \X Seqs
  BY WithoutType
<1>3. ASSUME NEW r \in Runs, SkipFile(r) PROVE Shape'
  BY <1>3 DEF SkipFile, Shape, TypeOK, memoryVars, worldVars, progressVars
<1>4. ASSUME NEW r \in Runs, OpenFile(r) PROVE Shape'
  <2>1. todo' \subseteq Seqs
    BY <1>4 DEF OpenFile, OutstandingIn, Shape, TypeOK, LedgerFile
  <2>2. file' \in 0 .. MaxRuns
    BY <1>4, PlanAssumption DEF OpenFile, Runs
  <2>3. clean' \in BOOLEAN
    BY <1>4 DEF OpenFile
  <2> QED
    BY <1>4, <2>1, <2>2, <2>3 DEF OpenFile, Shape, TypeOK, memoryVars, worldVars, progressVars
<1>5. CASE ReplayNameless
  <2>1. clean' \in BOOLEAN
    BY <1>5 DEF ReplayNameless
  <2> QED
    BY <1>5, <2>1 DEF ReplayNameless, Shape, TypeOK, memoryVars, worldVars, progressVars
<1>6. CASE ReplayGone
  BY <1>2, <1>6 DEF ReplayGone, Shape, TypeOK, memoryVars, progressVars
<1>7. CASE ReplayFailed
  <2>1. tenant' \subseteq Runs \X Seqs
    BY <1>2, <1>7 DEF ReplayFailed, Shape, TypeOK
  <2>2. clean' \in BOOLEAN
    BY <1>7 DEF ReplayFailed
  <2> QED
    BY <1>7, <2>1, <2>2 DEF ReplayFailed, Shape, TypeOK, memoryVars, progressVars
<1>8. CASE CloseFile
  <2>1. disk' \in [Runs -> LedgerFile]
    <3>1. \A f \in LedgerFile : [f EXCEPT !.present = FALSE] \in LedgerFile
      BY DEF LedgerFile
    <3> QED
      BY <1>8, <3>1 DEF CloseFile, Shape, TypeOK
  <2>2. file' \in 0 .. MaxRuns
    BY <1>8, PlanAssumption DEF CloseFile
  <2>3. clean' \in BOOLEAN
    BY <1>8 DEF CloseFile
  <2> QED
    BY <1>8, <2>1, <2>2, <2>3 DEF CloseFile, Shape, TypeOK, memoryVars, worldVars, progressVars
<1>9. CASE LeavePrior
  BY <1>9 DEF LeavePrior, Shape, TypeOK, Phases, memoryVars, worldVars, progressVars, passVars
<1>10. CASE OwnNameless
  BY <1>10 DEF OwnNameless, Shape, TypeOK, memoryVars, worldVars, progressVars
<1>11. ASSUME NEW w \in Writes, OwnGone(w) PROVE Shape'
  <2>1. settled' \subseteq Seqs /\ disk' \in [Runs -> LedgerFile]
    BY <1>1, <1>11, AppendedDiskType DEF OwnGone, Shape, TypeOK
  <2> QED
    BY <1>2, <1>11, <2>1 DEF OwnGone, Shape, TypeOK, progressVars
<1>12. CASE OwnFailed
  <2>1. tenant' \subseteq Runs \X Seqs
    BY <1>2, <1>12 DEF OwnFailed, Shape, TypeOK
  <2> QED
    BY <1>12, <2>1 DEF OwnFailed, Shape, TypeOK, memoryVars, progressVars
<1>13. CASE LeaveOwn
  BY <1>13 DEF LeaveOwn, Shape, TypeOK, Phases, memoryVars, worldVars, progressVars, passVars
<1>14. CASE ListCollection
  <2>1. found' \subseteq Runs \X Seqs
    BY <1>14 DEF ListCollection, Carrying, InCollection, Shape, TypeOK
  <2>2. current' \in 1 .. NumEntities + 1 /\ phase # "steps"
    BY <1>14, PlanAssumption DEF ListCollection, Listing, Entities
  <2> QED
    BY <1>14, <2>1, <2>2 DEF ListCollection, Shape, TypeOK, memoryVars, worldVars
<1>15. ASSUME NEW o \in found, NEW w \in Writes, PrefixGone(o, w) PROVE Shape'
  <2> DEFINE closing == IF Homonyms(o) = {} THEN {} ELSE {Newest(Homonyms(o))}
  <2>1. Listing /\ run \in Runs
    BY <1>15 DEF PrefixGone, Listing, Shape
  <2>2. closing \in SUBSET Seqs
    <3>1. Homonyms(o) \subseteq Seqs
      BY <2>1, OutstandingType DEF Homonyms
    <3> QED
      BY <3>1, NewestIsMax
  <2>3. disk' \in [Runs -> LedgerFile]
    <3>1. disk \in [Runs -> LedgerFile]
      BY DEF Shape, TypeOK
    <3>2. disk' \in {disk, [disk EXCEPT ![run] = Appended(@, "closed", closing, w)]}
      BY <1>15 DEF PrefixGone
    <3> HIDE DEF closing
    <3>3. [disk EXCEPT ![run] = Appended(@, "closed", closing, w)] \in [Runs -> LedgerFile]
      BY <2>2, AppendedDiskType
    <3> QED
      BY <3>1, <3>2, <3>3
  <2>4. settled' = settled \cup closing
    BY <1>15 DEF PrefixGone
  <2> HIDE DEF closing
  <2> QED
    BY <1>2, <1>15, <2>2, <2>3, <2>4 DEF PrefixGone, Shape, TypeOK, progressVars
<1>16. ASSUME NEW o \in found, PrefixFailed(o) PROVE Shape'
  <2>1. tenant' \subseteq Runs \X Seqs
    BY <1>2, <1>16 DEF PrefixFailed, Shape, TypeOK
  <2> QED
    BY <1>16, <2>1 DEF PrefixFailed, Shape, TypeOK, memoryVars, progressVars
<1>17. CASE BeginSteps
  <2>1. current' \in Entities /\ current' \in 1 .. NumEntities + 1
    BY <1>17, PlanAssumption DEF BeginSteps, Entities
  <2>2. run \in Runs /\ phase' = "steps"
    BY <1>17 DEF BeginSteps, Shape
  <2> QED
    BY <1>17, <2>1, <2>2 DEF BeginSteps, Shape, TypeOK, Phases, memoryVars, worldVars, passVars
<1>18. CASE Finish
  BY <1>18, StartingShape DEF Finish
<1> QED
  BY <1>3, <1>4, <1>5, <1>6, <1>7, <1>8, <1>9, <1>10, <1>11, <1>12, <1>13, <1>14, <1>15,
     <1>16, <1>17, <1>18 DEF CleanupStep

\* Every step keeps the shape.
LEMMA ShapeStep ==
  ASSUME Shape, [Next]_vars
  PROVE  Shape'
<1>1. CASE UNCHANGED vars
  BY <1>1 DEF vars, memoryVars, worldVars, progressVars, passVars, Shape, TypeOK
<1>2. CASE Next
  BY <1>2, StartingShape, ProgramShape, CleanupShape DEF Next, ProcessStep
<1> QED
  BY <1>1, <1>2

\* Every run is typed, whatever the plan, the bounds and the faults: the model's
\* bookkeeping of frames, files and passes addresses only what exists.
THEOREM TypeCorrect == Spec => []TypeOK
<1>1. Init => Shape
  BY ShapeInit
<1>2. Shape /\ [Next]_vars => Shape'
  BY ShapeStep
<1>3. Shape => TypeOK
  BY DEF Shape
<1> QED
  BY <1>1, <1>2, <1>3, PTL DEF Spec

-----------------------------------------------------------------------------
\* What recording before sending rests on: the file being written ends in a
\* whole line, so the intent of a create about to be sent can be read back.
Recorded ==
  /\ Shape
  /\ RecordedBeforeSent
  /\ \A e \in Entities : at[e] \in {"send", "wait"} => slot[e] \in disk[run].intents
  /\ phase # "down" => disk[run].tail = "clean"
  /\ \A r \in Runs : run < r => disk[r].tail = "clean"

\* No ledger line is written in part by a process that lives to tell.
NoTear == "torn" \notin Faults

\* What no step but Start does: lose an intent that can be read back, leave the
\* running process a file with half a line, or let an object come to be whose
\* create was not being waited for.
Keeps ==
  /\ run' = run
  /\ \A r \in Runs : disk[r].intents \subseteq disk'[r].intents
  /\ \A r \in Runs : r # run \/ phase' # "down" =>
                       (disk[r].tail = "clean" => disk'[r].tail = "clean")
  /\ \A o \in tenant' \cup overdue' :
       o \in tenant \cup overdue \/ \E e \in Entities : at[e] = "wait" /\ o = <<run, slot[e]>>
  /\ \A e \in Entities : at'[e] \in {"send", "wait"} =>
       \/ at[e] \in {"send", "wait"} /\ slot'[e] = slot[e]
       \/ slot'[e] \in disk'[run].intents

\* Appending a line takes no intent out of a file that is not torn.
LEMMA AppendedKeeps ==
  ASSUME NoTear, NEW f \in LedgerFile, NEW kind \in {"intents", "known", "closed"},
         NEW S \in SUBSET Seqs, NEW w \in Writes
  PROVE  /\ f.intents \subseteq Appended(f, kind, S, w).intents
         /\ f.tail = "clean" =>
              /\ Appended(f, kind, S, w).tail = "clean"
              /\ kind = "intents" /\ w = "ok" => S \subseteq Appended(f, kind, S, w).intents
<1>1. w \in {"ok", "unsynced", "lost"}
  BY DEF Writes, NoTear
<1>2. f.tail \in Tails
  BY DEF LedgerFile
<1>3. CASE kind = "intents"
  BY <1>1, <1>2, <1>3 DEF LedgerFile, Appended, Extended, Tails
<1>4. CASE kind = "known"
  BY <1>1, <1>2, <1>4 DEF LedgerFile, Appended, Extended, Tails
<1>5. CASE kind = "closed"
  BY <1>1, <1>2, <1>5 DEF LedgerFile, Appended, Extended, Tails
<1> QED
  BY <1>3, <1>4, <1>5

\* The same of the disk, when this run's file is the one written to.
LEMMA AppendedDiskKeeps ==
  ASSUME NoTear, Shape, NEW kind \in {"intents", "known", "closed"},
         NEW S \in SUBSET Seqs, NEW w \in Writes,
         disk' = [disk EXCEPT ![run] = Appended(@, kind, S, w)]
  PROVE  /\ \A r \in Runs : disk[r].intents \subseteq disk'[r].intents
         /\ \A r \in Runs : disk[r].tail = "clean" => disk'[r].tail = "clean"
<1>1. disk \in [Runs -> LedgerFile]
  BY DEF Shape, TypeOK
<1>2. \A r \in Runs : disk'[r] = IF r = run THEN Appended(disk[r], kind, S, w) ELSE disk[r]
  BY <1>1
<1>3. ASSUME NEW r \in Runs
      PROVE  /\ disk[r].intents \subseteq disk'[r].intents
             /\ disk[r].tail = "clean" => disk'[r].tail = "clean"
  <2>1. disk[r] \in LedgerFile
    BY <1>1
  <2>2. CASE r = run
    <3> DEFINE g == Appended(disk[r], kind, S, w)
    <3>1. disk[r].intents \subseteq g.intents /\ (disk[r].tail = "clean" => g.tail = "clean")
      BY <2>1, AppendedKeeps
    <3>2. disk'[r] = g
      BY <1>2, <2>2
    <3> QED
      BY <3>1, <3>2
  <2>3. CASE r # run
    BY <1>2, <2>3
  <2> QED
    BY <2>2, <2>3
<1> QED
  BY <1>3

\* A step that writes no ledger, enters no create and makes no object.
LEMMA QuietKeeps ==
  ASSUME Shape, UNCHANGED <<run, disk, slot>>,
         tenant' \subseteq tenant, overdue' \subseteq overdue,
         \A e \in Entities : at'[e] \in {"send", "wait"} => at[e] \in {"send", "wait"}
  PROVE  Keeps
  BY DEF Keeps

\* Going on to the next entity leaves no create under way.
LEMMA NextEntityIdle ==
  ASSUME NextEntity
  PROVE  \A e \in Entities : at'[e] \notin {"send", "wait"}
  BY DEF NextEntity, AllIdle

\* A create whose outcome is not learned brings nothing into being but its object.
LEMMA UnlearnedKeeps ==
  ASSUME NEW o, NEW possible, Unlearned(o, possible)
  PROVE  \A x \in tenant' \cup overdue' : x \in tenant \cup overdue \/ x = o
  BY DEF Unlearned, worldVars

\* A kill keeps every intent recorded.
LEMMA CrashKeeps ==
  ASSUME Shape, Crash
  PROVE  Keeps
<1>1. run' = run /\ phase' = "down" /\ at' = AllIdle
  BY DEF Crash, Rest
<1>2. disk \in [Runs -> LedgerFile]
  BY DEF Shape, TypeOK
<1>3. disk' \in {disk, [disk EXCEPT ![run] = Torn(disk[run])]}
  BY DEF Crash
<1>4. \A f \in LedgerFile : Torn(f).intents = f.intents
  BY DEF LedgerFile, Torn
<1>5. \A r \in Runs : disk[r].intents \subseteq disk'[r].intents
  BY <1>2, <1>3, <1>4
<1>6. \A r \in Runs : r # run => disk'[r] = disk[r]
  BY <1>2, <1>3
<1>7. \A x \in tenant' \cup overdue' :
        x \in tenant \cup overdue \/ \E e \in Entities : at[e] = "wait" /\ x = <<run, slot[e]>>
  <2>1. CASE \E e \in Entities : at[e] = "wait"
    <3> DEFINE d == CHOOSE e \in Entities : at[e] = "wait"
    <3>1. d \in Entities /\ at[d] = "wait"
      BY <2>1
    <3>2. Unlearned(<<run, slot[d]>>, ParentReached(d))
      BY <2>1 DEF Crash
    <3> HIDE DEF d
    <3> QED
      BY <3>1, <3>2, UnlearnedKeeps
  <2>2. CASE ~\E e \in Entities : at[e] = "wait"
    BY <2>2 DEF Crash, worldVars
  <2> QED
    BY <2>1, <2>2
<1>8. \A e \in Entities : at'[e] \notin {"send", "wait"}
  BY <1>1 DEF AllIdle
<1> QED
  BY <1>1, <1>5, <1>6, <1>7, <1>8 DEF Keeps

\* A create keeps every intent recorded, its own included.
LEMMA CreatingKeeps ==
  ASSUME NoTear, Recorded, NEW e \in Entities, CreateStep(e)
  PROVE  Keeps
<1> USE DEF Recorded
<1>1. Stepping => run \in Runs /\ disk[run].tail = "clean"
  BY DEF Shape, Stepping
<1>2. at \in [Entities -> Points] /\ slot \in [Entities -> 0 .. MaxSeq]
  BY DEF Shape, TypeOK
<1>3. Waiting(e) => Stepping /\ slot[e] \in Seqs /\ at[e] = "wait"
  BY DEF Waiting, Shape
<1>4. CASE Enter(e)
  BY <1>2, <1>4, QuietKeeps DEF Enter, worldVars
<1>5. CASE Resolved(e)
  BY <1>2, <1>5, QuietKeeps DEF Resolved, worldVars
<1>6. ASSUME NEW w \in Writes, RecordIntent(e, w) PROVE Keeps
  <2> DEFINE seq == Len(log[run]) + 1
  <2>1. /\ Stepping /\ run \in Runs /\ seq \in Seqs
        /\ disk' = [disk EXCEPT ![run] = Appended(@, "intents", {seq}, w)]
        /\ UNCHANGED <<run, tenant, overdue>>
    BY <1>1, <1>6 DEF RecordIntent, worldVars
  <2> HIDE DEF seq
  <2>2. /\ \A r \in Runs : disk[r].intents \subseteq disk'[r].intents
        /\ \A r \in Runs : disk[r].tail = "clean" => disk'[r].tail = "clean"
    BY <2>1, AppendedDiskKeeps
  <2>3. CASE w = "ok"
    <3>1. at' = [at EXCEPT ![e] = "send"] /\ slot' = [slot EXCEPT ![e] = seq]
      BY <1>6, <2>3 DEF RecordIntent, seq
    <3>2. disk[run] \in LedgerFile /\ disk'[run] = Appended(disk[run], "intents", {seq}, w)
      BY <2>1 DEF Shape, TypeOK
    <3>3. {seq} \subseteq Appended(disk[run], "intents", {seq}, w).intents
      <4>1. {seq} \in SUBSET Seqs /\ disk[run].tail = "clean"
        BY <1>1, <2>1
      <4> QED
        BY <2>3, <3>2, <4>1, AppendedKeeps
    <3>4. seq \in disk'[run].intents
      BY <3>2, <3>3
    <3> QED
      BY <1>2, <2>1, <2>2, <3>1, <3>4 DEF Keeps
  <2>4. CASE w # "ok"
    <3>1. \A d \in Entities : at'[d] \notin {"send", "wait"}
      BY <1>6, <2>4, NextEntityIdle DEF RecordIntent
    <3> QED
      BY <2>1, <2>2, <3>1 DEF Keeps
  <2> QED
    BY <2>3, <2>4
<1>7. CASE Send(e)
  <2>1. \A d \in Entities : at'[d] \in {"send", "wait"} => at[d] \in {"send", "wait"}
    BY <1>2, <1>7 DEF Send
  <2> QED
    BY <1>7, <2>1, QuietKeeps DEF Send, worldVars
<1>8. CASE Abandon(e)
  <2>1. \A d \in Entities : at'[d] \notin {"send", "wait"}
    BY <1>8, NextEntityIdle DEF Abandon
  <2> QED
    BY <1>8, <2>1 DEF Abandon, Keeps, worldVars
<1>9. ASSUME NEW id \in BOOLEAN, NEW w \in Writes, Accepted(e, id, w) PROVE Keeps
  <2>1. /\ Waiting(e) /\ Stepping /\ slot[e] \in Seqs /\ at[e] = "wait"
        /\ disk' = [disk EXCEPT ![run] = Appended(@, "known", IF id THEN {slot[e]} ELSE {}, w)]
        /\ at' = [at EXCEPT ![e] = "idle"] /\ slot' = [slot EXCEPT ![e] = 0]
        /\ tenant' = tenant \cup {<<run, slot[e]>>} /\ UNCHANGED <<run, overdue>>
    BY <1>3, <1>9 DEF Accepted
  <2>2. (IF id THEN {slot[e]} ELSE {}) \in SUBSET Seqs
    BY <2>1
  <2>3. /\ \A r \in Runs : disk[r].intents \subseteq disk'[r].intents
        /\ \A r \in Runs : disk[r].tail = "clean" => disk'[r].tail = "clean"
    BY <2>1, <2>2, AppendedDiskKeeps
  <2>4. \A d \in Entities : at'[d] \in {"send", "wait"} =>
          at[d] \in {"send", "wait"} /\ slot'[d] = slot[d]
    BY <1>2, <2>1
  <2> QED
    BY <2>1, <2>3, <2>4 DEF Keeps
<1>10. ASSUME NEW w \in Writes, Refused(e, w) PROVE Keeps
  <2>1. /\ Waiting(e) /\ slot[e] \in Seqs
        /\ disk' = [disk EXCEPT ![run] = Appended(@, "closed", {slot[e]}, w)]
        /\ at' = [at EXCEPT ![e] = IF e = current THEN "idle" ELSE "enter"]
        /\ slot' = [slot EXCEPT ![e] = 0]
        /\ UNCHANGED <<run, tenant, overdue>>
    BY <1>3, <1>10 DEF Refused, worldVars
  <2>2. /\ \A r \in Runs : disk[r].intents \subseteq disk'[r].intents
        /\ \A r \in Runs : disk[r].tail = "clean" => disk'[r].tail = "clean"
    BY <2>1, AppendedDiskKeeps
  <2>3. \A d \in Entities : at'[d] \in {"send", "wait"} =>
          at[d] \in {"send", "wait"} /\ slot'[d] = slot[d]
    BY <1>2, <2>1
  <2> QED
    BY <2>1, <2>2, <2>3 DEF Keeps
<1>11. ASSUME Unclear(e) \/ Unseen(e) PROVE Keeps
  <2>1. /\ Waiting(e) /\ at[e] = "wait" /\ UNCHANGED <<run, disk>>
        /\ Unlearned(<<run, slot[e]>>, ParentReached(e))
    BY <1>3, <1>11 DEF Unclear, Unseen
  <2>2. \A d \in Entities : at'[d] \notin {"send", "wait"}
    BY <1>11, NextEntityIdle DEF Unclear, Unseen, AllIdle
  <2> QED
    BY <2>1, <2>2, UnlearnedKeeps DEF Keeps
<1> QED
  BY <1>4, <1>5, <1>6, <1>7, <1>8, <1>9, <1>10, <1>11 DEF CreateStep

\* A run's end keeps every intent recorded.
LEMMA ExitKeeps ==
  ASSUME Shape, Exit
  PROVE  Keeps
<1>1. run' = run /\ at' = AllIdle /\ UNCHANGED worldVars
  BY DEF Exit, Rest
<1>2. disk' = disk \/ disk' = [disk EXCEPT ![run].present = FALSE]
  BY DEF Exit
<1>3. \A r \in Runs : disk'[r].intents = disk[r].intents /\ disk'[r].tail = disk[r].tail
  <2>1. disk \in [Runs -> LedgerFile]
    BY DEF Shape, TypeOK
  <2>2. CASE disk' = disk
    BY <2>2
  <2>3. CASE disk' = [disk EXCEPT ![run].present = FALSE]
    BY <2>1, <2>3 DEF LedgerFile
  <2> QED
    BY <1>2, <2>2, <2>3
<1> QED
  BY <1>1, <1>3 DEF Keeps, AllIdle, worldVars

\* An entity's program keeps every intent recorded.
LEMMA ProgramKeeps ==
  ASSUME NoTear, Recorded, ProgramStep
  PROVE  Keeps
<1> USE DEF Recorded
<1>1. at \in [Entities -> Points]
  BY DEF Shape, TypeOK
<1>2. CASE FinishEntity
  <2>1. \A d \in Entities : at'[d] \notin {"send", "wait"}
    BY <1>2, NextEntityIdle DEF FinishEntity
  <2> QED
    BY <1>2, <2>1 DEF FinishEntity, Keeps, worldVars
<1>3. ASSUME NEW probe \in BOOLEAN, BeginCreate(probe) PROVE Keeps
  BY <1>1, <1>3, QuietKeeps DEF BeginCreate, worldVars
<1>4. CASE ResolveParent
  BY <1>1, <1>4, QuietKeeps DEF ResolveParent, worldVars
<1>5. CASE \E e \in Entities : CreateStep(e)
  BY <1>5, CreatingKeeps
<1>6. CASE DeleteMinimal \/ CleanupDelete
  BY <1>6, QuietKeeps DEF DeleteMinimal, CleanupDelete, BeginDelete, worldVars
<1>7. \A o : Without(o) \subseteq tenant
  BY DEF Without
<1>8. ASSUME NEW w \in Writes, DeleteGone(w) PROVE Keeps
  <2> DEFINE s == Newest(doomed)
  <2>1. s \in Seqs
    BY <1>8, NewestIsMax DEF DeleteGone, Deleting, Shape, TypeOK
  <2>2. disk' = [disk EXCEPT ![run] = Appended(@, "closed", {s}, w)]
    BY <1>8 DEF DeleteGone
  <2>3. tenant' \subseteq tenant /\ UNCHANGED <<run, overdue, at, slot>>
    BY <1>7, <1>8 DEF DeleteGone
  <2> HIDE DEF s
  <2>4. /\ \A r \in Runs : disk[r].intents \subseteq disk'[r].intents
        /\ \A r \in Runs : disk[r].tail = "clean" => disk'[r].tail = "clean"
    BY <2>1, <2>2, AppendedDiskKeeps
  <2> QED
    BY <2>3, <2>4 DEF Keeps
<1>9. CASE DeleteRefused
  BY <1>9, QuietKeeps DEF DeleteRefused, worldVars
<1>10. CASE DeleteUnseen
  <2>1. tenant' \subseteq tenant /\ UNCHANGED <<run, disk, overdue>>
    BY <1>7, <1>10 DEF DeleteUnseen
  <2>2. \A d \in Entities : at'[d] \in {"send", "wait"} =>
          at[d] \in {"send", "wait"} /\ slot'[d] = slot[d]
    BY <1>10, NextEntityIdle DEF DeleteUnseen
  <2> QED
    BY <2>1, <2>2 DEF Keeps
<1> QED
  BY <1>2, <1>3, <1>4, <1>5, <1>6, <1>8, <1>9, <1>10 DEF ProgramStep

\* The cleanups keep every intent of the objects that are left.
LEMMA CleanupKeeps ==
  ASSUME NoTear, Recorded, CleanupStep
  PROVE  Keeps
<1> USE DEF Recorded
<1>1. \A o : Without(o) \subseteq tenant
  BY DEF Without
<1>2. ASSUME NEW r \in Runs, SkipFile(r) \/ OpenFile(r) PROVE Keeps
  BY <1>2, QuietKeeps DEF SkipFile, OpenFile, worldVars, progressVars
<1>3. CASE ReplayNameless \/ OwnNameless
  BY <1>3, QuietKeeps DEF ReplayNameless, OwnNameless, worldVars, progressVars
<1>4. CASE ReplayGone \/ ReplayFailed \/ OwnFailed
  BY <1>1, <1>4, QuietKeeps DEF ReplayGone, ReplayFailed, OwnFailed, progressVars
<1>5. CASE CloseFile
  <2>1. \A r \in Runs : disk'[r].intents = disk[r].intents /\ disk'[r].tail = disk[r].tail
    BY <1>5 DEF CloseFile, Shape, TypeOK, LedgerFile
  <2> QED
    BY <1>5, <2>1 DEF CloseFile, Keeps, worldVars, progressVars
<1>6. CASE LeavePrior \/ LeaveOwn
  BY <1>6, QuietKeeps DEF LeavePrior, LeaveOwn, worldVars, progressVars
<1>7. ASSUME NEW w \in Writes, OwnGone(w) PROVE Keeps
  <2> DEFINE s == Newest(todo)
  <2>1. s \in Seqs
    BY <1>7, NewestIsMax DEF OwnGone, Shape, TypeOK
  <2>2. disk' = [disk EXCEPT ![run] = Appended(@, "closed", {s}, w)]
    BY <1>7 DEF OwnGone
  <2>3. tenant' \subseteq tenant /\ UNCHANGED <<run, overdue, at, slot>>
    BY <1>1, <1>7 DEF OwnGone, progressVars
  <2> HIDE DEF s
  <2>4. /\ \A r \in Runs : disk[r].intents \subseteq disk'[r].intents
        /\ \A r \in Runs : disk[r].tail = "clean" => disk'[r].tail = "clean"
    BY <2>1, <2>2, AppendedDiskKeeps
  <2> QED
    BY <2>3, <2>4 DEF Keeps
<1>8. CASE ListCollection \/ BeginSteps
  BY <1>8, QuietKeeps DEF ListCollection, BeginSteps, worldVars
<1>9. ASSUME NEW o \in found, NEW w \in Writes, PrefixGone(o, w) PROVE Keeps
  <2> DEFINE closing == IF Homonyms(o) = {} THEN {} ELSE {Newest(Homonyms(o))}
  <2>1. run \in Runs
    BY <1>9 DEF PrefixGone, Listing, Shape
  <2>2. closing \in SUBSET Seqs
    <3>1. Homonyms(o) \subseteq Seqs
      BY <2>1, OutstandingType DEF Homonyms
    <3> QED
      BY <3>1, NewestIsMax
  <2>3. disk' \in {disk, [disk EXCEPT ![run] = Appended(@, "closed", closing, w)]}
    BY <1>9 DEF PrefixGone
  <2>4. tenant' \subseteq tenant /\ UNCHANGED <<run, overdue, at, slot>>
    BY <1>1, <1>9 DEF PrefixGone, progressVars
  <2> HIDE DEF closing
  <2>5. CASE disk' = disk
    BY <2>4, <2>5 DEF Keeps
  <2>6. CASE disk' = [disk EXCEPT ![run] = Appended(@, "closed", closing, w)]
    <3>1. /\ \A r \in Runs : disk[r].intents \subseteq disk'[r].intents
          /\ \A r \in Runs : disk[r].tail = "clean" => disk'[r].tail = "clean"
      BY <2>2, <2>6, AppendedDiskKeeps
    <3> QED
      BY <2>4, <3>1 DEF Keeps
  <2> QED
    BY <2>3, <2>5, <2>6
<1>10. ASSUME NEW o \in found, PrefixFailed(o) PROVE Keeps
  BY <1>1, <1>10, QuietKeeps DEF PrefixFailed, progressVars
<1>11. CASE Finish
  BY <1>11, ExitKeeps DEF Finish
<1> QED
  BY <1>2, <1>3, <1>4, <1>5, <1>6, <1>7, <1>8, <1>9, <1>10, <1>11 DEF CleanupStep

\* Carrying out a create late makes an object of one that was already possible.
LEMMA CarryOutKeeps ==
  ASSUME Recorded, NEW o \in overdue, CarryOut(o)
  PROVE  Keeps
  BY DEF CarryOut, Keeps, progressVars

\* Every step keeps what is recorded recorded.
LEMMA KeepsRecorded ==
  ASSUME Recorded, Shape', Keeps, phase # "down" \/ phase' = "down"
  PROVE  Recorded'
<1> USE DEF Recorded
<1>1. tenant' \cup overdue' \subseteq Runs \X Seqs
  BY DEF Shape, TypeOK
<1>2. RecordedBeforeSent'
  <2> SUFFICES ASSUME NEW o \in tenant' \cup overdue'
               PROVE  o[2] \in disk'[o[1]].intents
    BY DEF RecordedBeforeSent
  <2>1. o[1] \in Runs
    BY <1>1
  <2>2. disk[o[1]].intents \subseteq disk'[o[1]].intents
    BY <2>1 DEF Keeps
  <2>3. CASE o \in tenant \cup overdue
    BY <2>2, <2>3 DEF RecordedBeforeSent
  <2>4. CASE \E e \in Entities : at[e] = "wait" /\ o = <<run, slot[e]>>
    BY <2>2, <2>4
  <2> QED
    BY <2>3, <2>4 DEF Keeps
<1>3. \A e \in Entities : at'[e] \in {"send", "wait"} => slot'[e] \in disk'[run'].intents
  <2> SUFFICES ASSUME NEW e \in Entities, at'[e] \in {"send", "wait"}
               PROVE  slot'[e] \in disk'[run'].intents
    OBVIOUS
  <2>1. CASE at[e] \in {"send", "wait"} /\ slot'[e] = slot[e]
    <3>1. phase' # "down" /\ run' = run
      BY DEF Keeps, Shape, AllIdle
    <3>2. run \in Runs
      BY <3>1 DEF Shape
    <3> QED
      BY <2>1, <3>1, <3>2 DEF Keeps
  <2> QED
    BY <2>1 DEF Keeps
<1>4. phase' # "down" => disk'[run'].tail = "clean"
  BY DEF Keeps, Shape
<1>5. \A r \in Runs : run' < r => disk'[r].tail = "clean"
  <2> SUFFICES ASSUME NEW r \in Runs, run < r
               PROVE  disk'[r].tail = "clean"
    BY DEF Keeps
  <2>1. r # run
    BY PlanAssumption DEF Runs, Shape, TypeOK
  <2> QED
    BY <2>1 DEF Keeps
<1> QED
  BY <1>2, <1>3, <1>4, <1>5

\* Nothing exists in the first state, so everything is recorded.
LEMMA StartRecorded ==
  ASSUME Recorded, Start
  PROVE  Recorded'
<1> USE DEF Recorded
<1>1. Shape'
  BY StartingShape
<1>2. /\ run' = run + 1 /\ run \in 0 .. MaxRuns /\ run' \in Runs
      /\ disk' = [disk EXCEPT ![run + 1].present = TRUE]
      /\ at' = AllIdle /\ UNCHANGED worldVars
  BY PlanAssumption DEF Start, Rest, Shape, TypeOK, Runs
<1>3. \A r \in Runs : disk'[r].intents = disk[r].intents /\ disk'[r].tail = disk[r].tail
  BY <1>2 DEF Shape, TypeOK, LedgerFile
<1>4. RecordedBeforeSent'
  BY <1>2, <1>3 DEF RecordedBeforeSent, worldVars, Shape, TypeOK
<1>5. disk'[run'].tail = "clean" /\ \A r \in Runs : run' < r => disk'[r].tail = "clean"
  BY <1>2, <1>3, PlanAssumption DEF Runs
<1> QED
  BY <1>1, <1>2, <1>4, <1>5 DEF AllIdle

\* "The ledger intent is written and fsynced before the request is sent": when no
\* ledger line is torn under a living process, no object ever exists, or is still
\* to appear, whose intent a later run could not read back.
THEOREM EveryObjectRecorded == NoTear => (Spec => []RecordedBeforeSent)
<1> SUFFICES ASSUME NoTear PROVE Spec => []RecordedBeforeSent
  OBVIOUS
<1>1. Init => Recorded
  <2> SUFFICES ASSUME Init PROVE Recorded
    OBVIOUS
  <2>1. Shape
    BY ShapeInit
  <2>2. RecordedBeforeSent /\ \A e \in Entities : at[e] \notin {"send", "wait"}
    BY DEF Init, RecordedBeforeSent, AllIdle
  <2>3. phase = "down" /\ \A r \in Runs : disk[r].tail = "clean"
    BY DEF Init, EmptyFile
  <2> QED
    BY <2>1, <2>2, <2>3 DEF Recorded
<1>2. Recorded /\ [Next]_vars => Recorded'
  <2> SUFFICES ASSUME Recorded, [Next]_vars PROVE Recorded'
    OBVIOUS
  <2>1. Shape'
    BY ShapeStep DEF Recorded
  <2>2. CASE UNCHANGED vars
    BY <2>2 DEF vars, worldVars, progressVars, Recorded, RecordedBeforeSent, Shape, TypeOK,
       memoryVars, passVars
  <2>3. CASE Start
    BY <2>3, StartRecorded
  <2>4. CASE ProgramStep
    <3>1. phase # "down"
      BY <2>4 DEF ProgramStep, FinishEntity, BeginCreate, ResolveParent, CreateStep, Enter,
         Resolved, RecordIntent, Send, Abandon, Accepted, Refused, Unclear, Unseen, Waiting,
         DeleteMinimal, CleanupDelete, BeginDelete, DeleteGone, DeleteRefused, DeleteUnseen,
         Deleting, Stepping
    <3> QED
      BY <2>1, <2>4, <3>1, ProgramKeeps, KeepsRecorded
  <2>5. CASE CleanupStep
    <3>1. phase # "down" \/ phase' = "down"
      BY <2>5 DEF CleanupStep, SkipFile, OpenFile, ReplayNameless, ReplayGone, ReplayFailed,
         CloseFile, LeavePrior, OwnNameless, OwnGone, OwnFailed, LeaveOwn, ListCollection,
         PrefixGone, PrefixFailed, Listing, BeginSteps, Finish, Exit
    <3> QED
      BY <2>1, <2>5, <3>1, CleanupKeeps, KeepsRecorded
  <2>6. CASE Crash
    BY <2>1, <2>6, CrashKeeps, KeepsRecorded DEF Recorded, Crash
  <2>7. CASE \E o \in overdue : CarryOut(o)
    <3>1. phase' = phase
      BY <2>7 DEF CarryOut
    <3> QED
      BY <2>1, <2>7, <3>1, CarryOutKeeps, KeepsRecorded
  <2> QED
    BY <2>2, <2>3, <2>4, <2>5, <2>6, <2>7 DEF Next, ProcessStep
<1>3. Recorded => RecordedBeforeSent
  BY DEF Recorded
<1> QED
  BY <1>1, <1>2, <1>3, PTL DEF Spec

-----------------------------------------------------------------------------
(* In what order a run makes objects and forgets them: a child is newer    *)
(* than the parent its path names, and what is registered or about to be   *)
(* deleted has not been reported gone.                                     *)

\* The creates under way are one chain of frames: each but the innermost waits
\* for its parent's, and one that is past resolving its path has its parent.
Awake(e) == at[e] # "idle"

Frames ==
  /\ \A x \in Entities : Awake(x) => x <= current /\ doomed = {}
  /\ \A x, y \in Entities : Awake(x) /\ Awake(y) /\ y < x =>
       at[x] \in {"resolve", "send"} /\ NeedsParent(x) /\ y <= Parent[x]
  /\ \A x \in Entities : at[x] = "resolve" =>
       Parent[x] # 0 /\ (Awake(Parent[x]) \/ registry[Parent[x]] # 0)
  /\ \A x \in EmbedsParent : at[x] \in {"record", "send", "wait"} => registry[Parent[x]] # 0

Slots ==
  \A x \in Entities : at[x] \in {"send", "wait"} =>
    /\ slot[x] \in 1 .. Len(log[run]) /\ log[run][slot[x]].ent = x
    /\ slot[x] \notin settled /\ slot[x] # registry[x]
    /\ x \in EmbedsParent => registry[Parent[x]] < slot[x]

Registered ==
  /\ \A e \in Entities : registry[e] # 0 =>
       /\ registry[e] \in 1 .. Len(log[run]) /\ log[run][registry[e]].ent = e
       /\ registry[e] \notin settled
  /\ doomed \subseteq (1 .. Len(log[run])) \ settled

Underneath ==
  \A r \in Runs : \A s \in 1 .. Len(log[r]) :
    log[r][s].ent \in EmbedsParent => log[r][s].under < s

Logged == \A o \in tenant \cup overdue : o[2] \in 1 .. Len(log[o[1]])

Rested ==
  /\ phase # "steps" => at = AllIdle
  /\ phase \in {"prior", "startPrefix"} => registry = NoRegistry /\ doomed = {}
  /\ phase \in {"prior", "startPrefix", "steps"} => settled \subseteq 1 .. Len(log[run])

Ordered ==
  /\ phase = "steps" => Frames /\ Slots /\ Registered
  /\ Rested
  /\ Underneath
  /\ Logged

OrderedShape == Shape /\ Ordered

-----------------------------------------------------------------------------
\* What a step that makes no object and adds no intent leaves.
LEMMA SameObjects ==
  ASSUME Underneath, Logged, log' = log, tenant' \cup overdue' \subseteq tenant \cup overdue
  PROVE  Underneath' /\ Logged'
  BY DEF Underneath, Logged

\* The object a response may be about is in the log.
LEMMA AwaitedObjects ==
  ASSUME Underneath, Logged, log' = log, NEW e \in Entities, Slots, at[e] = "wait",
         \A o \in tenant' \cup overdue' : o \in tenant \cup overdue \/ o = <<run, slot[e]>>
  PROVE  Underneath' /\ Logged'
  BY DEF Underneath, Logged, Slots

\* Between two frames nothing is under way.
LEMMA IdleFrames ==
  ASSUME at' = AllIdle, EmbedsParent \subseteq Entities
  PROVE  Frames' /\ Slots'
  BY DEF Frames, Slots, Awake, AllIdle

\* Going on to the next entity keeps what is registered.
LEMMA NextEntityOrdered ==
  ASSUME Shape, Stepping, NextEntity, Registered, Rested, run' = run, settled' = settled,
         Len(log[run]) <= Len(log'[run]), Len(log'[run]) \in Nat,
         \A s \in 1 .. Len(log[run]) : log'[run][s].ent = log[run][s].ent
  PROVE  Frames' /\ Slots' /\ Registered' /\ Rested'
<1>1. at' = AllIdle /\ doomed' = {} /\ registry' = registry /\ phase' \in {"steps", "own"}
  BY DEF NextEntity, Stepping
<1>2. Frames' /\ Slots'
  BY <1>1, IdleFrames, PlanAssumption
<1>3. Len(log[run]) \in Nat
  BY LenProperties DEF Shape, TypeOK, Stepping
<1>4. Registered'
  BY <1>1, <1>3 DEF Registered
<1>5. Rested'
  BY <1>1, <1>3 DEF Rested, Stepping
<1>6. QED
  BY <1>2, <1>4, <1>5

\* A step of a program that touches neither frames nor logs nor what is settled,
\* and at most forgets some of what it was about to delete.
LEMMA QuietOrdered ==
  ASSUME Stepping, Frames, Slots, Registered, Rested, phase' = phase, doomed' \subseteq doomed,
         UNCHANGED <<run, log, settled, registry, at, slot, current>>
  PROVE  Frames' /\ Slots' /\ Registered' /\ Rested'
<1>1. Frames'
  BY DEF Frames, Awake, NeedsParent
<1>2. Slots'
  BY DEF Slots
<1>3. Registered'
  BY DEF Registered
<1>4. Rested'
  BY DEF Rested, Stepping
<1>5. QED
  BY <1>1, <1>2, <1>3, <1>4

\* What every create knows of the frame it is in.
LEMMA Frame ==
  ASSUME Shape, Ordered, Stepping, NEW e \in Entities, Innermost(e)
  PROVE  /\ Frames /\ Slots /\ Registered /\ Rested /\ Underneath /\ Logged
         /\ run \in Runs /\ log[run] \in Seq(Intent) /\ Len(log[run]) \in Nat
         /\ Awake(e) /\ doomed = {} /\ e <= current
         /\ \A x \in Entities : Awake(x) => e <= x
         /\ \A x \in Entities : x # e /\ Awake(x) =>
              at[x] \in {"resolve", "send"} /\ NeedsParent(x) /\ e <= Parent[x]
         /\ Parent[e] # 0 => Parent[e] \in Entities /\ Parent[e] < e /\ ~Awake(Parent[e])
<1>1. Frames /\ Slots /\ Registered /\ Rested /\ Underneath /\ Logged
  BY DEF Ordered, Stepping
<1>2. run \in Runs /\ log[run] \in Seq(Intent) /\ Len(log[run]) \in Nat
  BY LenProperties DEF Shape, TypeOK, Stepping
<1>3. Awake(e) /\ \A x \in Entities : Awake(x) => e <= x
  BY DEF Innermost, Awake
<1>4. doomed = {} /\ e <= current
  BY <1>1, <1>3 DEF Frames
<1>5. \A x \in Entities : x # e /\ Awake(x) =>
        at[x] \in {"resolve", "send"} /\ NeedsParent(x) /\ e <= Parent[x]
  BY <1>1, <1>3 DEF Frames, Entities
<1>6. Parent[e] # 0 => Parent[e] \in Entities /\ Parent[e] < e /\ ~Awake(Parent[e])
  BY <1>3, PlanAssumption DEF Entities
<1>7. QED
  BY <1>1, <1>2, <1>3, <1>4, <1>5, <1>6

\* Entering a create, and its path resolved.
LEMMA EnterOrdered ==
  ASSUME Shape, Ordered, NEW e \in Entities, Enter(e) \/ Resolved(e)
  PROVE  Ordered'
<1>1. Stepping /\ Innermost(e) /\ phase' = phase
      /\ UNCHANGED <<run, log, settled, registry, slot, doomed, current, tenant, overdue>>
  BY DEF Enter, Resolved, memoryVars, worldVars
<1>2. /\ Frames /\ Slots /\ Registered /\ Rested /\ Underneath /\ Logged
      /\ Awake(e) /\ doomed = {} /\ e <= current
      /\ \A x \in Entities : Awake(x) => e <= x
      /\ \A x \in Entities : x # e /\ Awake(x) =>
           at[x] \in {"resolve", "send"} /\ NeedsParent(x) /\ e <= Parent[x]
      /\ Parent[e] # 0 => Parent[e] \in Entities /\ Parent[e] < e /\ ~Awake(Parent[e])
  BY <1>1, Frame
<1>3. at \in [Entities -> Points] /\ current \in Nat /\ Entities \subseteq Nat
  BY <1>1, PlanAssumption DEF Shape, TypeOK, Entities
<1>4. Underneath' /\ Logged'
  BY <1>1, <1>2, SameObjects
<1>5. Registered' /\ Rested'
  BY <1>1, <1>2 DEF Registered, Rested, Stepping
<1>6. \A x \in Entities : NeedsParent(x)' = NeedsParent(x)
  BY <1>1 DEF NeedsParent
<1>7. CASE at' = [at EXCEPT ![e] = "record"] /\ (e \in EmbedsParent => registry[Parent[e]] # 0)
  <2>1. \A x \in Entities : at'[x] = IF x = e THEN "record" ELSE at[x]
    BY <1>3, <1>7
  <2>2. Slots'
    BY <1>1, <1>2, <2>1 DEF Slots
  <2>3. \A x \in Entities : Awake(x)' <=> Awake(x)
    BY <1>2, <2>1 DEF Awake
  <2>4. Frames'
    <3>1. \A x \in Entities : Awake(x)' => x <= current' /\ doomed' = {}
      BY <1>1, <1>2, <2>3 DEF Frames
    <3>2. \A x, y \in Entities : Awake(x)' /\ Awake(y)' /\ y < x =>
            at'[x] \in {"resolve", "send"} /\ NeedsParent(x)' /\ y <= Parent[x]
      BY <1>2, <1>3, <1>6, <2>1, <2>3 DEF Frames
    <3>3. \A x \in Entities : at'[x] = "resolve" =>
            Parent[x] # 0 /\ (Awake(Parent[x])' \/ registry'[Parent[x]] # 0)
      BY <1>1, <1>2, <2>1, <2>3, PlanAssumption DEF Frames, Entities
    <3>4. \A x \in EmbedsParent : at'[x] \in {"record", "send", "wait"} => registry'[Parent[x]] # 0
      BY <1>1, <1>2, <1>7, <2>1, PlanAssumption DEF Frames
    <3>5. QED
      BY <3>1, <3>2, <3>3, <3>4 DEF Frames
  <2>5. QED
    BY <1>4, <1>5, <2>2, <2>4 DEF Ordered
<1>8. CASE NeedsParent(e) /\ at' = [at EXCEPT ![e] = "resolve", ![Parent[e]] = "enter"]
  <2>1. Parent[e] # 0 /\ Parent[e] \in Entities /\ Parent[e] < e /\ ~Awake(Parent[e])
    BY <1>2, <1>8 DEF NeedsParent
  <2>2. \A x \in Entities : at'[x] = IF x = Parent[e] THEN "enter"
                                     ELSE IF x = e THEN "resolve" ELSE at[x]
    BY <1>3, <1>8, <2>1
  <2>3. \A x \in Entities : Awake(x)' <=> (Awake(x) \/ x = Parent[e])
    BY <1>2, <2>2 DEF Awake
  <2>4. Slots'
    BY <1>1, <1>2, <2>2 DEF Slots
  <2>5. Frames'
    <3>1. \A x \in Entities : Awake(x)' => x <= current' /\ doomed' = {}
      BY <1>1, <1>2, <1>3, <2>1, <2>3 DEF Frames
    <3>2. \A x, y \in Entities : Awake(x)' /\ Awake(y)' /\ y < x =>
            at'[x] \in {"resolve", "send"} /\ NeedsParent(x)' /\ y <= Parent[x]
      <4> SUFFICES ASSUME NEW x \in Entities, NEW y \in Entities,
                          Awake(x)', Awake(y)', y < x
                   PROVE  at'[x] \in {"resolve", "send"} /\ NeedsParent(x)' /\ y <= Parent[x]
        OBVIOUS
      <4>1. x # Parent[e]
        BY <1>2, <1>3, <2>1, <2>3
      <4>2. CASE x = e
        BY <1>2, <1>3, <1>6, <1>8, <2>1, <2>2, <2>3, <4>2
      <4>3. CASE x # e
        <5>1. at[x] \in {"resolve", "send"} /\ NeedsParent(x) /\ e <= Parent[x]
          BY <1>2, <2>3, <4>1, <4>3
        <5>2. y <= Parent[x]
          <6>1. CASE y = Parent[e]
            BY <1>3, <2>1, <5>1, <6>1, PlanAssumption
          <6>2. CASE y # Parent[e]
            BY <1>2, <2>3, <4>1, <6>2 DEF Frames
          <6>3. QED
            BY <6>1, <6>2
        <5>3. QED
          BY <1>6, <2>2, <4>1, <4>3, <5>1, <5>2
      <4>4. QED
        BY <4>2, <4>3
    <3>3. \A x \in Entities : at'[x] = "resolve" =>
            Parent[x] # 0 /\ (Awake(Parent[x])' \/ registry'[Parent[x]] # 0)
      BY <1>1, <1>2, <2>1, <2>2, <2>3, PlanAssumption DEF Frames, Entities
    <3>4. \A x \in EmbedsParent : at'[x] \in {"record", "send", "wait"} => registry'[Parent[x]] # 0
      BY <1>1, <1>2, <2>2, PlanAssumption DEF Frames
    <3>5. QED
      BY <3>1, <3>2, <3>3, <3>4 DEF Frames
  <2>6. QED
    BY <1>4, <1>5, <2>4, <2>5 DEF Ordered
<1>9. CASE Enter(e)
  <2>1. e \in EmbedsParent => Parent[e] # 0
    BY PlanAssumption
  <2>2. QED
    BY <1>7, <1>8, <1>9, <2>1 DEF Enter, NeedsParent
<1>10. CASE Resolved(e)
  <2>1. e \in EmbedsParent => registry[Parent[e]] # 0
    BY <1>2, <1>10 DEF Resolved, Frames
  <2>2. QED
    BY <1>7, <1>10, <2>1 DEF Resolved
<1>11. QED
  BY <1>9, <1>10

\* Announcing a create: its number is above every number in use.
LEMMA RecordOrdered ==
  ASSUME Shape, Ordered, NEW e \in Entities, NEW w \in Writes, RecordIntent(e, w)
  PROVE  Ordered'
<1> DEFINE seq == Len(log[run]) + 1
           line == [ent |-> e, suffixed |-> Suffixed(e), under |-> 0]
<1>1. Stepping /\ Innermost(e) /\ at[e] = "record"
      /\ log' = [log EXCEPT ![run] = Append(@, line)]
      /\ UNCHANGED <<run, settled, tenant, overdue>>
  BY DEF RecordIntent, memoryVars, worldVars
<1>2. /\ Frames /\ Slots /\ Registered /\ Rested /\ Underneath /\ Logged
      /\ run \in Runs /\ log[run] \in Seq(Intent) /\ Len(log[run]) \in Nat
      /\ Awake(e) /\ doomed = {} /\ e <= current
      /\ \A x \in Entities : Awake(x) => e <= x
  BY <1>1, Frame
<1>3. at \in [Entities -> Points] /\ slot \in [Entities -> 0 .. MaxSeq] /\ Entities \subseteq Nat
      /\ registry \in [Entities -> 0 .. MaxSeq] /\ log \in [Runs -> Seq(Intent)]
  BY PlanAssumption DEF Shape, TypeOK, Entities
<1>4. /\ Len(log'[run]) = seq /\ log'[run][seq] = line
      /\ \A s \in 1 .. Len(log[run]) : log'[run][s] = log[run][s]
      /\ \A r \in Runs : r # run => log'[r] = log[r]
  BY <1>1, <1>2, <1>3
<1>5. Underneath'
  <2> SUFFICES ASSUME NEW r \in Runs, NEW s \in 1 .. Len(log'[r]),
                      log'[r][s].ent \in EmbedsParent
               PROVE  log'[r][s].under < s
    BY DEF Underneath
  <2>1. CASE r = run /\ s = seq
    BY <1>2, <1>4, <2>1
  <2>2. CASE r = run /\ s # seq
    BY <1>2, <1>4, <2>2 DEF Underneath
  <2>3. CASE r # run
    BY <1>2, <1>4, <2>3 DEF Underneath
  <2>4. QED
    BY <2>1, <2>2, <2>3
<1>6. Logged'
  <2> SUFFICES ASSUME NEW o \in tenant \cup overdue
               PROVE  o[2] \in 1 .. Len(log'[o[1]])
    BY <1>1 DEF Logged
  <2>1. o[1] \in Runs
    BY DEF Shape, TypeOK
  <2>2. o[2] \in 1 .. Len(log[o[1]])
    BY <1>2 DEF Logged
  <2>3. QED
    BY <1>2, <1>4, <2>1, <2>2
<1>7. CASE NextEntity
  <2>1. Frames' /\ Slots' /\ Registered' /\ Rested'
    BY <1>1, <1>2, <1>4, <1>7, NextEntityOrdered
  <2>2. QED
    BY <1>5, <1>6, <2>1 DEF Ordered
<1>8. CASE ~NextEntity
  <2> HIDE DEF line
  <2>1. /\ at' = [at EXCEPT ![e] = "send"] /\ slot' = [slot EXCEPT ![e] = seq]
        /\ UNCHANGED <<phase, registry, current, doomed>>
    BY <1>8 DEF RecordIntent
  <2>2. /\ \A x \in Entities : at'[x] = IF x = e THEN "send" ELSE at[x]
        /\ \A x \in Entities : slot'[x] = IF x = e THEN seq ELSE slot[x]
    BY <1>3, <2>1
  <2>3. /\ \A x \in Entities : Awake(x)' <=> Awake(x)
        /\ \A x \in Entities : NeedsParent(x)' = NeedsParent(x)
    BY <1>2, <2>1, <2>2 DEF Awake, NeedsParent
  <2>4. Frames'
    <3>1. \A x \in Entities : Awake(x)' => x <= current' /\ doomed' = {}
      BY <1>2, <2>1, <2>3 DEF Frames
    <3>2. \A x, y \in Entities : Awake(x)' /\ Awake(y)' /\ y < x =>
            at'[x] \in {"resolve", "send"} /\ NeedsParent(x)' /\ y <= Parent[x]
      BY <1>2, <2>2, <2>3 DEF Frames
    <3>3. \A x \in Entities : at'[x] = "resolve" =>
            Parent[x] # 0 /\ (Awake(Parent[x])' \/ registry'[Parent[x]] # 0)
      BY <1>2, <2>1, <2>2, <2>3, PlanAssumption DEF Frames, Entities
    <3>4. \A x \in EmbedsParent : at'[x] \in {"record", "send", "wait"} => registry'[Parent[x]] # 0
      BY <1>1, <1>2, <2>1, <2>2, PlanAssumption DEF Frames
    <3>5. QED
      BY <3>1, <3>2, <3>3, <3>4 DEF Frames
  <2>5. line.ent = e
    BY DEF line
  <2>6. \A d \in Entities : registry[d] < seq
    BY <1>2, <1>3 DEF Registered
  <2>7. Slots'
    <3> SUFFICES ASSUME NEW x \in Entities, at'[x] \in {"send", "wait"}
                 PROVE  /\ slot'[x] \in 1 .. Len(log'[run]) /\ log'[run][slot'[x]].ent = x
                        /\ slot'[x] \notin settled /\ slot'[x] # registry[x]
                        /\ x \in EmbedsParent => registry[Parent[x]] < slot'[x]
      BY <1>1, <2>1 DEF Slots
    <3>1. CASE x = e
      <4>1. slot'[x] = seq /\ seq \in 1 .. Len(log'[run])
        BY <1>2, <1>4, <2>2, <3>1
      <4>2. seq \notin settled
        BY <1>1, <1>2 DEF Rested, Stepping
      <4>3. x \in EmbedsParent => Parent[x] \in Entities
        BY PlanAssumption DEF Entities
      <4>4. QED
        BY <1>4, <2>5, <2>6, <3>1, <4>1, <4>2, <4>3
    <3>2. CASE x # e
      BY <1>2, <1>4, <2>2, <3>2 DEF Slots
    <3>3. QED
      BY <3>1, <3>2
  <2>8. Registered' /\ Rested'
    <3>1. Registered'
      BY <1>1, <1>2, <1>4, <2>1 DEF Registered
    <3>2. Rested'
      BY <1>1, <1>2, <1>4, <2>1 DEF Rested, Stepping
    <3>3. QED
      BY <3>1, <3>2
  <2>9. QED
    BY <1>5, <1>6, <2>4, <2>7, <2>8 DEF Ordered
<1>9. QED
  BY <1>7, <1>8


\* Sending a create, or entering its parent's first. The path holds the number
\* the parent is registered under, which is below the child's.
LEMMA SendOrdered ==
  ASSUME Shape, Ordered, NEW e \in Entities, Send(e)
  PROVE  Ordered'
<1>1. Stepping /\ Innermost(e) /\ at[e] = "send" /\ phase' = phase
      /\ UNCHANGED <<run, settled, registry, slot, doomed, current, tenant, overdue>>
  BY DEF Send, memoryVars, worldVars
<1>2. /\ Frames /\ Slots /\ Registered /\ Rested /\ Underneath /\ Logged
      /\ run \in Runs /\ log[run] \in Seq(Intent) /\ Len(log[run]) \in Nat
      /\ Awake(e) /\ doomed = {} /\ e <= current
      /\ \A x \in Entities : Awake(x) => e <= x
      /\ \A x \in Entities : x # e /\ Awake(x) =>
           at[x] \in {"resolve", "send"} /\ NeedsParent(x) /\ e <= Parent[x]
      /\ Parent[e] # 0 => Parent[e] \in Entities /\ Parent[e] < e /\ ~Awake(Parent[e])
  BY <1>1, Frame
<1>3. at \in [Entities -> Points] /\ Entities \subseteq Nat /\ current \in Nat
      /\ registry \in [Entities -> 0 .. MaxSeq] /\ log \in [Runs -> Seq(Intent)]
  BY <1>1, PlanAssumption DEF Shape, TypeOK, Entities
<1>4. slot[e] \in 1 .. Len(log[run]) /\ log[run][slot[e]].ent = e
      /\ (e \in EmbedsParent => registry[Parent[e]] < slot[e])
  BY <1>1, <1>2 DEF Slots
<1>5. \A x \in Entities : NeedsParent(x)' = NeedsParent(x)
  BY <1>1 DEF NeedsParent
<1>6. CASE NeedsParent(e)
  <2>1. at' = [at EXCEPT ![Parent[e]] = "enter"] /\ log' = log
    BY <1>6 DEF Send
  <2>2. Parent[e] # 0 /\ Parent[e] \in Entities /\ Parent[e] < e /\ ~Awake(Parent[e])
    BY <1>2, <1>6 DEF NeedsParent
  <2>3. \A x \in Entities : at'[x] = IF x = Parent[e] THEN "enter" ELSE at[x]
    BY <1>3, <2>1, <2>2
  <2>4. \A x \in Entities : Awake(x)' <=> (Awake(x) \/ x = Parent[e])
    BY <2>3 DEF Awake
  <2>5. Slots' /\ Registered' /\ Rested'
    <3>1. Slots'
      BY <1>1, <1>2, <2>1, <2>3 DEF Slots
    <3>2. Registered' /\ Rested'
      BY <1>1, <1>2, <2>1 DEF Registered, Rested, Stepping
    <3>3. QED
      BY <3>1, <3>2
  <2>6. Frames'
    <3>1. \A x \in Entities : Awake(x)' => x <= current' /\ doomed' = {}
      BY <1>1, <1>2, <1>3, <2>2, <2>4 DEF Frames
    <3>2. \A x, y \in Entities : Awake(x)' /\ Awake(y)' /\ y < x =>
            at'[x] \in {"resolve", "send"} /\ NeedsParent(x)' /\ y <= Parent[x]
      <4> SUFFICES ASSUME NEW x \in Entities, NEW y \in Entities,
                          Awake(x)', Awake(y)', y < x
                   PROVE  at'[x] \in {"resolve", "send"} /\ NeedsParent(x)' /\ y <= Parent[x]
        OBVIOUS
      <4>1. x # Parent[e]
        BY <1>2, <1>3, <2>2, <2>4
      <4>2. CASE x = e
        BY <1>1, <1>2, <1>3, <1>5, <1>6, <2>2, <2>3, <2>4, <4>2
      <4>3. CASE x # e
        <5>1. at[x] \in {"resolve", "send"} /\ NeedsParent(x) /\ e <= Parent[x]
          BY <1>2, <2>4, <4>1, <4>3
        <5>2. y <= Parent[x]
          <6>1. CASE y = Parent[e]
            BY <1>3, <2>2, <5>1, <6>1, PlanAssumption
          <6>2. CASE y # Parent[e]
            BY <1>2, <2>4, <4>1, <6>2 DEF Frames
          <6>3. QED
            BY <6>1, <6>2
        <5>3. QED
          BY <1>5, <2>3, <4>1, <4>3, <5>1, <5>2
      <4>4. QED
        BY <4>2, <4>3
    <3>3. \A x \in Entities : at'[x] = "resolve" =>
            Parent[x] # 0 /\ (Awake(Parent[x])' \/ registry'[Parent[x]] # 0)
      <4> SUFFICES ASSUME NEW x \in Entities, at'[x] = "resolve"
                   PROVE  Parent[x] # 0 /\ (Awake(Parent[x])' \/ registry'[Parent[x]] # 0)
        OBVIOUS
      <4>1. at[x] = "resolve"
        BY <2>3
      <4>2. Parent[x] # 0 /\ (Awake(Parent[x]) \/ registry[Parent[x]] # 0)
        BY <1>2, <4>1 DEF Frames
      <4>3. Parent[x] \in Entities
        BY <4>2, PlanAssumption DEF Entities
      <4>4. QED
        BY <1>1, <2>4, <4>2, <4>3
    <3>4. \A x \in EmbedsParent : at'[x] \in {"record", "send", "wait"} => registry'[Parent[x]] # 0
      BY <1>1, <1>2, <2>3, PlanAssumption DEF Frames
    <3>5. QED
      BY <3>1, <3>2, <3>3, <3>4 DEF Frames
  <2>7. QED
    BY <1>1, <1>2, <2>1, <2>5, <2>6, SameObjects DEF Ordered
<1>7. CASE ~NeedsParent(e)
  <2>1. at' = [at EXCEPT ![e] = "wait"]
        /\ (log' = log \/ log' = [log EXCEPT ![run][slot[e]].under = registry[Parent[e]]])
    BY <1>7 DEF Send
  <2>2. \A x \in Entities : at'[x] = IF x = e THEN "wait" ELSE at[x]
    BY <1>3, <2>1
  <2>3. \A x \in Entities : Awake(x)' <=> Awake(x)
    BY <1>1, <2>2 DEF Awake
  <2>4. /\ \A r \in Runs : Len(log'[r]) = Len(log[r])
        /\ \A r \in Runs : \A s \in 1 .. Len(log[r]) :
             /\ log'[r][s].ent = log[r][s].ent
             /\ \/ log'[r][s].under = log[r][s].under
                \/ r = run /\ s = slot[e] /\ log'[r][s].under = registry[Parent[e]]
    <3>1. CASE log' = log
      BY <3>1
    <3>2. CASE log' = [log EXCEPT ![run][slot[e]].under = registry[Parent[e]]]
      <4>1. \A r \in Runs : log[r] \in Seq(Intent)
        BY <1>3
      <4>2. \A r \in Runs : \A s \in 1 .. Len(log[r]) : log[r][s] \in Intent
        BY <4>1
      <4>3. \A r \in Runs : r # run => log'[r] = log[r]
        BY <1>3, <3>2
      <4> DEFINE u == registry[Parent[e]]
      <4> HIDE DEF u
      <4>4. log'[run] = [log[run] EXCEPT ![slot[e]].under = u]
        BY <1>2, <1>3, <3>2 DEF u
      <4>5. Len(log'[run]) = Len(log[run]) /\ \A s \in 1 .. Len(log[run]) :
              log'[run][s] = IF s = slot[e] THEN [log[run][s] EXCEPT !.under = u] ELSE log[run][s]
        BY <1>2, <1>4, <4>4
      <4>6. \A j \in Intent : [j EXCEPT !.under = u].ent = j.ent
                              /\ [j EXCEPT !.under = u].under = u
        BY DEF Intent
      <4>7. \A s \in 1 .. Len(log[run]) :
              /\ log'[run][s].ent = log[run][s].ent
              /\ \/ log'[run][s].under = log[run][s].under
                 \/ s = slot[e] /\ log'[run][s].under = u
        <5> SUFFICES ASSUME NEW s \in 1 .. Len(log[run])
                     PROVE  /\ log'[run][s].ent = log[run][s].ent
                            /\ \/ log'[run][s].under = log[run][s].under
                               \/ s = slot[e] /\ log'[run][s].under = u
          OBVIOUS
        <5>1. CASE s = slot[e]
          <6>1. log[run][s] \in Intent /\ log'[run][s] = [log[run][s] EXCEPT !.under = u]
            BY <1>2, <4>2, <4>5, <5>1
          <6>2. QED
            BY <4>6, <5>1, <6>1
        <5>2. CASE s # slot[e]
          BY <4>5, <5>2
        <5>3. QED
          BY <5>1, <5>2
      <4>8. QED
        BY <4>3, <4>5, <4>7 DEF u
    <3>3. QED
      BY <2>1, <3>1, <3>2
  <2>5. Underneath'
    <3> SUFFICES ASSUME NEW r \in Runs, NEW s \in 1 .. Len(log'[r]),
                        log'[r][s].ent \in EmbedsParent
                 PROVE  log'[r][s].under < s
      BY DEF Underneath
    <3>1. s \in 1 .. Len(log[r]) /\ log[r][s].ent \in EmbedsParent
      BY <2>4
    <3>2. CASE log'[r][s].under = log[r][s].under
      BY <1>2, <3>1, <3>2 DEF Underneath
    <3>3. CASE r = run /\ s = slot[e] /\ log'[r][s].under = registry[Parent[e]]
      BY <1>4, <3>1, <3>3
    <3>4. QED
      BY <2>4, <3>1, <3>2, <3>3
  <2>6. Logged'
    <3>1. \A o \in tenant \cup overdue : o[1] \in Runs
      BY DEF Shape, TypeOK
    <3>2. QED
      BY <1>1, <1>2, <2>4, <3>1 DEF Logged
  <2>7. Slots'
    BY <1>1, <1>2, <2>2, <2>4 DEF Slots
  <2>8. Registered' /\ Rested'
    <3>1. Registered'
      BY <1>1, <1>2, <2>4 DEF Registered
    <3>2. Rested'
      BY <1>1, <1>2, <2>4 DEF Rested, Stepping
    <3>3. QED
      BY <3>1, <3>2
  <2>9. Frames'
    <3>1. \A x \in Entities : Awake(x)' => x <= current' /\ doomed' = {}
      BY <1>1, <1>2, <2>3 DEF Frames
    <3>2. \A x, y \in Entities : Awake(x)' /\ Awake(y)' /\ y < x =>
            at'[x] \in {"resolve", "send"} /\ NeedsParent(x)' /\ y <= Parent[x]
      <4> SUFFICES ASSUME NEW x \in Entities, NEW y \in Entities, Awake(x), Awake(y), y < x
                   PROVE  at'[x] \in {"resolve", "send"} /\ NeedsParent(x) /\ y <= Parent[x]
        BY <1>5, <2>3
      <4>1. x # e
        BY <1>2, <1>3
      <4>2. at'[x] = at[x]
        BY <2>2, <4>1
      <4>3. QED
        BY <1>2, <4>2 DEF Frames
    <3>3. \A x \in Entities : at'[x] = "resolve" =>
            Parent[x] # 0 /\ (Awake(Parent[x])' \/ registry'[Parent[x]] # 0)
      BY <1>1, <1>2, <2>2, <2>3, PlanAssumption DEF Frames, Entities
    <3>4. \A x \in EmbedsParent : at'[x] \in {"record", "send", "wait"} => registry'[Parent[x]] # 0
      BY <1>1, <1>2, <2>2, PlanAssumption DEF Frames
    <3>5. QED
      BY <3>1, <3>2, <3>3, <3>4 DEF Frames
  <2>10. QED
    BY <2>5, <2>6, <2>7, <2>8, <2>9 DEF Ordered
<1>8. QED
  BY <1>6, <1>7


\* A create taken: its number is registered, or about to be deleted, and no frame
\* that has its parent loses it.
LEMMA AcceptedOrdered ==
  ASSUME Shape, Ordered, NEW e \in Entities, NEW id \in BOOLEAN, NEW w \in Writes,
         Accepted(e, id, w)
  PROVE  Ordered'
<1> DEFINE seq == slot[e]
<1>1. Stepping /\ Innermost(e) /\ at[e] = "wait" /\ phase' = phase
      /\ UNCHANGED <<run, log, settled, current, overdue>>
      /\ tenant' = tenant \cup {<<run, seq>>}
      /\ at' = [at EXCEPT ![e] = "idle"] /\ slot' = [slot EXCEPT ![e] = 0]
  BY DEF Accepted, Waiting
<1>2. /\ Frames /\ Slots /\ Registered /\ Rested /\ Underneath /\ Logged
      /\ run \in Runs /\ log[run] \in Seq(Intent) /\ Len(log[run]) \in Nat
      /\ Awake(e) /\ doomed = {} /\ e <= current
      /\ \A x \in Entities : Awake(x) => e <= x
      /\ \A x \in Entities : x # e /\ Awake(x) =>
           at[x] \in {"resolve", "send"} /\ NeedsParent(x) /\ e <= Parent[x]
  BY <1>1, Frame
<1>3. at \in [Entities -> Points] /\ slot \in [Entities -> 0 .. MaxSeq] /\ Entities \subseteq Nat
      /\ registry \in [Entities -> 0 .. MaxSeq] /\ current \in Nat
      /\ \A x \in Entities : Parent[x] \in Nat
  BY <1>1, PlanAssumption DEF Shape, TypeOK, Entities
<1>4. seq \in 1 .. Len(log[run]) /\ log[run][seq].ent = e /\ seq \notin settled
  BY <1>1, <1>2 DEF Slots
<1> HIDE DEF seq
<1>5. /\ registry' = registry \/ registry' = [registry EXCEPT ![e] = seq]
      /\ e # current => registry' = [registry EXCEPT ![e] = seq]
      /\ doomed' = {} \/ (e = current /\ doomed' = {seq})
  <2> DEFINE probed == e = current /\ probing
  <2>1. /\ registry' = IF probed THEN registry ELSE [registry EXCEPT ![e] = seq]
        /\ doomed' = IF probed /\ id THEN {seq} ELSE {}
    BY DEF Accepted, seq
  <2>2. probed => e = current
    OBVIOUS
  <2> HIDE DEF probed
  <2>3. QED
    BY <2>1, <2>2
<1>6. /\ \A x \in Entities : at'[x] = IF x = e THEN "idle" ELSE at[x]
      /\ \A x \in Entities : slot'[x] = IF x = e THEN 0 ELSE slot[x]
      /\ \A x \in Entities : registry'[x] = registry[x] \/ (x = e /\ registry'[x] = seq)
      /\ e # current => registry'[e] = seq
  <2>1. /\ \A x \in Entities : at'[x] = IF x = e THEN "idle" ELSE at[x]
        /\ \A x \in Entities : slot'[x] = IF x = e THEN 0 ELSE slot[x]
    BY <1>1, <1>3
  <2>2. CASE registry' = registry
    BY <1>3, <1>5, <2>1, <2>2
  <2>3. CASE registry' = [registry EXCEPT ![e] = seq]
    BY <1>3, <2>1, <2>3
  <2>4. QED
    BY <1>5, <2>2, <2>3
<1>7. \A x \in Entities : Awake(x)' <=> (Awake(x) /\ x # e)
  BY <1>6 DEF Awake
<1>8. Underneath' /\ Logged'
  <2>1. \A o \in tenant' \cup overdue' : o \in tenant \cup overdue \/ o = <<run, slot[e]>>
    BY <1>1 DEF seq
  <2>2. QED
    BY <1>1, <1>2, <2>1, AwaitedObjects
<1>9. Frames'
  <2>1. \A x \in Entities : Awake(x)' => x <= current' /\ doomed' = {}
    <3> SUFFICES ASSUME NEW x \in Entities, Awake(x), x # e PROVE x <= current /\ doomed' = {}
      BY <1>1, <1>7
    <3>1. x <= current /\ e <= x
      BY <1>2 DEF Frames
    <3>2. e # current
      BY <1>3, <3>1
    <3>3. QED
      BY <1>5, <3>1, <3>2
  <2>2. \A x, y \in Entities : Awake(x)' /\ Awake(y)' /\ y < x =>
          at'[x] \in {"resolve", "send"} /\ NeedsParent(x)' /\ y <= Parent[x]
    <3> SUFFICES ASSUME NEW x \in Entities, NEW y \in Entities,
                        Awake(x), x # e, Awake(y), y # e, y < x
                 PROVE  at'[x] \in {"resolve", "send"} /\ NeedsParent(x)' /\ y <= Parent[x]
      BY <1>7
    <3>1. at[x] \in {"resolve", "send"} /\ NeedsParent(x) /\ y <= Parent[x]
      BY <1>2 DEF Frames
    <3>2. Parent[x] # e
      BY <1>2, <1>3, <3>1
    <3>3. Parent[x] \in Entities
      BY <3>1, PlanAssumption DEF NeedsParent, Entities
    <3>4. NeedsParent(x)'
      BY <1>6, <3>1, <3>2, <3>3 DEF NeedsParent
    <3>5. QED
      BY <1>6, <3>1, <3>4
  <2>3. \A x \in Entities : at'[x] = "resolve" =>
          Parent[x] # 0 /\ (Awake(Parent[x])' \/ registry'[Parent[x]] # 0)
    <3> SUFFICES ASSUME NEW x \in Entities, at'[x] = "resolve"
                 PROVE  Parent[x] # 0 /\ (Awake(Parent[x])' \/ registry'[Parent[x]] # 0)
      OBVIOUS
    <3>1. x # e /\ at[x] = "resolve" /\ Awake(x)
      BY <1>6 DEF Awake
    <3>2. Parent[x] # 0 /\ (Awake(Parent[x]) \/ registry[Parent[x]] # 0)
      BY <1>2, <3>1 DEF Frames
    <3>3. Parent[x] \in Entities
      BY <3>2, PlanAssumption DEF Entities
    <3>4. e # current
      BY <1>2, <1>3, <3>1 DEF Frames
    <3>5. seq # 0
      BY <1>4
    <3>6. CASE Parent[x] = e
      BY <1>6, <3>2, <3>4, <3>5, <3>6
    <3>7. CASE Parent[x] # e
      BY <1>6, <1>7, <3>2, <3>3, <3>7
    <3>8. QED
      BY <3>6, <3>7
  <2>4. \A x \in EmbedsParent : at'[x] \in {"record", "send", "wait"} => registry'[Parent[x]] # 0
    <3> SUFFICES ASSUME NEW x \in EmbedsParent, at'[x] \in {"record", "send", "wait"}
                 PROVE  registry'[Parent[x]] # 0
      OBVIOUS
    <3>1. x \in Entities /\ Parent[x] \in Entities
      BY PlanAssumption DEF Entities
    <3>2. registry[Parent[x]] # 0
      BY <1>2, <1>6, <3>1 DEF Frames
    <3>3. QED
      BY <1>4, <1>6, <3>1, <3>2
  <2>5. QED
    BY <2>1, <2>2, <2>3, <2>4 DEF Frames
<1>10. Slots'
  <2> SUFFICES ASSUME NEW x \in Entities, at'[x] \in {"send", "wait"}
               PROVE  /\ slot'[x] \in 1 .. Len(log[run]) /\ log[run][slot'[x]].ent = x
                      /\ slot'[x] \notin settled /\ slot'[x] # registry'[x]
                      /\ x \in EmbedsParent => registry'[Parent[x]] < slot'[x]
    BY <1>1 DEF Slots
  <2>1. x # e /\ at[x] \in {"send", "wait"} /\ slot'[x] = slot[x] /\ registry'[x] = registry[x]
    BY <1>6
  <2>2. NeedsParent(x)
    BY <1>2, <2>1 DEF Awake
  <2>3. x \notin EmbedsParent
    BY <1>2, <2>1, <2>2 DEF Frames, NeedsParent
  <2>4. QED
    BY <1>2, <2>1, <2>3 DEF Slots
<1>11. Registered' /\ Rested'
  <2>1. Registered'
    BY <1>1, <1>2, <1>4, <1>5, <1>6 DEF Registered
  <2>2. Rested'
    BY <1>1, <1>2 DEF Rested, Stepping
  <2>3. QED
    BY <2>1, <2>2
<1>12. QED
  BY <1>8, <1>9, <1>10, <1>11 DEF Ordered

\* A create refused: its number is settled, and nothing else bears it.
LEMMA RefusedOrdered ==
  ASSUME Shape, Ordered, NEW e \in Entities, NEW w \in Writes, Refused(e, w)
  PROVE  Ordered'
<1>1. Stepping /\ Innermost(e) /\ at[e] = "wait" /\ phase' = phase
      /\ UNCHANGED <<run, log, tenant, overdue, registry, current, doomed>>
      /\ settled' = settled \cup {slot[e]}
      /\ at' = [at EXCEPT ![e] = IF e = current THEN "idle" ELSE "enter"]
      /\ slot' = [slot EXCEPT ![e] = 0]
  BY DEF Refused, Waiting, worldVars
<1>2. /\ Frames /\ Slots /\ Registered /\ Rested /\ Underneath /\ Logged
      /\ run \in Runs /\ log[run] \in Seq(Intent) /\ Len(log[run]) \in Nat
      /\ Awake(e) /\ doomed = {} /\ e <= current
      /\ \A x \in Entities : Awake(x) => e <= x
  BY <1>1, Frame
<1>3. at \in [Entities -> Points] /\ slot \in [Entities -> 0 .. MaxSeq] /\ Entities \subseteq Nat
      /\ current \in Nat
  BY <1>1, PlanAssumption DEF Shape, TypeOK, Entities
<1>4. slot[e] \in 1 .. Len(log[run]) /\ log[run][slot[e]].ent = e /\ slot[e] # registry[e]
  BY <1>1, <1>2 DEF Slots
<1>5. /\ \A x \in Entities : x # e => at'[x] = at[x] /\ slot'[x] = slot[x]
      /\ at'[e] \in {"idle", "enter"} /\ (e # current => at'[e] = "enter")
  BY <1>1, <1>3
<1>6. \A x \in Entities : Awake(x)' => Awake(x)
  BY <1>2, <1>5 DEF Awake
<1>7. \A x \in Entities : NeedsParent(x)' = NeedsParent(x)
  BY <1>1 DEF NeedsParent
<1>8. Underneath' /\ Logged'
  BY <1>1, <1>2, SameObjects
<1>9. Frames'
  <2>1. \A x \in Entities : Awake(x)' => x <= current' /\ doomed' = {}
    BY <1>1, <1>2, <1>6 DEF Frames
  <2>2. \A x, y \in Entities : Awake(x)' /\ Awake(y)' /\ y < x =>
          at'[x] \in {"resolve", "send"} /\ NeedsParent(x)' /\ y <= Parent[x]
    <3> SUFFICES ASSUME NEW x \in Entities, NEW y \in Entities, Awake(x), Awake(y), y < x
                 PROVE  at'[x] \in {"resolve", "send"} /\ NeedsParent(x) /\ y <= Parent[x]
      BY <1>6, <1>7
    <3>1. x # e
      BY <1>2, <1>3
    <3>2. QED
      BY <1>2, <1>5, <3>1 DEF Frames
  <2>3. \A x \in Entities : at'[x] = "resolve" =>
          Parent[x] # 0 /\ (Awake(Parent[x])' \/ registry'[Parent[x]] # 0)
    <3> SUFFICES ASSUME NEW x \in Entities, at'[x] = "resolve"
                 PROVE  Parent[x] # 0 /\ (Awake(Parent[x])' \/ registry[Parent[x]] # 0)
      BY <1>1
    <3>1. x # e /\ at[x] = "resolve" /\ Awake(x)
      BY <1>5 DEF Awake
    <3>2. Parent[x] # 0 /\ (Awake(Parent[x]) \/ registry[Parent[x]] # 0)
      BY <1>2, <3>1 DEF Frames
    <3>3. Parent[x] \in Entities
      BY <3>2, PlanAssumption DEF Entities
    <3>4. e # current
      BY <1>2, <1>3, <3>1 DEF Frames
    <3>5. Awake(Parent[x]) => Awake(Parent[x])'
      BY <1>5, <3>3, <3>4 DEF Awake
    <3>6. QED
      BY <3>2, <3>5
  <2>4. \A x \in EmbedsParent : at'[x] \in {"record", "send", "wait"} => registry'[Parent[x]] # 0
    BY <1>1, <1>2, <1>5, PlanAssumption DEF Frames
  <2>5. QED
    BY <2>1, <2>2, <2>3, <2>4 DEF Frames
<1>10. Slots'
  <2> SUFFICES ASSUME NEW x \in Entities, at'[x] \in {"send", "wait"}
               PROVE  /\ slot'[x] \in 1 .. Len(log[run]) /\ log[run][slot'[x]].ent = x
                      /\ slot'[x] \notin settled' /\ slot'[x] # registry[x]
                      /\ x \in EmbedsParent => registry[Parent[x]] < slot'[x]
    BY <1>1 DEF Slots
  <2>1. x # e /\ at[x] \in {"send", "wait"} /\ slot'[x] = slot[x]
    BY <1>5
  <2>2. QED
    BY <1>1, <1>2, <1>4, <2>1 DEF Slots
<1>11. Registered' /\ Rested'
  <2>1. Registered'
    BY <1>1, <1>2, <1>4 DEF Registered
  <2>2. Rested'
    BY <1>1, <1>2, <1>4 DEF Rested, Stepping
  <2>3. QED
    BY <2>1, <2>2
<1>12. QED
  BY <1>8, <1>9, <1>10, <1>11 DEF Ordered


\* A create that ends the entity, or whose outcome is not learned.
LEMMA GivenUpOrdered ==
  ASSUME Shape, Ordered, NEW e \in Entities, Abandon(e) \/ Unclear(e) \/ Unseen(e)
  PROVE  Ordered'
<1>1. Stepping /\ Innermost(e) /\ UNCHANGED <<run, log, settled>>
  BY DEF Abandon, Unclear, Unseen, Waiting, memoryVars
<1>2. /\ Frames /\ Slots /\ Registered /\ Rested /\ Underneath /\ Logged
      /\ Len(log[run]) \in Nat
  BY <1>1, Frame
<1>3. Underneath' /\ Logged'
  <2>1. CASE Abandon(e)
    BY <1>1, <1>2, <2>1, SameObjects DEF Abandon, worldVars
  <2>2. CASE Unclear(e) \/ Unseen(e)
    <3>1. at[e] = "wait" /\ Unlearned(<<run, slot[e]>>, ParentReached(e))
      BY <2>2 DEF Unclear, Unseen, Waiting
    <3>2. QED
      BY <1>1, <1>2, <3>1, UnlearnedKeeps, AwaitedObjects
  <2>3. QED
    BY <2>1, <2>2
<1>4. CASE NextEntity
  <2>1. Frames' /\ Slots' /\ Registered' /\ Rested'
    BY <1>1, <1>2, <1>4, NextEntityOrdered
  <2>2. QED
    BY <1>3, <2>1 DEF Ordered
<1>5. CASE ~NextEntity
  <2>1. at' = AllIdle /\ UNCHANGED <<phase, registry, current, doomed>>
    BY <1>5 DEF Abandon, Unclear, Unseen
  <2>2. Frames' /\ Slots'
    BY <2>1, IdleFrames, PlanAssumption
  <2>3. Registered' /\ Rested'
    BY <1>1, <1>2, <2>1 DEF Registered, Rested, Stepping
  <2>4. QED
    BY <1>3, <2>2, <2>3 DEF Ordered
<1>6. QED
  BY <1>4, <1>5

\* The first frame of a step: the entity's own create, or its parent's.
LEMMA FirstFrameOrdered ==
  ASSUME Shape, Ordered, Stepping, Idle, NEW d \in Entities, d <= current,
         at' = [at EXCEPT ![d] = "enter"], phase' = phase,
         UNCHANGED <<run, log, settled, tenant, overdue, registry, slot, current, doomed>>
  PROVE  Ordered'
<1>1. Frames /\ Slots /\ Registered /\ Rested /\ Underneath /\ Logged
  BY DEF Ordered, Stepping
<1>2. at \in [Entities -> Points] /\ Entities \subseteq Nat
  BY PlanAssumption DEF Shape, TypeOK, Entities
<1>3. doomed' = {} /\ \A x \in Entities : at'[x] = IF x = d THEN "enter" ELSE "idle"
  BY <1>2 DEF Idle, AllIdle
<1>4. \A x \in Entities : Awake(x)' => x = d
  BY <1>3 DEF Awake
<1>5. EmbedsParent \subseteq Entities
  BY PlanAssumption
<1>6. Frames'
  <2>1. \A x \in Entities : Awake(x)' => x <= current' /\ doomed' = {}
    BY <1>3, <1>4
  <2>2. \A x, y \in Entities : ~(Awake(x)' /\ Awake(y)' /\ y < x)
    BY <1>2, <1>4
  <2>3. \A x \in Entities : at'[x] \in {"enter", "idle"}
    BY <1>3
  <2>4. QED
    BY <1>5, <2>1, <2>2, <2>3 DEF Frames
<1>7. Slots'
  BY <1>3 DEF Slots
<1>8. Registered' /\ Rested'
  BY <1>1 DEF Registered, Rested, Stepping
<1>9. QED
  BY <1>1, <1>6, <1>7, <1>8, SameObjects DEF Ordered

\* An object reported gone: its number is settled, and it is registered no more.
LEMMA GoneOrdered ==
  ASSUME Shape, Ordered, NEW w \in Writes, DeleteGone(w)
  PROVE  Ordered'
<1> DEFINE s == Newest(doomed)
<1>1. /\ Stepping /\ phase' = phase /\ doomed # {}
      /\ UNCHANGED <<run, log, overdue, at, slot, current>>
      /\ settled' = settled \cup {s} /\ doomed' = doomed \ {s}
      /\ registry' = IF registry[EntityOf(run, s)] = s
                     THEN [registry EXCEPT ![EntityOf(run, s)] = 0] ELSE registry
      /\ tenant' \subseteq tenant
  <2>1. \A o : Without(o) \subseteq tenant
    BY DEF Without
  <2>2. tenant' \subseteq tenant
    BY <2>1 DEF DeleteGone
  <2>3. Stepping /\ doomed # {} /\ doomed' = doomed \ {s} /\ settled' = settled \cup {s}
        /\ UNCHANGED <<phase, run, log, overdue, at, slot, current>>
    BY DEF DeleteGone, Deleting, NextDelete
  <2>4. registry' = IF registry[EntityOf(run, s)] = s
                    THEN [registry EXCEPT ![EntityOf(run, s)] = 0] ELSE registry
    BY DEF DeleteGone
  <2>5. QED
    BY <2>2, <2>3, <2>4
<1>2. Frames /\ Slots /\ Registered /\ Rested /\ Underneath /\ Logged
  BY <1>1 DEF Ordered, Stepping
<1>3. s \in doomed
  BY <1>1, NewestIsMax DEF Shape, TypeOK
<1> HIDE DEF s
<1>4. at' = AllIdle
  <2>1. at \in [Entities -> Points] /\ \A x \in Entities : at[x] = "idle"
    BY <1>1, <1>2 DEF Shape, TypeOK, Frames, Awake
  <2>2. QED
    BY <1>1, <2>1 DEF AllIdle
<1>5. Frames' /\ Slots'
  BY <1>4, IdleFrames, PlanAssumption
<1>6. s \in 1 .. Len(log[run])
  BY <1>2, <1>3 DEF Registered
<1>7. registry \in [Entities -> 0 .. MaxSeq]
  BY DEF Shape, TypeOK
<1>8. \A e \in Entities : registry'[e] # 0 => registry'[e] = registry[e] /\ registry[e] # s
  <2> SUFFICES ASSUME NEW e \in Entities, registry'[e] # 0
               PROVE  registry'[e] = registry[e] /\ registry[e] # s
    OBVIOUS
  <2> DEFINE d == EntityOf(run, s)
  <2>0. registry' = IF registry[d] = s THEN [registry EXCEPT ![d] = 0] ELSE registry
    BY <1>1
  <2> HIDE DEF d
  <2>1. registry'[e] = registry[e] /\ (registry[e] = s => e # d)
    BY <1>7, <2>0
  <2>2. registry[e] = s => d = e
    BY <1>2, <2>1 DEF Registered, EntityOf, d
  <2>3. QED
    BY <2>1, <2>2
<1>9. Registered'
  <2>1. \A e \in Entities : registry'[e] # 0 =>
          /\ registry'[e] \in 1 .. Len(log[run]) /\ log[run][registry'[e]].ent = e
          /\ registry'[e] \notin settled \cup {s}
    BY <1>2, <1>8 DEF Registered
  <2>2. doomed' \subseteq (1 .. Len(log[run])) \ (settled \cup {s})
    BY <1>1, <1>2 DEF Registered
  <2>3. QED
    BY <1>1, <2>1, <2>2 DEF Registered
<1>10. Rested'
  BY <1>1, <1>2, <1>6 DEF Rested, Stepping
<1>11. Underneath' /\ Logged'
  <2>1. tenant' \cup overdue' \subseteq tenant \cup overdue
    BY <1>1
  <2>2. QED
    BY <1>1, <1>2, <2>1, SameObjects
<1>12. QED
  BY <1>5, <1>9, <1>10, <1>11 DEF Ordered

\* The steps of a program.
LEMMA ProgramOrdered ==
  ASSUME Shape, Ordered, ProgramStep
  PROVE  Ordered'
<1>1. Stepping => /\ Frames /\ Slots /\ Registered /\ Rested /\ Underneath /\ Logged
                  /\ Len(log[run]) \in Nat /\ current \in Entities
  BY LenProperties DEF Ordered, Stepping, Shape, TypeOK
<1>2. CASE FinishEntity
  <2>1. Stepping /\ NextEntity /\ UNCHANGED <<run, log, settled, tenant, overdue>>
    BY <1>2 DEF FinishEntity, memoryVars, worldVars
  <2>2. QED
    BY <1>1, <2>1, NextEntityOrdered, SameObjects DEF Ordered
<1>3. ASSUME NEW probe \in BOOLEAN, BeginCreate(probe) PROVE Ordered'
  <2>1. /\ Stepping /\ Idle /\ at' = [at EXCEPT ![current] = "enter"] /\ phase' = phase
        /\ UNCHANGED <<run, log, settled, tenant, overdue, registry, slot, current, doomed>>
    BY <1>3 DEF BeginCreate, memoryVars, worldVars
  <2>2. current <= current
    BY <1>1, <2>1 DEF Entities
  <2>3. QED
    BY <1>1, <2>1, <2>2, FirstFrameOrdered
<1>4. CASE ResolveParent
  <2>1. /\ Stepping /\ Idle /\ at' = [at EXCEPT ![Parent[current]] = "enter"] /\ phase' = phase
        /\ UNCHANGED <<run, log, settled, tenant, overdue, registry, slot, current, doomed>>
        /\ NeedsParent(current)
    BY <1>4 DEF ResolveParent, memoryVars, worldVars
  <2>2. Parent[current] \in Entities /\ Parent[current] <= current
    BY <1>1, <2>1, PlanAssumption DEF NeedsParent, Entities
  <2>3. QED
    BY <2>1, <2>2, FirstFrameOrdered
<1>5. ASSUME NEW e \in Entities, CreateStep(e) PROVE Ordered'
  BY <1>5, EnterOrdered, RecordOrdered, SendOrdered, AcceptedOrdered, RefusedOrdered,
     GivenUpOrdered DEF CreateStep
<1>6. ASSUME NEW S, S \subseteq (1 .. Len(log[run])) \ settled, BeginDelete(S) PROVE Ordered'
  <2>1. /\ Stepping /\ doomed' = S /\ phase' = phase /\ at' = AllIdle
        /\ UNCHANGED <<run, log, settled, tenant, overdue, registry, slot, current>>
    BY <1>6 DEF BeginDelete, Idle, memoryVars, worldVars
  <2>2. Frames' /\ Slots'
    BY <2>1, IdleFrames, PlanAssumption
  <2>3. Registered' /\ Rested'
    BY <1>1, <1>6, <2>1 DEF Registered, Rested, Stepping
  <2>4. QED
    BY <1>1, <2>1, <2>2, <2>3, SameObjects DEF Ordered
<1>7. CASE DeleteMinimal
  <2>1. Stepping
    BY <1>7 DEF DeleteMinimal, BeginDelete
  <2>2. {registry[current]} \cap learned \subseteq (1 .. Len(log[run])) \ settled
    <3>1. 0 \notin learned
      BY DEF Shape, TypeOK, Seqs
    <3>2. registry[current] # 0 => registry[current] \in (1 .. Len(log[run])) \ settled
      BY <1>1, <2>1 DEF Registered
    <3>3. QED
      BY <3>1, <3>2
  <2>3. QED
    BY <1>6, <1>7, <2>2 DEF DeleteMinimal
<1>8. CASE CleanupDelete
  <2>1. {x \in Outstanding \cap learned : EntityOf(run, x) = current}
          \subseteq (1 .. Len(log[run])) \ settled
    BY DEF Outstanding
  <2>2. QED
    BY <1>6, <1>8, <2>1 DEF CleanupDelete
<1>9. ASSUME NEW w \in Writes, DeleteGone(w) PROVE Ordered'
  BY <1>9, GoneOrdered
<1>10. CASE DeleteRefused \/ DeleteUnseen
  <2>1. /\ Stepping /\ UNCHANGED <<run, log, settled, overdue>> /\ tenant' \subseteq tenant
    BY <1>10 DEF DeleteRefused, DeleteUnseen, Deleting, Without, memoryVars, worldVars
  <2>2. CASE NextEntity
    BY <1>1, <2>1, <2>2, NextEntityOrdered, SameObjects DEF Ordered
  <2>3. CASE ~NextEntity
    <3>1. UNCHANGED <<phase, registry, at, slot, current>> /\ doomed' \subseteq doomed
      BY <1>10, <2>3 DEF DeleteRefused, DeleteUnseen, NextDelete
    <3>2. QED
      BY <1>1, <2>1, <3>1, QuietOrdered, SameObjects DEF Ordered
  <2>4. QED
    BY <2>2, <2>3
<1>11. QED
  BY <1>2, <1>3, <1>4, <1>5, <1>7, <1>8, <1>9, <1>10 DEF ProgramStep


\* A step of the boundary cleanups that stays outside the program.
LEMMA OutsideOrdered ==
  ASSUME Shape, Ordered, phase # "steps", phase' # "steps", log' = log, tenant' \subseteq tenant,
         UNCHANGED <<run, overdue, registry, at, doomed>>,
         phase' \in {"prior", "startPrefix"} => phase \in {"prior", "startPrefix"},
         phase' \in {"prior", "startPrefix"} => settled' \subseteq settled \cup 1 .. Len(log[run])
  PROVE  Ordered'
<1>1. Underneath' /\ Logged'
  <2>1. tenant' \cup overdue' \subseteq tenant \cup overdue
    OBVIOUS
  <2>2. QED
    BY <2>1, SameObjects DEF Ordered
<1>2. Rested'
  BY DEF Ordered, Rested
<1>3. QED
  BY <1>1, <1>2 DEF Ordered

\* The end of a run, by itself or killed, and the start of the next.
LEMMA RestOrdered ==
  ASSUME Rest, phase' \in {"down", "prior"}, Underneath', Logged'
  PROVE  Ordered'
<1>1. at' = AllIdle /\ registry' = NoRegistry /\ doomed' = {} /\ settled' = {}
  BY DEF Rest
<1>2. Rested'
  BY <1>1 DEF Rested
<1>3. QED
  BY <1>2 DEF Ordered

\* The boundary cleanups, up to the program's first step.
LEMMA CleanupOrdered ==
  ASSUME Shape, Ordered, CleanupStep
  PROVE  Ordered'
<1>1. \A o : Without(o) \subseteq tenant
  BY DEF Without
<1>2. Rested
  BY DEF Ordered
<1>3. ASSUME NEW r \in Runs, SkipFile(r) \/ OpenFile(r) PROVE Ordered'
  <2>1. /\ phase = "prior" /\ phase' = phase
        /\ UNCHANGED <<run, log, settled, tenant, overdue, registry, at, doomed>>
    BY <1>3 DEF SkipFile, OpenFile, memoryVars, worldVars, progressVars
  <2>2. QED
    BY <2>1, OutsideOrdered
<1>4. CASE ReplayNameless \/ ReplayGone \/ ReplayFailed \/ CloseFile \/ OwnNameless \/ OwnFailed
  <2>1. /\ phase' = phase /\ tenant' \subseteq tenant
        /\ UNCHANGED <<run, log, settled, overdue, registry, at, doomed>>
    BY <1>1, <1>4 DEF ReplayNameless, ReplayGone, ReplayFailed, CloseFile, OwnNameless, OwnFailed,
       memoryVars, worldVars, progressVars
  <2>2. CASE phase # "steps"
    BY <2>1, <2>2, OutsideOrdered
  <2>3. CASE phase = "steps"
    <3>1. Stepping /\ Frames /\ Slots /\ Registered /\ UNCHANGED <<slot, current>>
      BY <1>4, <2>3 DEF Ordered, Stepping, ReplayNameless, ReplayGone, ReplayFailed, CloseFile,
         OwnNameless, OwnFailed, progressVars
    <3>2. Frames' /\ Slots' /\ Registered' /\ Rested'
      BY <1>2, <2>1, <3>1, QuietOrdered
    <3>3. Underneath' /\ Logged'
      <4>1. tenant' \cup overdue' \subseteq tenant \cup overdue
        BY <2>1
      <4>2. QED
        BY <2>1, <4>1, SameObjects DEF Ordered
    <3>4. QED
      BY <3>2, <3>3 DEF Ordered
  <2>4. QED
    BY <2>2, <2>3
<1>5. CASE LeavePrior \/ LeaveOwn \/ ListCollection
  <2>1. /\ UNCHANGED <<run, log, settled, tenant, overdue, registry, at, doomed>>
        /\ \/ phase = "prior" /\ phase' = "startPrefix"
           \/ phase = "own" /\ phase' = "endPrefix"
           \/ phase \in {"startPrefix", "endPrefix"} /\ phase' = phase
    BY <1>5 DEF LeavePrior, LeaveOwn, ListCollection, Listing, memoryVars, worldVars, progressVars
  <2>2. QED
    BY <2>1, OutsideOrdered
<1>6. ASSUME NEW w \in Writes, OwnGone(w) PROVE Ordered'
  <2>1. /\ phase = "own" /\ phase' = phase /\ tenant' \subseteq tenant
        /\ UNCHANGED <<run, log, overdue, registry, at, doomed>>
    BY <1>1, <1>6 DEF OwnGone, progressVars
  <2>2. QED
    BY <2>1, OutsideOrdered
<1>7. ASSUME NEW o \in found, NEW w \in Writes, PrefixGone(o, w) PROVE Ordered'
  <2>1. /\ phase \in {"startPrefix", "endPrefix"} /\ phase' = phase /\ tenant' \subseteq tenant
        /\ UNCHANGED <<run, log, overdue, registry, at, doomed>>
    BY <1>1, <1>7 DEF PrefixGone, Listing, progressVars
  <2>2. settled' \subseteq settled \cup 1 .. Len(log[run])
    <3> DEFINE closing == IF Homonyms(o) = {} THEN {} ELSE {Newest(Homonyms(o))}
    <3>1. Homonyms(o) \subseteq Outstanding /\ Outstanding \subseteq 1 .. Len(log[run])
      BY DEF Homonyms, Outstanding
    <3>2. Homonyms(o) \subseteq Seqs
      BY <2>1, <3>1, OutstandingType DEF Shape
    <3>3. closing \subseteq Homonyms(o)
      BY <3>2, NewestIsMax
    <3>4. settled' = settled \cup closing
      BY <1>7 DEF PrefixGone
    <3> HIDE DEF closing
    <3>5. QED
      BY <3>1, <3>3, <3>4
  <2>3. QED
    BY <2>1, <2>2, OutsideOrdered
<1>8. ASSUME NEW o \in found, PrefixFailed(o) PROVE Ordered'
  <2>1. /\ phase \in {"startPrefix", "endPrefix"} /\ phase' = phase /\ tenant' \subseteq tenant
        /\ UNCHANGED <<run, log, settled, overdue, registry, at, doomed>>
    BY <1>1, <1>8 DEF PrefixFailed, Listing, memoryVars, progressVars
  <2>2. QED
    BY <2>1, OutsideOrdered
<1>9. CASE BeginSteps
  <2>1. /\ phase = "startPrefix" /\ phase' = "steps"
        /\ UNCHANGED <<run, log, settled, tenant, overdue, registry, at, doomed>>
    BY <1>9 DEF BeginSteps, memoryVars, worldVars
  <2>2. at' = AllIdle /\ registry' = NoRegistry /\ doomed' = {}
    BY <1>2, <2>1 DEF Rested
  <2>3. Frames' /\ Slots'
    BY <2>2, IdleFrames, PlanAssumption
  <2>4. Registered'
    BY <2>2 DEF Registered, NoRegistry
  <2>5. Rested'
    BY <1>2, <2>1 DEF Rested
  <2>6. QED
    BY <2>1, <2>3, <2>4, <2>5, SameObjects DEF Ordered
<1>10. CASE Finish
  <2>1. Rest /\ phase' = "down" /\ UNCHANGED <<log, tenant, overdue>>
    BY <1>10 DEF Finish, Exit, worldVars
  <2>2. QED
    BY <2>1, SameObjects, RestOrdered DEF Ordered
<1>11. QED
  BY <1>3, <1>4, <1>5, <1>6, <1>7, <1>8, <1>9, <1>10 DEF CleanupStep

\* Starts, kills and creates carried out late.
LEMMA WorldOrdered ==
  ASSUME Shape, Ordered, Start \/ Crash \/ \E o \in overdue : CarryOut(o)
  PROVE  Ordered'
<1>1. Underneath /\ Logged /\ Rested
  BY DEF Ordered
<1>2. CASE Start
  <2>1. Rest /\ phase' = "prior" /\ UNCHANGED <<log, tenant, overdue>>
    BY <1>2 DEF Start, worldVars
  <2>2. QED
    BY <1>1, <2>1, SameObjects, RestOrdered
<1>3. CASE Crash
  <2>1. Rest /\ phase' = "down" /\ log' = log
    BY <1>3 DEF Crash
  <2>2. Underneath' /\ Logged'
    <3>1. CASE \E e \in Entities : at[e] = "wait"
      <4> DEFINE d == CHOOSE e \in Entities : at[e] = "wait"
      <4>1. d \in Entities /\ at[d] = "wait"
        BY <3>1
      <4>2. Unlearned(<<run, slot[d]>>, ParentReached(d))
        BY <1>3, <3>1 DEF Crash
      <4> HIDE DEF d
      <4>3. Slots
        BY <1>1, <4>1 DEF Ordered, Rested, AllIdle
      <4>4. QED
        BY <1>1, <2>1, <4>1, <4>2, <4>3, UnlearnedKeeps, AwaitedObjects
    <3>2. CASE ~\E e \in Entities : at[e] = "wait"
      BY <1>1, <1>3, <2>1, <3>2, SameObjects DEF Crash, worldVars
    <3>3. QED
      BY <3>1, <3>2
  <2>3. QED
    BY <2>1, <2>2, RestOrdered
<1>4. ASSUME NEW o \in overdue, CarryOut(o) PROVE Ordered'
  <2>1. /\ tenant' \cup overdue' \subseteq tenant \cup overdue
        /\ UNCHANGED <<phase, run, log, settled, registry, at, slot, current, doomed>>
    BY <1>4 DEF CarryOut, memoryVars, progressVars
  <2>2. Underneath' /\ Logged'
    BY <1>1, <2>1, SameObjects
  <2>3. CASE phase = "steps"
    BY <1>1, <2>1, <2>2, <2>3, QuietOrdered DEF Ordered, Stepping
  <2>4. CASE phase # "steps"
    BY <1>1, <2>1, <2>2, <2>4 DEF Ordered, Rested
  <2>5. QED
    BY <2>3, <2>4
<1>5. QED
  BY <1>2, <1>3, <1>4

-----------------------------------------------------------------------------
\* In the first state nothing is under way and nothing exists.
LEMMA OrderedInit == Init => Ordered
<1> SUFFICES ASSUME Init PROVE Ordered
  OBVIOUS
<1>1. phase = "down" /\ at = AllIdle /\ log = [r \in Runs |-> <<>>] /\ tenant = {} /\ overdue = {}
  BY DEF Init
<1>2. Underneath /\ Logged
  BY <1>1 DEF Underneath, Logged
<1>3. QED
  BY <1>1, <1>2 DEF Ordered, Rested

\* Every step keeps the order.
LEMMA OrderedStep == OrderedShape /\ [Next]_vars => OrderedShape'
<1> SUFFICES ASSUME Shape, Ordered, [Next]_vars PROVE Shape' /\ Ordered'
  BY DEF OrderedShape
<1>1. Shape'
  BY ShapeStep
<1>2. CASE UNCHANGED vars
  <2>1. UNCHANGED <<phase, run, log, settled, tenant, overdue, registry, at, slot, current, doomed>>
    BY <1>2 DEF vars, memoryVars, worldVars, progressVars
  <2>2. Underneath' /\ Logged'
    BY <2>1, SameObjects DEF Ordered
  <2>3. Rested /\ (phase = "steps" => Frames /\ Slots /\ Registered)
    BY DEF Ordered
  <2>4. CASE phase = "steps"
    <3>1. Stepping /\ phase' = phase /\ doomed' \subseteq doomed
          /\ UNCHANGED <<run, log, settled, registry, at, slot, current>>
      BY <2>1, <2>4 DEF Stepping
    <3>2. Frames' /\ Slots' /\ Registered' /\ Rested'
      BY <2>3, <2>4, <3>1, QuietOrdered
    <3>3. QED
      BY <1>1, <2>2, <3>2 DEF Ordered
  <2>5. CASE phase # "steps"
    <3>1. phase' # "steps" /\ Rested'
      BY <2>1, <2>3, <2>5 DEF Rested
    <3>2. QED
      BY <1>1, <2>2, <3>1 DEF Ordered
  <2>6. QED
    BY <1>1, <2>4, <2>5
<1>3. CASE Next
  BY <1>1, <1>3, ProgramOrdered, CleanupOrdered, WorldOrdered DEF Next, ProcessStep
<1>4. QED
  BY <1>2, <1>3

\* "Children were created after the parents whose paths embed them": for every
\* plan, every bound and all faults, an object that exists or may still appear has
\* a number above that of the parent its path names, so that the newest-first passes
\* (cleanup.go:61) delete it before its parent.
THEOREM ChildrenFollowParents == Spec => []ChildrenAreNewer
<1>1. Init => OrderedShape
  BY ShapeInit, OrderedInit DEF OrderedShape
<1>2. OrderedShape /\ [Next]_vars => OrderedShape'
  BY OrderedStep
<1>3. OrderedShape => ChildrenAreNewer
  <2> SUFFICES ASSUME Shape, Ordered, NEW o \in tenant \cup overdue,
                      EntityOf(o[1], o[2]) \in EmbedsParent
               PROVE  log[o[1]][o[2]].under < o[2]
    BY DEF OrderedShape, ChildrenAreNewer
  <2>1. o[1] \in Runs
    BY DEF Shape, TypeOK
  <2>2. o[2] \in 1 .. Len(log[o[1]])
    BY DEF Ordered, Logged
  <2>3. QED
    BY <2>1, <2>2 DEF Ordered, Underneath, EntityOf
<1>4. QED
  BY <1>1, <1>2, <1>3, PTL DEF Spec

\* The registry answers no reference with an object whose deletion was confirmed,
\* and no step deletes one a second time (steps_delete.go, entity.go).
THEOREM RegisteredAreLive == Spec => []RegistryIsLive
<1>1. Init => OrderedShape
  BY ShapeInit, OrderedInit DEF OrderedShape
<1>2. OrderedShape /\ [Next]_vars => OrderedShape'
  BY OrderedStep
<1>3. OrderedShape => RegistryIsLive
  <2> SUFFICES ASSUME Shape, Ordered, phase = "steps"
               PROVE  /\ \A e \in Entities : registry[e] \notin settled
                      /\ doomed \cap settled = {}
    BY DEF OrderedShape, RegistryIsLive
  <2>1. Registered /\ 0 \notin settled
    BY DEF Ordered, Shape, TypeOK, Seqs
  <2>2. QED
    BY <2>1 DEF Registered
<1>4. QED
  BY <1>1, <1>2, <1>3, PTL DEF Spec


-----------------------------------------------------------------------------
(***************************************************************************)
(* What an audit run accounts for: what it knows by id stays in a ledger   *)
(* that a later run reads, closing entries by name loses count of none,    *)
(* and under an API that answers nothing is left but what nothing could    *)
(* find.                                                                   *)
(***************************************************************************)
Up == phase # "down"

\* Whose object a sequence number of this run is, and under which parent's.
EntOf(s)   == log[run][s].ent
UnderOf(s) == log[run][s].under

\* An entity that names no parent has its objects under none.
Rooted ==
  \A r \in Runs : \A s \in 1 .. Len(log[r]) :
    Parent[log[r][s].ent] = 0 => log[r][s].under = 0

\* A run to come has written nothing, this one writes nothing before its steps,
\* and only the files of runs before it are replayed.
Fresh ==
  /\ \A r \in Runs : run < r => log[r] = <<>> /\ disk[r].known = {} /\ disk[r].closed = {}
  /\ phase \in {"prior", "startPrefix"} => log[run] = <<>>
  /\ \A r \in queue : r < run
  /\ file # 0 => phase = "prior" /\ file < run

\* Everything learned, and the object awaited, lies under the object that is now
\* registered for its parent: while an entity's program runs, only that entity's
\* own registration changes, and no entity below it has made anything yet.
Lineage ==
  /\ \A e \in Entities : Awake(e) /\ e # current => registry[e] = 0
  /\ \A s \in 1 .. Len(log[run]) : EntOf(s) <= current
  /\ \A s \in learned : Parent[EntOf(s)] # 0 =>
       UnderOf(s) # 0 /\ UnderOf(s) = registry[Parent[EntOf(s)]]
  /\ \A e \in Entities : at[e] \in {"send", "wait"} =>
       slot[e] \notin learned /\ <<run, slot[e]>> \notin tenant \cup overdue
  /\ \A e \in Entities : at[e] = "wait" /\ Parent[e] # 0 =>
       UnderOf(slot[e]) # 0 /\ UnderOf(slot[e]) = registry[Parent[e]]
  /\ \A s \in doomed : s \in learned /\ EntOf(s) = current

Lines ==
  /\ Rooted
  /\ Fresh
  /\ Up => learned \subseteq 1 .. Len(log[run])
  /\ phase = "steps" => Lineage

-----------------------------------------------------------------------------
\* What happens to the logs: they grow, and what an entry says of itself stays.
Grown ==
  \A r \in Runs :
    /\ Len(log[r]) <= Len(log'[r])
    /\ \A s \in 1 .. Len(log[r]) :
         log'[r][s].ent = log[r][s].ent /\ log'[r][s].suffixed = log[r][s].suffixed

\* The types the lemmas below keep needing.
LEMMA Typed ==
  ASSUME Shape
  PROVE  /\ log \in [Runs -> Seq(Intent)] /\ \A r \in Runs : Len(log[r]) \in Nat
         /\ registry \in [Entities -> 0 .. MaxSeq] /\ at \in [Entities -> Points]
         /\ slot \in [Entities -> 0 .. MaxSeq] /\ disk \in [Runs -> LedgerFile]
         /\ Entities \subseteq Nat /\ current \in Nat /\ run \in Nat
         /\ (Up => run \in Runs)
         /\ \A o \in tenant \cup overdue : o[1] \in Runs /\ o[2] \in Seqs /\ o = <<o[1], o[2]>>
         /\ \A e \in Entities : Parent[e] \in Nat /\ Parent[e] < e
                                /\ (Parent[e] # 0 => Parent[e] \in Entities)
<1>1. \A r \in Runs : log[r] \in Seq(Intent)
  BY DEF Shape, TypeOK
<1>2. \A r \in Runs : Len(log[r]) \in Nat
  BY <1>1, LenProperties
<1>3. \A e \in Entities : Parent[e] \in Nat /\ Parent[e] < e
                          /\ (Parent[e] # 0 => Parent[e] \in Entities)
  BY PlanAssumption DEF Entities
<1>4. Entities \subseteq Nat /\ current \in Nat /\ run \in Nat
  BY PlanAssumption DEF Shape, TypeOK, Entities
<1>5. QED
  BY <1>2, <1>3, <1>4 DEF Shape, TypeOK, Up

\* Nothing happens to the logs.
LEMMA SameLogs ==
  ASSUME Shape, log' = log
  PROVE  Grown
<1>1. \A r \in Runs : Len(log[r]) \in Nat
  BY Typed
<1>2. QED
  BY <1>1 DEF Grown

\* An intent recorded is one more entry at the end of this run's log.
LEMMA RecordLog ==
  ASSUME Shape, NEW e \in Entities, NEW w \in Writes, RecordIntent(e, w)
  PROVE  /\ Grown
         /\ Len(log'[run]) = Len(log[run]) + 1
         /\ log'[run][Len(log[run]) + 1].ent = e
         /\ log'[run][Len(log[run]) + 1].under = 0
         /\ \A s \in 1 .. Len(log[run]) : log'[run][s] = log[run][s]
         /\ \A r \in Runs : r # run => log'[r] = log[r]
<1> DEFINE line == [ent |-> e, suffixed |-> Suffixed(e), under |-> 0]
<1>1. log' = [log EXCEPT ![run] = Append(@, line)] /\ run \in Runs
  BY DEF RecordIntent, Stepping, Shape
<1>2. log \in [Runs -> Seq(Intent)] /\ \A r \in Runs : Len(log[r]) \in Nat
  BY Typed
<1>3. line.ent = e /\ line.under = 0
  OBVIOUS
<1> HIDE DEF line
<1>4. /\ Len(log'[run]) = Len(log[run]) + 1 /\ log'[run][Len(log[run]) + 1] = line
      /\ \A s \in 1 .. Len(log[run]) : log'[run][s] = log[run][s]
      /\ \A r \in Runs : r # run => log'[r] = log[r]
  BY <1>1, <1>2
<1>5. Grown
  <2> SUFFICES ASSUME NEW r \in Runs
               PROVE  /\ Len(log[r]) <= Len(log'[r])
                      /\ \A s \in 1 .. Len(log[r]) :
                           log'[r][s].ent = log[r][s].ent /\ log'[r][s].suffixed = log[r][s].suffixed
    BY DEF Grown
  <2>1. CASE r = run
    BY <1>2, <1>4, <2>1
  <2>2. CASE r # run
    BY <1>2, <1>4, <2>2
  <2>3. QED
    BY <2>1, <2>2
<1>6. QED
  BY <1>3, <1>4, <1>5

\* Setting the parent of one intent of a list of intents changes nothing else.
LEMMA UnderSet ==
  ASSUME NEW q \in Seq(Intent), NEW i \in 1 .. Len(q), NEW u
  PROVE  LET t == [q EXCEPT ![i].under = u]
         IN /\ t[i].under = u /\ t[i].ent = q[i].ent /\ t[i].suffixed = q[i].suffixed
            /\ \A s \in 1 .. Len(q) : s # i => t[s] = q[s]
<1>1. q \in [1 .. Len(q) -> Intent]
  BY LenProperties
<1>2. q[i] \in Intent
  BY <1>1
<1>3. [q EXCEPT ![i].under = u][i] = [q[i] EXCEPT !.under = u]
  BY <1>1
<1>4. /\ [q[i] EXCEPT !.under = u].under = u /\ [q[i] EXCEPT !.under = u].ent = q[i].ent
      /\ [q[i] EXCEPT !.under = u].suffixed = q[i].suffixed
  BY <1>2 DEF Intent
<1>5. \A s \in 1 .. Len(q) : s # i => [q EXCEPT ![i].under = u][s] = q[s]
  BY <1>1
<1>6. QED
  BY <1>3, <1>4, <1>5

\* A request sent notes the parent its path names, and nothing else.
LEMMA SendLog ==
  ASSUME Shape, Ordered, NEW e \in Entities, Send(e), ~NeedsParent(e)
  PROVE  /\ Grown
         /\ \A r \in Runs : Len(log'[r]) = Len(log[r])
         /\ \A r \in Runs : r # run => log'[r] = log[r]
         /\ \A s \in 1 .. Len(log[run]) :
              /\ log'[run][s].ent = log[run][s].ent
              /\ s # slot[e] \/ Parent[e] = 0 => log'[run][s] = log[run][s]
         /\ Parent[e] # 0 => log'[run][slot[e]].under = registry[Parent[e]]
<1>1. /\ Stepping /\ at[e] = "send"
      /\ log' = IF Parent[e] = 0 THEN log
                ELSE [log EXCEPT ![run][slot[e]].under = registry[Parent[e]]]
  BY DEF Send, NeedsParent
<1>2. log \in [Runs -> Seq(Intent)] /\ (\A r \in Runs : Len(log[r]) \in Nat) /\ run \in Runs
  BY <1>1, Typed DEF Up, Stepping
<1>3. slot[e] \in 1 .. Len(log[run])
  BY <1>1 DEF Ordered, Slots, Stepping
<1>4. CASE Parent[e] = 0
  BY <1>1, <1>2, <1>4, SameLogs
<1>5. CASE Parent[e] # 0
  <2> DEFINE u == registry[Parent[e]]
             q == log[run]
             t == [q EXCEPT ![slot[e]].under = u]
  <2>1. log' = [log EXCEPT ![run] = t]
    BY <1>1, <1>5
  <2>2. u \in 0 .. MaxSeq
    BY <1>5, Typed
  <2>3. q \in Seq(Intent) /\ slot[e] \in 1 .. Len(q)
    BY <1>2, <1>3
  <2> HIDE DEF u, q
  <2>4. Len(t) = Len(q)
    BY <2>2, <2>3, UnderType
  <2>5. /\ t[slot[e]].under = u /\ t[slot[e]].ent = q[slot[e]].ent
        /\ t[slot[e]].suffixed = q[slot[e]].suffixed
        /\ \A s \in 1 .. Len(q) : s # slot[e] => t[s] = q[s]
    BY <2>3, UnderSet
  <2> HIDE DEF t
  <2>6. log'[run] = t /\ \A r \in Runs : r # run => log'[r] = log[r]
    BY <1>2, <2>1
  <2>7. \A s \in 1 .. Len(log[run]) :
          log'[run][s].ent = log[run][s].ent /\ log'[run][s].suffixed = log[run][s].suffixed
    BY <2>5, <2>6 DEF q
  <2>8. \A r \in Runs : Len(log'[r]) = Len(log[r])
    BY <2>4, <2>6 DEF q
  <2>9. Grown
    BY <1>2, <2>6, <2>7, <2>8 DEF Grown
  <2>10. QED
    BY <1>5, <2>5, <2>6, <2>7, <2>8, <2>9 DEF u, q
<1>6. QED
  BY <1>4, <1>5

-----------------------------------------------------------------------------
\* A step of a program that learns, announces and registers nothing.
LEMMA QuietLineage ==
  ASSUME Lineage, UNCHANGED <<run, log, learned, registry, current>>, doomed' \subseteq doomed,
         \A x \in Entities : Awake(x)' /\ x # current => registry[x] = 0,
         \A x \in Entities : at'[x] \in {"send", "wait"} =>
           at'[x] = at[x] /\ slot'[x] = slot[x] /\ <<run, slot[x]>> \notin tenant' \cup overdue'
  PROVE  Lineage'
<1>1. \A s : EntOf(s)' = EntOf(s) /\ UnderOf(s)' = UnderOf(s)
  BY DEF EntOf, UnderOf
<1>2. \A e \in Entities : at'[e] \in {"send", "wait"} =>
        slot'[e] \notin learned' /\ <<run', slot'[e]>> \notin tenant' \cup overdue'
  BY DEF Lineage
<1>3. \A e \in Entities : at'[e] = "wait" /\ Parent[e] # 0 =>
        UnderOf(slot[e])' # 0 /\ UnderOf(slot[e])' = registry'[Parent[e]]
  BY DEF Lineage, UnderOf
<1>4. QED
  BY <1>1, <1>2, <1>3 DEF Lineage

\* Going on to the next entity, an intent more or less.
LEMMA NextEntityLineage ==
  ASSUME Shape, Lineage, Stepping, NextEntity, UNCHANGED <<run, learned>>,
         \A s \in learned : log'[run][s] = log[run][s],
         \A s \in 1 .. Len(log'[run]) : log'[run][s].ent <= current,
         \A s \in 1 .. Len(log'[run]) : log'[run][s].ent \in Nat
  PROVE  phase' = "steps" => Lineage'
<1>1. SUFFICES ASSUME phase' = "steps" PROVE Lineage'
  OBVIOUS
<1>2. at' = AllIdle /\ doomed' = {} /\ registry' = registry /\ current' = current + 1
  BY <1>1 DEF NextEntity
<1>3. current \in Nat
  BY Typed
<1>4. \A s \in 1 .. Len(log'[run]) : log'[run][s].ent <= current'
  BY <1>2, <1>3
<1>5. QED
  BY <1>2, <1>4 DEF Lineage, Awake, AllIdle, EntOf, UnderOf

\* A create announced: its number is nobody's.
LEMMA RecordLineage ==
  ASSUME Shape, Ordered, Lineage, learned \subseteq 1 .. Len(log[run]),
         NEW e \in Entities, NEW w \in Writes, RecordIntent(e, w)
  PROVE  phase' = "steps" => Lineage'
<1> DEFINE seq == Len(log[run]) + 1
<1>1. Stepping /\ Innermost(e) /\ at[e] = "record" /\ UNCHANGED <<run, learned, tenant, overdue>>
  BY DEF RecordIntent, memoryVars, worldVars
<1>2. /\ Len(log'[run]) = seq /\ log'[run][seq].ent = e
      /\ \A s \in 1 .. Len(log[run]) : log'[run][s] = log[run][s]
  BY RecordLog
<1>3. /\ Awake(e) /\ e <= current /\ Len(log[run]) \in Nat /\ doomed = {}
      /\ \A x \in Entities : x # e /\ Awake(x) => at[x] \in {"resolve", "send"}
  BY <1>1, Frame
<1>4. \A s \in 1 .. Len(log'[run]) : log'[run][s].ent <= current
  BY <1>2, <1>3 DEF Lineage, EntOf
<1>5. at \in [Entities -> Points] /\ slot \in [Entities -> 0 .. MaxSeq]
  BY Typed
<1>6. CASE NextEntity
  <2>1. \A s \in 1 .. Len(log[run]) : log[run][s].ent \in Nat
    <3>1. log[run] \in Seq(Intent)
      BY <1>1, Typed DEF Up, Stepping
    <3>2. \A s \in 1 .. Len(log[run]) : log[run][s] \in Intent
      BY <3>1
    <3>3. QED
      BY <3>2, PlanAssumption DEF Intent, Entities
  <2>2. \A s \in 1 .. Len(log'[run]) : log'[run][s].ent \in Nat
    <3>1. e \in Nat
      BY PlanAssumption DEF Entities
    <3>2. QED
      BY <1>2, <1>3, <2>1, <3>1
  <2>3. QED
    BY <1>1, <1>2, <1>4, <1>6, <2>2, NextEntityLineage
<1>7. CASE ~NextEntity
  <2>1. /\ at' = [at EXCEPT ![e] = "send"] /\ slot' = [slot EXCEPT ![e] = seq]
        /\ UNCHANGED <<registry, current, doomed>>
    BY <1>7 DEF RecordIntent
  <2>2. \A x \in Entities : /\ at'[x] = IF x = e THEN "send" ELSE at[x]
                            /\ slot'[x] = IF x = e THEN seq ELSE slot[x]
    BY <1>5, <2>1
  <2>3. \A x \in Entities : Awake(x)' <=> Awake(x)
    BY <1>3, <2>2 DEF Awake
  <2>4. seq \notin learned /\ <<run, seq>> \notin tenant \cup overdue
    BY <1>3 DEF Ordered, Logged
  <2>5. \A s \in learned : EntOf(s)' = EntOf(s) /\ UnderOf(s)' = UnderOf(s)
    BY <1>1, <1>2 DEF EntOf, UnderOf
  <2>6. \A x \in Entities : at'[x] \in {"send", "wait"} =>
          slot'[x] \notin learned' /\ <<run', slot'[x]>> \notin tenant' \cup overdue'
    BY <1>1, <2>2, <2>4 DEF Lineage
  <2>7. \A x \in Entities : at'[x] # "wait"
    BY <1>3, <2>2 DEF Awake
  <2> HIDE DEF seq
  <2>8. QED
    BY <1>1, <1>3, <1>4, <2>1, <2>3, <2>5, <2>6, <2>7 DEF Lineage, EntOf
<1>8. QED
  BY <1>6, <1>7

\* A request sent: its object will lie under what is registered for its parent.
LEMMA SendLineage ==
  ASSUME Shape, Ordered, Lineage, learned \subseteq 1 .. Len(log[run]),
         NEW e \in Entities, Send(e)
  PROVE  Lineage'
<1>1. Stepping /\ Innermost(e) /\ at[e] = "send"
      /\ UNCHANGED <<run, learned, tenant, overdue, registry, slot, current, doomed>>
  BY DEF Send, memoryVars, worldVars, NeedsParent
<1>2. /\ Awake(e)
      /\ \A x \in Entities : x # e /\ Awake(x) => at[x] \in {"resolve", "send"}
      /\ Parent[e] # 0 => Parent[e] \in Entities
      /\ at \in [Entities -> Points] /\ registry \in [Entities -> 0 .. MaxSeq]
  BY <1>1, Frame, Typed
<1>3. CASE NeedsParent(e)
  <2>1. at' = [at EXCEPT ![Parent[e]] = "enter"] /\ log' = log
    BY <1>3 DEF Send
  <2>2. Parent[e] \in Entities /\ registry[Parent[e]] = 0
    BY <1>2, <1>3 DEF NeedsParent
  <2>3. \A x \in Entities : at'[x] = IF x = Parent[e] THEN "enter" ELSE at[x]
    BY <1>2, <2>1
  <2>4. \A x \in Entities : Awake(x)' /\ x # current => registry[x] = 0
    BY <2>2, <2>3 DEF Lineage, Awake
  <2>5. \A x \in Entities : at'[x] \in {"send", "wait"} =>
          at'[x] = at[x] /\ slot'[x] = slot[x] /\ <<run, slot[x]>> \notin tenant' \cup overdue'
    BY <1>1, <2>3 DEF Lineage
  <2>6. QED
    BY <1>1, <2>1, <2>4, <2>5, QuietLineage
<1>4. CASE ~NeedsParent(e)
  <2>1. /\ \A r \in Runs : Len(log'[r]) = Len(log[r])
        /\ \A s \in 1 .. Len(log[run]) :
             /\ log'[run][s].ent = log[run][s].ent
             /\ s # slot[e] \/ Parent[e] = 0 => log'[run][s] = log[run][s]
        /\ Parent[e] # 0 => log'[run][slot[e]].under = registry[Parent[e]]
    BY <1>4, SendLog
  <2>2. at' = [at EXCEPT ![e] = "wait"] /\ (Parent[e] # 0 => registry[Parent[e]] # 0)
    BY <1>4 DEF Send, NeedsParent
  <2>3. \A x \in Entities : at'[x] = IF x = e THEN "wait" ELSE at[x]
    BY <1>2, <2>2
  <2>4. run \in Runs /\ slot[e] \notin learned
    BY <1>1, Typed DEF Up, Stepping, Lineage
  <2>5. \A s \in learned : EntOf(s)' = EntOf(s) /\ UnderOf(s)' = UnderOf(s)
    BY <1>1, <2>1, <2>4 DEF EntOf, UnderOf
  <2>6. \A s \in 1 .. Len(log'[run]) : EntOf(s)' <= current
    BY <1>1, <2>1, <2>4 DEF EntOf, Lineage
  <2>7. \A x \in Entities : Awake(x)' <=> Awake(x)
    BY <1>2, <2>3 DEF Awake
  <2>8. \A x \in Entities : at'[x] \in {"send", "wait"} =>
          slot[x] \notin learned /\ <<run, slot[x]>> \notin tenant \cup overdue
    BY <1>1, <2>3 DEF Lineage
  <2>9. \A x \in Entities : at'[x] = "wait" /\ Parent[x] # 0 =>
          UnderOf(slot[x])' # 0 /\ UnderOf(slot[x])' = registry[Parent[x]]
    <3> SUFFICES ASSUME NEW x \in Entities, at'[x] = "wait", Parent[x] # 0
                 PROVE  UnderOf(slot[x])' # 0 /\ UnderOf(slot[x])' = registry[Parent[x]]
      OBVIOUS
    <3>1. x = e
      BY <1>2, <2>3 DEF Awake
    <3>2. QED
      BY <1>1, <2>1, <2>2, <3>1 DEF UnderOf
  <2>10. QED
    BY <1>1, <2>5, <2>6, <2>7, <2>8, <2>9 DEF Lineage
<1>5. QED
  BY <1>3, <1>4

\* A create answered: what is registered anew had no child yet.
LEMMA AcceptedLineage ==
  ASSUME Shape, Ordered, Lineage, learned \subseteq 1 .. Len(log[run]),
         NEW e \in Entities, NEW id \in BOOLEAN, NEW w \in Writes, Accepted(e, id, w)
  PROVE  Lineage'
<1> DEFINE seq == slot[e]
           probed == e = current /\ probing
<1>1. /\ Stepping /\ Innermost(e) /\ at[e] = "wait"
      /\ at' = [at EXCEPT ![e] = "idle"] /\ slot' = [slot EXCEPT ![e] = 0]
      /\ registry' = IF probed THEN registry ELSE [registry EXCEPT ![e] = seq]
      /\ learned' = IF id THEN learned \cup {seq} ELSE learned
      /\ doomed' = IF probed /\ id THEN {seq} ELSE {}
      /\ tenant' = tenant \cup {<<run, seq>>}
      /\ UNCHANGED <<run, log, overdue, current>>
  BY DEF Accepted, Waiting
<1>2. /\ Awake(e) /\ Slots
      /\ \A x \in Entities : x # e /\ Awake(x) => at[x] \in {"resolve", "send"}
      /\ Parent[e] # 0 => Parent[e] \in Entities /\ Parent[e] < e
      /\ at \in [Entities -> Points] /\ registry \in [Entities -> 0 .. MaxSeq]
      /\ slot \in [Entities -> 0 .. MaxSeq] /\ Entities \subseteq Nat /\ current \in Nat
  BY <1>1, Frame, Typed
<1>3. seq \in 1 .. Len(log[run]) /\ EntOf(seq) = e
  BY <1>1, <1>2 DEF Slots, EntOf
<1>4. \A x \in Entities : /\ at'[x] = IF x = e THEN "idle" ELSE at[x]
                          /\ slot'[x] = IF x = e THEN 0 ELSE slot[x]
  BY <1>1, <1>2
<1>5. \A x \in Entities : Awake(x)' => x # e /\ Awake(x)
  BY <1>4 DEF Awake
<1>6. \A x \in Entities : x # e => registry'[x] = registry[x]
  BY <1>1, <1>2
<1>7. \A s : EntOf(s)' = EntOf(s) /\ UnderOf(s)' = UnderOf(s)
  BY <1>1 DEF EntOf, UnderOf
<1> HIDE DEF probed
<1>8. ASSUME NEW s \in learned', Parent[EntOf(s)] # 0
      PROVE  UnderOf(s) # 0 /\ UnderOf(s) = registry'[Parent[EntOf(s)]]
  <2> DEFINE p == Parent[EntOf(s)]
  <2>1. CASE s = seq
    <3>1. UnderOf(s) # 0 /\ UnderOf(s) = registry[Parent[e]] /\ Parent[e] # 0
      BY <1>1, <1>3, <1>8, <2>1 DEF Lineage
    <3>2. Parent[e] \in Entities /\ Parent[e] # e
      BY <1>2, <3>1
    <3>3. QED
      BY <1>3, <1>6, <2>1, <3>1, <3>2
  <2>2. CASE s # seq
    <3>1. s \in learned /\ s \in 1 .. Len(log[run])
      BY <1>1, <2>2
    <3>2. UnderOf(s) # 0 /\ UnderOf(s) = registry[p] /\ EntOf(s) <= current
      BY <1>8, <3>1 DEF Lineage
    <3>3. EntOf(s) \in Entities
      <4>1. log[run] \in Seq(Intent)
        BY <1>1, Typed DEF Up, Stepping
      <4>2. log[run][s] \in Intent
        BY <3>1, <4>1
      <4>3. QED
        BY <4>2 DEF EntOf, Intent
    <3>4. p \in Entities /\ p < EntOf(s)
      BY <1>8, <3>3, Typed
    <3>5. p # e
      <4>1. CASE e = current
        BY <1>2, <3>2, <3>3, <3>4, <4>1
      <4>2. CASE e # current
        BY <1>2, <3>2, <4>2 DEF Lineage
      <4>3. QED
        BY <4>1, <4>2
    <3>6. QED
      BY <1>6, <3>2, <3>4, <3>5
  <2>3. QED
    BY <2>1, <2>2
<1>9. \A x \in Entities : at'[x] \in {"send", "wait"} =>
        slot'[x] \notin learned' /\ <<run, slot'[x]>> \notin tenant' \cup overdue'
  <2> SUFFICES ASSUME NEW x \in Entities, at'[x] \in {"send", "wait"}
               PROVE  slot'[x] \notin learned' /\ <<run, slot'[x]>> \notin tenant' \cup overdue'
    OBVIOUS
  <2>1. x # e /\ at[x] \in {"send", "wait"} /\ slot'[x] = slot[x]
    BY <1>4
  <2>2. slot[x] # seq
    BY <1>2, <1>3, <2>1 DEF Slots, EntOf
  <2>3. slot[x] \notin learned /\ <<run, slot[x]>> \notin tenant \cup overdue
    BY <2>1 DEF Lineage
  <2>4. QED
    BY <1>1, <2>1, <2>2, <2>3
<1>10. \A x \in Entities : at'[x] # "wait"
  BY <1>2, <1>4 DEF Awake
<1>11. \A x \in Entities : Awake(x)' /\ x # current => registry'[x] = 0
  BY <1>5, <1>6 DEF Lineage
<1>12. \A s \in doomed' : s \in learned' /\ EntOf(s) = current
  BY <1>1, <1>3 DEF probed
<1>13. \A s \in 1 .. Len(log[run]) : EntOf(s) <= current
  BY DEF Lineage
<1> HIDE DEF seq
<1>14. QED
  BY <1>1, <1>7, <1>8, <1>9, <1>10, <1>11, <1>12, <1>13 DEF Lineage

\* Choosing what to delete, all of it the current entity's.
LEMMA BeginDeleteLineage ==
  ASSUME Shape, Ordered, Lineage, DeleteMinimal \/ CleanupDelete
  PROVE  Lineage'
<1>1. PICK S : BeginDelete(S) /\ \A s \in S : s \in learned /\ EntOf(s) = current
  <2>1. CASE DeleteMinimal
    <3>1. Stepping /\ registry[current] \in learned =>
            registry[current] # 0 /\ EntOf(registry[current]) = current
      BY DEF Shape, TypeOK, Seqs, Ordered, Registered, Stepping, EntOf
    <3>2. QED
      BY <2>1, <3>1 DEF DeleteMinimal, BeginDelete
  <2>2. CASE CleanupDelete
    BY <2>2 DEF CleanupDelete, EntityOf, EntOf
  <2>3. QED
    BY <2>1, <2>2
<1>2. /\ at' = AllIdle /\ doomed' = S
      /\ UNCHANGED <<run, log, learned, registry, current>>
  BY <1>1 DEF BeginDelete, Idle, memoryVars
<1>3. QED
  BY <1>1, <1>2 DEF Lineage, Awake, AllIdle, EntOf, UnderOf

\* A delete confirmed: what is no longer registered has no child that was learned.
LEMMA GoneLineage ==
  ASSUME Shape, Ordered, Lineage, learned \subseteq 1 .. Len(log[run]),
         NEW w \in Writes, DeleteGone(w)
  PROVE  Lineage'
<1> DEFINE s == Newest(doomed)
           e == EntityOf(run, s)
<1>1. /\ Stepping /\ doomed # {} /\ doomed' = doomed \ {s}
      /\ registry' = IF registry[e] = s THEN [registry EXCEPT ![e] = 0] ELSE registry
      /\ UNCHANGED <<run, log, learned, at, slot, current>>
  BY DEF DeleteGone, Deleting, NextDelete
<1>2. s \in doomed
  BY <1>1, NewestIsMax DEF Shape, TypeOK
<1>3. e = current
  BY <1>2 DEF Lineage, EntityOf, EntOf
<1> HIDE DEF s, e
<1>4. \A x \in Entities : ~Awake(x)
  BY <1>1 DEF Ordered, Frames, Stepping
<1>5. /\ registry \in [Entities -> 0 .. MaxSeq] /\ Entities \subseteq Nat /\ current \in Nat
      /\ log[run] \in Seq(Intent)
  BY <1>1, Typed DEF Up, Stepping
<1>6. \A x \in Entities : x # current => registry'[x] = registry[x]
  BY <1>1, <1>3, <1>5
<1>7. ASSUME NEW t \in learned, Parent[EntOf(t)] # 0
      PROVE  UnderOf(t) # 0 /\ UnderOf(t) = registry'[Parent[EntOf(t)]]
  <2>1. log[run][t] \in Intent
    BY <1>5
  <2>2. EntOf(t) \in Entities /\ EntOf(t) <= current
    BY <2>1 DEF Lineage, EntOf, Intent
  <2>3. Parent[EntOf(t)] \in Entities /\ Parent[EntOf(t)] < EntOf(t)
    BY <1>7, <2>2, Typed
  <2>4. Parent[EntOf(t)] # current
    BY <1>5, <2>2, <2>3
  <2>5. QED
    BY <1>6, <1>7, <2>3, <2>4 DEF Lineage
<1>8. \A x : EntOf(x)' = EntOf(x) /\ UnderOf(x)' = UnderOf(x)
  BY <1>1 DEF EntOf, UnderOf
<1>9. \A x \in Entities : ~Awake(x)' /\ at'[x] \notin {"send", "wait"}
  BY <1>1, <1>4 DEF Awake
<1>10. (\A x \in doomed' : x \in learned' /\ EntOf(x) = current)
       /\ \A x \in 1 .. Len(log[run]) : EntOf(x) <= current
  BY <1>1 DEF Lineage
<1>11. QED
  BY <1>1, <1>7, <1>8, <1>9, <1>10 DEF Lineage

\* Only announcing a create and sending it touch the logs.
LEMMA ProgramLog ==
  ASSUME ProgramStep, \A e \in Entities : ~Send(e) /\ \A w \in Writes : ~RecordIntent(e, w)
  PROVE  log' = log
<1>1. ASSUME NEW e \in Entities, CreateStep(e) PROVE log' = log
  BY <1>1 DEF CreateStep, Enter, Resolved, Abandon, Accepted, Refused, Unclear, Unseen
<1>2. QED
  BY <1>1 DEF ProgramStep, FinishEntity, BeginCreate, ResolveParent, DeleteMinimal, CleanupDelete,
     BeginDelete, DeleteGone, DeleteRefused, DeleteUnseen

\* A program moves no run, no queue and no replay.
LEMMA ProgramTurn ==
  ASSUME ProgramStep
  PROVE  Stepping /\ phase' \in {"steps", "own"} /\ UNCHANGED <<run, queue, file, clean, found>>
<1>1. NextEntity /\ Stepping => phase' \in {"steps", "own"}
  BY DEF NextEntity, Stepping
<1>2. ASSUME NEW e \in Entities, CreateStep(e)
      PROVE  Stepping /\ phase' \in {"steps", "own"} /\ UNCHANGED <<run, queue, file, clean, found>>
  BY <1>1, <1>2 DEF CreateStep, Enter, Resolved, RecordIntent, Send, Abandon, Accepted, Refused,
     Unclear, Unseen, Waiting, Stepping, passVars
<1>3. QED
  BY <1>1, <1>2 DEF ProgramStep, FinishEntity, BeginCreate, ResolveParent, DeleteMinimal,
     CleanupDelete, BeginDelete, DeleteGone, DeleteRefused, DeleteUnseen, Deleting, Stepping, passVars

\* The boundary cleanups write no log and read only what runs before left.
LEMMA CleanupTurn ==
  ASSUME Fresh, CleanupStep
  PROVE  /\ phase \in {"prior", "startPrefix", "own", "endPrefix"} /\ UNCHANGED <<run, log>>
         /\ phase' \in {"prior", "startPrefix"} => phase \in {"prior", "startPrefix"}
         /\ queue' \subseteq queue
         /\ file' # 0 => phase' = "prior" /\ (file' = file \/ file' \in queue)
<1>1. file # 0 => phase = "prior"
  BY DEF Fresh
<1>2. ASSUME NEW r \in Runs, SkipFile(r) \/ OpenFile(r)
      PROVE  /\ phase = "prior" /\ phase' = phase /\ UNCHANGED <<run, log>>
             /\ queue' \subseteq queue /\ (file' = file \/ file' \in queue)
  BY <1>2 DEF SkipFile, OpenFile
<1>3. CASE ReplayNameless \/ ReplayGone \/ ReplayFailed \/ CloseFile \/ LeavePrior
  BY <1>1, <1>3 DEF ReplayNameless, ReplayGone, ReplayFailed, CloseFile, LeavePrior, Replaying, passVars
<1>4. CASE (\E w \in Writes : OwnGone(w)) \/ OwnNameless \/ OwnFailed \/ LeaveOwn
  BY <1>1, <1>4 DEF OwnNameless, OwnGone, OwnFailed, LeaveOwn, passVars
<1>5. CASE ListCollection \/ (\E o \in found, w \in Writes : PrefixGone(o, w))
           \/ (\E o \in found : PrefixFailed(o)) \/ BeginSteps
  BY <1>1, <1>5 DEF ListCollection, PrefixGone, PrefixFailed, BeginSteps, Listing, passVars
<1>6. CASE Finish
  BY <1>6 DEF Finish, Exit, Rest
<1>7. QED
  BY <1>2, <1>3, <1>4, <1>5, <1>6 DEF CleanupStep

\* No step touches what the file of another run says.
LEMMA OtherFiles ==
  ASSUME Shape, ProcessStep \/ Crash
  PROVE  \A r \in Runs : r # run =>
           disk'[r].known = disk[r].known /\ disk'[r].closed = disk[r].closed
<1>1. disk \in [Runs -> LedgerFile]
  BY Typed
<1>2. CASE disk' = disk
  BY <1>2
<1>3. ASSUME NEW f, disk' = [disk EXCEPT ![run] = f]
      PROVE  \A r \in Runs : r # run => disk'[r] = disk[r]
  BY <1>1, <1>3
<1>4. ASSUME NEW g \in Runs, disk' = [disk EXCEPT ![g].present = FALSE]
      PROVE  \A r \in Runs : disk'[r].known = disk[r].known /\ disk'[r].closed = disk[r].closed
  <2> SUFFICES ASSUME NEW r \in Runs
               PROVE  disk'[r].known = disk[r].known /\ disk'[r].closed = disk[r].closed
    OBVIOUS
  <2>1. disk[r] \in LedgerFile /\ disk'[r] = IF r = g THEN [disk[r] EXCEPT !.present = FALSE] ELSE disk[r]
    BY <1>1, <1>4
  <2>2. QED
    BY <2>1 DEF LedgerFile
<1>5. CASE Crash
  BY <1>2, <1>3, <1>5 DEF Crash
<1>6. CASE ProgramStep
  <2>1. ASSUME NEW e \in Entities, CreateStep(e)
        PROVE  disk' = disk \/ \E f : disk' = [disk EXCEPT ![run] = f]
    BY <2>1 DEF CreateStep, Enter, Resolved, RecordIntent, Send, Abandon, Accepted, Refused,
       Unclear, Unseen
  <2>2. disk' = disk \/ \E f : disk' = [disk EXCEPT ![run] = f]
    BY <1>6, <2>1 DEF ProgramStep, FinishEntity, BeginCreate, ResolveParent, DeleteMinimal,
       CleanupDelete, BeginDelete, DeleteGone, DeleteRefused, DeleteUnseen
  <2>3. QED
    BY <1>2, <1>3, <2>2
<1>7. CASE CleanupStep
  <2>1. CASE CloseFile
    <3>1. disk' = disk \/ (file \in Runs /\ disk' = [disk EXCEPT ![file].present = FALSE])
      BY <2>1 DEF CloseFile, Shape, TypeOK, Runs
    <3>2. QED
      BY <1>2, <1>4, <3>1
  <2>2. CASE Finish
    <3>1. phase # "down" /\ (disk' = disk \/ disk' = [disk EXCEPT ![run].present = FALSE])
      BY <2>2 DEF Finish, Exit
    <3>2. QED
      BY <1>2, <1>4, <3>1, Typed DEF Up
  <2>3. CASE ~CloseFile /\ ~Finish
    <3>1. disk' = disk \/ \E f : disk' = [disk EXCEPT ![run] = f]
      BY <1>7, <2>3 DEF CleanupStep, SkipFile, OpenFile, ReplayNameless, ReplayGone, ReplayFailed,
         LeavePrior, OwnNameless, OwnGone, OwnFailed, LeaveOwn, ListCollection, PrefixGone,
         PrefixFailed, BeginSteps
    <3>2. QED
      BY <1>2, <1>3, <3>1
  <2>4. QED
    BY <2>1, <2>2, <2>3
<1>8. QED
  BY <1>5, <1>6, <1>7 DEF ProcessStep

\* Objects lie under nothing unless their entity names a parent, and no log shrinks.
LEMMA RootedStep ==
  ASSUME Shape, Ordered, Rooted, Fresh, ProcessStep
  PROVE  Grown /\ Rooted' /\ (~Stepping => log' = log) /\ \A r \in Runs : r # run => log'[r] = log[r]
<1>1. ASSUME log' = log PROVE Grown /\ Rooted'
  BY <1>1, SameLogs DEF Rooted
<1>2. CASE CleanupStep
  BY <1>1, <1>2, CleanupTurn
<1>3. CASE ProgramStep
  <2>1. Stepping /\ run \in Runs /\ \A r \in Runs : Len(log[r]) \in Nat
    BY <1>3, ProgramTurn, Typed DEF Up, Stepping
  <2>2. ASSUME NEW e \in Entities, NEW w \in Writes, RecordIntent(e, w)
        PROVE  Grown /\ Rooted' /\ \A r \in Runs : r # run => log'[r] = log[r]
    <3>1. /\ Len(log'[run]) = Len(log[run]) + 1 /\ log'[run][Len(log[run]) + 1].under = 0
          /\ \A s \in 1 .. Len(log[run]) : log'[run][s] = log[run][s]
          /\ Grown /\ \A r \in Runs : r # run => log'[r] = log[r]
      BY <2>2, RecordLog
    <3>2. Rooted'
      <4> SUFFICES ASSUME NEW r \in Runs, NEW s \in 1 .. Len(log'[r]), Parent[log'[r][s].ent] = 0
                   PROVE  log'[r][s].under = 0
        BY DEF Rooted
      <4>1. CASE r = run /\ s = Len(log[run]) + 1
        BY <3>1, <4>1
      <4>2. CASE r = run /\ s # Len(log[run]) + 1
        <5>1. s \in 1 .. Len(log[run]) /\ log'[run][s] = log[run][s]
          BY <2>1, <3>1, <4>2
        <5>2. QED
          BY <2>1, <4>2, <5>1 DEF Rooted
      <4>3. CASE r # run
        BY <3>1, <4>3 DEF Rooted
      <4>4. QED
        BY <4>1, <4>2, <4>3
    <3>3. QED
      BY <3>1, <3>2
  <2>3. ASSUME NEW e \in Entities, Send(e), ~NeedsParent(e)
        PROVE  Grown /\ Rooted' /\ \A r \in Runs : r # run => log'[r] = log[r]
    <3>1. /\ \A r \in Runs : Len(log'[r]) = Len(log[r]) /\ (r # run => log'[r] = log[r])
          /\ \A s \in 1 .. Len(log[run]) :
               /\ log'[run][s].ent = log[run][s].ent
               /\ s # slot[e] \/ Parent[e] = 0 => log'[run][s] = log[run][s]
          /\ Grown
      BY <2>3, SendLog
    <3>2. log[run][slot[e]].ent = e
      BY <2>1, <2>3 DEF Send, Ordered, Slots, Stepping
    <3>3. \A s \in 1 .. Len(log[run]) : Parent[log'[run][s].ent] = 0 => log'[run][s].under = 0
      BY <2>1, <3>1, <3>2 DEF Rooted
    <3>4. QED
      BY <2>1, <3>1, <3>3 DEF Rooted
  <2>4. ASSUME NEW e \in Entities, Send(e), NeedsParent(e) PROVE log' = log
    BY <2>4 DEF Send
  <2>5. QED
    BY <1>1, <1>3, <2>1, <2>2, <2>3, <2>4, ProgramLog
<1>4. QED
  BY <1>2, <1>3 DEF ProcessStep

\* A run to come stays untouched, and no run is taken for one of its own past.
LEMMA FreshStep ==
  ASSUME Shape, Ordered, Rooted, Fresh, [Next]_vars
  PROVE  Fresh'
<1>1. CASE Start
  <2>1. run' = run + 1 /\ phase' = "prior" /\ file' = 0 /\ log' = log /\ run' \in Runs /\ run \in Nat
    BY <1>1, PlanAssumption, Typed DEF Start, Rest, Runs
  <2>2. queue' \subseteq 1 .. run
    BY <1>1 DEF Start
  <2>3. \A r \in Runs : disk'[r].known = disk[r].known /\ disk'[r].closed = disk[r].closed
    <3> SUFFICES ASSUME NEW r \in Runs
                 PROVE  disk'[r].known = disk[r].known /\ disk'[r].closed = disk[r].closed
      OBVIOUS
    <3>1. disk[r] \in LedgerFile
          /\ disk'[r] = IF r = run + 1 THEN [disk[r] EXCEPT !.present = TRUE] ELSE disk[r]
      BY <1>1, <2>1, Typed DEF Start
    <3>2. QED
      BY <3>1 DEF LedgerFile
  <2>4. \A r \in Runs : run' < r => log'[r] = <<>> /\ disk'[r].known = {} /\ disk'[r].closed = {}
    BY <2>1, <2>3 DEF Fresh, Runs
  <2>5. log'[run'] = <<>>
    BY <2>1 DEF Fresh
  <2>6. \A r \in queue' : r < run'
    BY <2>1, <2>2
  <2>7. QED
    BY <2>1, <2>4, <2>5, <2>6 DEF Fresh
<1>2. CASE UNCHANGED vars \/ \E o \in overdue : CarryOut(o)
  BY <1>2 DEF CarryOut, vars, passVars, Fresh
<1>3. CASE Crash
  <2>1. /\ phase' = "down" /\ file' = 0 /\ UNCHANGED <<run, log>> /\ queue' = {}
    BY <1>3 DEF Crash, Rest
  <2>2. \A r \in Runs : run < r => disk'[r].known = {} /\ disk'[r].closed = {}
    <3>1. run \in Nat /\ \A r \in Runs : run < r => r # run
      BY Typed DEF Runs
    <3>2. QED
      BY <1>3, <3>1, OtherFiles DEF Fresh
  <2>3. QED
    BY <2>1, <2>2 DEF Fresh
<1>4. CASE ProcessStep
  <2>1. run \in Nat
    BY Typed
  <2>2. \A r \in Runs : run < r => disk'[r].known = {} /\ disk'[r].closed = {} /\ log'[r] = <<>>
    BY <1>4, <2>1, OtherFiles, RootedStep DEF Fresh, Runs
  <2>3. CASE ProgramStep
    <3>1. phase = "steps" /\ phase' \in {"steps", "own"} /\ UNCHANGED <<run, queue, file>>
      BY <2>3, ProgramTurn DEF Stepping
    <3>2. QED
      BY <2>2, <3>1 DEF Fresh
  <2>4. CASE CleanupStep
    <3>1. /\ UNCHANGED <<run, log>> /\ queue' \subseteq queue
          /\ phase' \in {"prior", "startPrefix"} => phase \in {"prior", "startPrefix"}
          /\ file' # 0 => phase' = "prior" /\ (file' = file \/ file' \in queue)
      BY <2>4, CleanupTurn
    <3>2. file' # 0 => phase' = "prior" /\ file' < run'
      BY <3>1 DEF Fresh
    <3>3. QED
      BY <2>2, <3>1, <3>2 DEF Fresh
  <2>5. QED
    BY <1>4, <2>3, <2>4 DEF ProcessStep
<1>5. QED
  BY <1>1, <1>2, <1>3, <1>4 DEF Next

\* What is learned is the number of a create that was answered.
LEMMA LearnedStep ==
  ASSUME Shape, Ordered, Rooted, Fresh, Up => learned \subseteq 1 .. Len(log[run]), [Next]_vars
  PROVE  Up' => learned' \subseteq 1 .. Len(log'[run'])
<1>1. CASE Start \/ Crash \/ Finish
  BY <1>1 DEF Start, Crash, Finish, Exit, Rest
<1>2. CASE UNCHANGED vars \/ \E o \in overdue : CarryOut(o)
  BY <1>2 DEF CarryOut, vars, memoryVars, Up
<1>3. CASE CleanupStep /\ ~Finish
  <2>1. UNCHANGED <<run, log>> /\ Up
    BY <1>3, CleanupTurn DEF Up
  <2>2. learned' = learned
    BY <1>3 DEF CleanupStep, SkipFile, OpenFile, ReplayNameless, ReplayGone, ReplayFailed, CloseFile,
         LeavePrior, OwnNameless, OwnGone, OwnFailed, LeaveOwn, ListCollection, PrefixGone,
         PrefixFailed, BeginSteps, memoryVars
  <2>3. QED
    BY <2>1, <2>2
<1>4. CASE ProgramStep
  <2>1. Stepping /\ run' = run /\ run \in Runs /\ Up /\ \A r \in Runs : Len(log[r]) \in Nat
    BY <1>4, ProgramTurn, Typed DEF Up, Stepping
  <2>2. ProcessStep
    BY <1>4 DEF ProcessStep
  <2>3. Len(log[run]) <= Len(log'[run])
    BY <2>1, <2>2, RootedStep DEF Grown
  <2>4. Len(log'[run]) \in Nat
    BY <2>1, ShapeStep, Typed
  <2>5. learned' \subseteq learned \cup 1 .. Len(log[run])
    <3>1. ASSUME NEW e \in Entities, CreateStep(e) PROVE learned' \subseteq learned \cup 1 .. Len(log[run])
      <4>1. at[e] = "wait" => slot[e] \in 1 .. Len(log[run])
        BY <2>1 DEF Ordered, Slots, Stepping
      <4>2. QED
        BY <3>1, <4>1 DEF CreateStep, Enter, Resolved, RecordIntent, Send, Abandon, Accepted, Refused,
           Unclear, Unseen, Waiting, memoryVars
    <3>2. QED
      BY <1>4, <3>1 DEF ProgramStep, FinishEntity, BeginCreate, ResolveParent, DeleteMinimal,
       CleanupDelete, BeginDelete, DeleteGone, DeleteRefused, DeleteUnseen, memoryVars
  <2>6. QED
    BY <2>1, <2>3, <2>4, <2>5
<1>5. QED
  BY <1>1, <1>2, <1>3, <1>4 DEF Next, ProcessStep

\* A step that goes on to the next entity without a new intent.
LEMMA GivenUpLineage ==
  ASSUME Shape, Lineage, Stepping, NextEntity, UNCHANGED <<run, log, learned>>,
         learned \subseteq 1 .. Len(log[run])
  PROVE  phase' = "steps" => Lineage'
<1>1. log[run] \in Seq(Intent)
  BY Typed DEF Up, Stepping
<1>2. \A s \in 1 .. Len(log[run]) : log[run][s] \in Intent
  BY <1>1
<1>3. \A s \in 1 .. Len(log[run]) : log[run][s].ent \in Nat
  BY <1>2, PlanAssumption DEF Intent, Entities
<1>4. \A s \in 1 .. Len(log[run]) : log[run][s].ent <= current
  BY DEF Lineage, EntOf
<1>5. QED
  BY <1>3, <1>4, NextEntityLineage

\* The steps of a program.
LEMMA ProgramLineage ==
  ASSUME Shape, Ordered, Lineage, learned \subseteq 1 .. Len(log[run]), ProgramStep
  PROVE  phase' = "steps" => Lineage'
<1>1. Stepping /\ at \in [Entities -> Points] /\ current \in Entities
  BY ProgramTurn, Typed DEF Shape, Stepping
<1>2. CASE FinishEntity
  BY <1>1, <1>2, GivenUpLineage DEF FinishEntity, memoryVars
<1>3. ASSUME NEW probe \in BOOLEAN, BeginCreate(probe) PROVE Lineage'
  <2>1. /\ at = AllIdle /\ at' = [at EXCEPT ![current] = "enter"]
        /\ UNCHANGED <<run, log, learned, registry, current, doomed, tenant, overdue>>
    BY <1>3 DEF BeginCreate, Idle, memoryVars, worldVars
  <2>2. \A x \in Entities : at'[x] = IF x = current THEN "enter" ELSE "idle"
    BY <1>1, <2>1 DEF AllIdle
  <2>3. QED
    BY <2>1, <2>2, QuietLineage DEF Awake
<1>4. CASE ResolveParent
  <2>1. /\ at = AllIdle /\ at' = [at EXCEPT ![Parent[current]] = "enter"] /\ registry[Parent[current]] = 0
        /\ UNCHANGED <<run, log, learned, registry, current, doomed, tenant, overdue>>
    BY <1>4 DEF ResolveParent, Idle, NeedsParent, memoryVars, worldVars
  <2>2. \A x \in Entities : at'[x] = IF x = Parent[current] THEN "enter" ELSE "idle"
    BY <1>1, <2>1 DEF AllIdle
  <2>3. QED
    BY <2>1, <2>2, QuietLineage DEF Awake
<1>5. ASSUME NEW e \in Entities, Enter(e) \/ Resolved(e) \/ \E w \in Writes : Refused(e, w)
      PROVE  Lineage'
  <2>1. /\ Innermost(e) /\ at[e] # "idle"
        /\ UNCHANGED <<run, log, learned, registry, current, doomed, tenant, overdue>>
        /\ \A x \in Entities : x # e => slot'[x] = slot[x]
    BY <1>5, Typed DEF Enter, Resolved, Refused, Waiting, Innermost, memoryVars, worldVars
  <2>2. \/ \E v \in {"idle", "enter", "record"} : at' = [at EXCEPT ![e] = v]
        \/ NeedsParent(e) /\ at' = [at EXCEPT ![e] = "resolve", ![Parent[e]] = "enter"]
    BY <1>5 DEF Enter, Resolved, Refused
  <2>3. \A x \in Entities : x # e /\ at'[x] # at[x] => registry[x] = 0 /\ at'[x] = "enter"
    BY <1>1, <2>2 DEF NeedsParent
  <2>4. at'[e] \notin {"send", "wait"}
    BY <1>1, <2>2
  <2>5. \A x \in Entities : Awake(x)' /\ x # current => registry[x] = 0
    BY <2>1, <2>3 DEF Awake, Lineage
  <2>6. \A x \in Entities : at'[x] \in {"send", "wait"} =>
          at'[x] = at[x] /\ slot'[x] = slot[x] /\ <<run, slot[x]>> \notin tenant' \cup overdue'
    BY <2>1, <2>3, <2>4 DEF Lineage
  <2>7. QED
    BY <2>1, <2>5, <2>6, QuietLineage
<1>6. ASSUME NEW e \in Entities, Abandon(e) \/ Unclear(e) \/ Unseen(e)
      PROVE  phase' = "steps" => Lineage'
  <2>1. UNCHANGED <<run, log, learned>>
    BY <1>6 DEF Abandon, Unclear, Unseen, memoryVars
  <2>2. CASE NextEntity
    BY <1>1, <2>1, <2>2, GivenUpLineage
  <2>3. CASE ~NextEntity
    <3>1. at' = AllIdle /\ UNCHANGED <<registry, current, doomed>>
      BY <1>6, <2>3 DEF Abandon, Unclear, Unseen
    <3>2. QED
      BY <2>1, <3>1, QuietLineage DEF Awake, AllIdle
  <2>4. QED
    BY <2>2, <2>3
<1>7. ASSUME NEW e \in Entities, CreateStep(e) PROVE phase' = "steps" => Lineage'
  BY <1>5, <1>6, <1>7, RecordLineage, SendLineage, AcceptedLineage DEF CreateStep
<1>8. CASE DeleteRefused \/ DeleteUnseen
  <2>1. UNCHANGED <<run, log, learned, overdue>> /\ tenant' \subseteq tenant
    BY <1>8 DEF DeleteRefused, DeleteUnseen, Without, memoryVars, worldVars
  <2>2. CASE NextEntity
    BY <1>1, <2>1, <2>2, GivenUpLineage
  <2>3. CASE ~NextEntity
    <3>1. UNCHANGED <<at, slot, registry, current>> /\ doomed' \subseteq doomed
      BY <1>8, <2>3 DEF DeleteRefused, DeleteUnseen, NextDelete
    <3>2. \A x \in Entities : Awake(x)' /\ x # current => registry[x] = 0
      BY <3>1 DEF Lineage, Awake
    <3>3. \A x \in Entities : at'[x] \in {"send", "wait"} =>
            at'[x] = at[x] /\ slot'[x] = slot[x] /\ <<run, slot[x]>> \notin tenant' \cup overdue'
      BY <2>1, <3>1 DEF Lineage
    <3>4. QED
      BY <2>1, <3>1, <3>2, <3>3, QuietLineage
  <2>4. QED
    BY <2>2, <2>3
<1>9. QED
  BY <1>2, <1>3, <1>4, <1>7, <1>8, BeginDeleteLineage, GoneLineage DEF ProgramStep

\* Every step keeps the lines of descent.
LEMMA LinesStep ==
  ASSUME Shape, Ordered, Lines, [Next]_vars
  PROVE  Lines'
<1>1. Rooted /\ Fresh /\ (Up => learned \subseteq 1 .. Len(log[run])) /\ (phase = "steps" => Lineage)
  BY DEF Lines
<1>2. Fresh' /\ (Up' => learned' \subseteq 1 .. Len(log'[run']))
  BY <1>1, FreshStep, LearnedStep
<1>3. CASE ProgramStep
  <2>1. Stepping /\ Up
    BY <1>3, ProgramTurn DEF Stepping, Up
  <2>2. Rooted'
    BY <1>1, <1>3, RootedStep DEF ProcessStep
  <2>3. phase' = "steps" => Lineage'
    BY <1>1, <1>3, <2>1, ProgramLineage DEF Stepping
  <2>4. QED
    BY <1>2, <2>2, <2>3 DEF Lines
<1>4. CASE CleanupStep
  <2>1. Rooted' /\ UNCHANGED <<run, log>> /\ phase # "steps"
    BY <1>1, <1>4, CleanupTurn, RootedStep DEF ProcessStep
  <2>2. phase' = "steps" => Lineage'
    <3> SUFFICES ASSUME phase' = "steps" PROVE Lineage'
      OBVIOUS
    <3>1. BeginSteps
      BY <1>4, <2>1 DEF CleanupStep, SkipFile, OpenFile, ReplayNameless, ReplayGone, ReplayFailed,
         CloseFile, LeavePrior, OwnNameless, OwnGone, OwnFailed, LeaveOwn, ListCollection, PrefixGone,
         PrefixFailed, Finish, Exit
    <3>2. phase = "startPrefix" /\ UNCHANGED <<at, doomed, learned>>
      BY <3>1 DEF BeginSteps, memoryVars
    <3>3. at' = AllIdle /\ doomed' = {} /\ log'[run'] = <<>>
      BY <1>1, <2>1, <3>2 DEF Ordered, Rested, Fresh
    <3>4. learned' = {}
      BY <1>1, <2>1, <3>2, <3>3 DEF Up
    <3>5. QED
      BY <3>3, <3>4 DEF Lineage, Awake, AllIdle
  <2>3. QED
    BY <1>2, <2>1, <2>2 DEF Lines
<1>5. CASE UNCHANGED vars \/ \E o \in overdue : CarryOut(o)
  <2>1. /\ UNCHANGED <<phase, run, log, learned, registry, current, doomed, at, slot>>
        /\ tenant' \cup overdue' \subseteq tenant \cup overdue
    BY <1>5 DEF CarryOut, vars, memoryVars, worldVars, progressVars
  <2>2. Rooted'
    BY <1>1, <2>1 DEF Rooted
  <2>3. phase = "steps" => Lineage'
    <3> SUFFICES ASSUME Lineage PROVE Lineage'
      BY <1>1
    <3>1. \A x \in Entities : Awake(x)' /\ x # current => registry[x] = 0
      BY <2>1 DEF Lineage, Awake
    <3>2. \A x \in Entities : at'[x] \in {"send", "wait"} =>
            at'[x] = at[x] /\ slot'[x] = slot[x] /\ <<run, slot[x]>> \notin tenant' \cup overdue'
      BY <2>1 DEF Lineage
    <3>3. QED
      BY <2>1, <3>1, <3>2, QuietLineage
  <2>4. QED
    BY <1>2, <2>1, <2>2, <2>3 DEF Lines
<1>6. CASE Start \/ Crash
  <2>1. log' = log /\ phase' # "steps"
    BY <1>6 DEF Start, Crash
  <2>2. Rooted'
    BY <1>1, <2>1 DEF Rooted
  <2>3. QED
    BY <1>2, <2>1, <2>2 DEF Lines
<1>7. QED
  BY <1>3, <1>4, <1>5, <1>6 DEF Next, ProcessStep

-----------------------------------------------------------------------------
\* An object exists or may still appear, not both.
Apart == tenant \cap overdue = {}

\* What a listing returned exists, at the root of its collection.
Gathered ==
  /\ ~Listing => found = {}
  /\ \A o \in found : o \in tenant /\ log[o[1]][o[2]].under = 0

\* What the file of a run says agrees with what exists: its ids are learned, its
\* closing lines confirmed, and a traceable object is neither closed nor unfiled.
Filed ==
  /\ Up => /\ disk[run].present
           /\ disk[run].known \subseteq learned /\ disk[run].closed \subseteq settled
           /\ \A o \in overdue : o[1] = run => o[2] \notin learned
  /\ \A o \in overdue : o[2] \notin disk[o[1]].known
  /\ \A o \in tenant : Traceable(o) =>
       /\ disk[o[1]].present /\ o[2] \notin disk[o[1]].closed
       /\ Up /\ o[1] = run => o[2] \notin settled

\* A replay that has gone well so far has all its traceable objects before it.
Replayed ==
  file # 0 /\ clean => \A o \in tenant : Traceable(o) /\ o[1] = file => o[2] \in todo

\* What a step accounts for: it learns the ids K, settles the entries S and makes,
\* or lets the API make, the objects N of this run; a settled entry's object is
\* gone, or a prefix pass took another of that name for it.
Accounts(K, S, N) ==
  /\ run' = run /\ (phase' = "down" <=> phase = "down")
  /\ learned' = learned \cup K /\ settled' = settled \cup S
  /\ \A r \in Runs :
       /\ disk'[r].present = disk[r].present
       /\ r # run => disk'[r].known = disk[r].known /\ disk'[r].closed = disk[r].closed
       /\ r = run => /\ disk'[r].known \subseteq disk[r].known \cup K
                     /\ disk'[r].closed \subseteq disk[r].closed \cup S
  /\ \A o \in tenant' : o \in tenant \cup overdue \/ \E n \in N : o = <<run, n>>
  /\ \A o \in overdue' : o \in overdue \/ \E n \in N \ K : o = <<run, n>>
  /\ tenant' \cap overdue' = {}
  /\ K \subseteq N
  /\ \A n \in N : Up /\ n \notin learned \cup settled' /\ <<run, n>> \notin tenant \cup overdue
  /\ \A s \in S : \/ <<run, s>> \notin tenant' \cup overdue'
                  \/ Listing /\ (Traceable(<<run, s>>)' => <<run, s>> \notin tenant')

AccountsSome == \E K, S, N \in SUBSET Seqs : Accounts(K, S, N)

\* What a write leaves of the lines a file held.
LEMMA AppendedLines ==
  ASSUME Shape, run \in Runs, NEW kind \in {"intents", "known", "closed"}, NEW S \in SUBSET Seqs,
         NEW w \in Writes, disk' = [disk EXCEPT ![run] = Appended(@, kind, S, w)]
  PROVE  \A r \in Runs :
           /\ disk'[r].present = disk[r].present
           /\ r # run => disk'[r].known = disk[r].known /\ disk'[r].closed = disk[r].closed
           /\ disk'[r].known \subseteq IF kind = "known" THEN disk[r].known \cup S ELSE disk[r].known
           /\ disk'[r].closed \subseteq IF kind = "closed" THEN disk[r].closed \cup S ELSE disk[r].closed
<1>1. disk \in [Runs -> LedgerFile]
  BY Typed
<1> DEFINE f == disk[run]
           g == Appended(f, kind, S, w)
<1>2. f \in LedgerFile /\ disk'[run] = g /\ \A r \in Runs : r # run => disk'[r] = disk[r]
  BY <1>1
<1>3. w \in {"ok", "unsynced", "torn", "lost"}
  BY DEF Writes
<1> HIDE DEF f
<1>4. /\ g.present = f.present
      /\ g.known \subseteq IF kind = "known" THEN f.known \cup S ELSE f.known
      /\ g.closed \subseteq IF kind = "closed" THEN f.closed \cup S ELSE f.closed
  <2>1. CASE w = "lost"
    BY <2>1 DEF Appended
  <2>2. CASE w = "torn"
    BY <1>2, <2>2 DEF Appended, Torn, LedgerFile
  <2>3. CASE w \in {"ok", "unsynced"}
    <3>1. g = Extended(f, kind, S) /\ f.tail \in Tails
      BY <1>2, <2>3 DEF Appended, LedgerFile
    <3>2. CASE kind = "intents"
      BY <1>2, <3>1, <3>2 DEF Extended, LedgerFile, Tails
    <3>3. CASE kind = "known"
      BY <1>2, <3>1, <3>3 DEF Extended, LedgerFile, Tails
    <3>4. CASE kind = "closed"
      BY <1>2, <3>1, <3>4 DEF Extended, LedgerFile, Tails
    <3>5. QED
      BY <3>2, <3>3, <3>4
  <2>4. QED
    BY <1>3, <2>1, <2>2, <2>3
<1> HIDE DEF g
<1>5. QED
  BY <1>2, <1>4 DEF f

\* A step that learns nothing, closes nothing and makes nothing.
LEMMA QuietAccounts ==
  ASSUME Apart, phase' = "down" <=> phase = "down", UNCHANGED <<run, learned, settled>>,
         \A r \in Runs : /\ disk'[r].present = disk[r].present /\ disk'[r].known = disk[r].known
                         /\ disk'[r].closed = disk[r].closed,
         tenant' \cup overdue' \subseteq tenant \cup overdue, overdue' \subseteq overdue,
         tenant' \cap overdue' = {}
  PROVE  AccountsSome
<1>1. Accounts({}, {}, {})
  BY DEF Accounts
<1>2. QED
  BY <1>1 DEF AccountsSome

\* A request given up: its object may have been made.
LEMMA UnlearnedAccounts ==
  ASSUME Shape, Ordered, Lines, Apart, Stepping, NEW e \in Entities, at[e] = "wait", NEW possible,
         Unlearned(<<run, slot[e]>>, possible), phase' # "down",
         UNCHANGED <<run, learned, settled, disk>>
  PROVE  AccountsSome
<1>1. slot[e] \notin learned /\ <<run, slot[e]>> \notin tenant \cup overdue
  BY DEF Lines, Lineage, Stepping
<1>2. slot[e] \in Seqs /\ slot[e] \notin settled
  BY DEF Shape, Ordered, Slots, Stepping
<1>3. Accounts({}, {}, {slot[e]})
  <2>1. /\ \A o \in tenant' : o \in tenant \cup overdue \/ o = <<run, slot[e]>>
        /\ \A o \in overdue' : o \in overdue \/ o = <<run, slot[e]>>
        /\ tenant' \cap overdue' = {}
    BY <1>1 DEF Unlearned, Apart, worldVars
  <2>2. QED
    BY <1>1, <1>2, <2>1 DEF Accounts, Stepping, Up
<1>4. QED
  BY <1>2, <1>3 DEF AccountsSome

\* What a delete leaves is less the object it was sent for.
LEMMA WithoutLess ==
  ASSUME NEW o
  PROVE  Without(o) \subseteq tenant /\ o \notin Without(o)
  BY DEF Without

\* A delete within a program is sent for the object's own address, since what it
\* lies under is still what is registered for its parent.
LEMMA DoomedAddressed ==
  ASSUME Shape, Ordered, Lines, Filed, Deleting
  PROVE  /\ Newest(doomed) \in doomed /\ Newest(doomed) \in learned /\ Newest(doomed) \in Seqs
         /\ Addressed(Newest(doomed)) /\ <<run, Newest(doomed)>> \notin overdue
<1> DEFINE s == Newest(doomed)
<1>1. s \in doomed /\ s \in Seqs
  BY NewestIsMax DEF Shape, TypeOK, Deleting
<1>2. Lineage /\ Up /\ learned \subseteq 1 .. Len(log[run])
  BY DEF Deleting, Stepping, Lines, Up
<1> HIDE DEF s
<1>3. s \in learned
  BY <1>1, <1>2 DEF Lineage
<1>4. <<run, s>> \notin overdue
  BY <1>2, <1>3 DEF Filed
<1>5. Addressed(s)
  <2> SUFFICES ASSUME EntOf(s) \in EmbedsParent
               PROVE  UnderOf(s) = registry[Parent[EntOf(s)]]
    BY DEF Addressed, EntityOf, EntOf, UnderOf
  <2>1. Parent[EntOf(s)] # 0
    BY PlanAssumption
  <2>2. QED
    BY <1>2, <1>3, <2>1 DEF Lineage
<1>6. QED
  BY <1>1, <1>3, <1>4, <1>5 DEF s

\* The steps of a program.
LEMMA ProgramAccounts ==
  ASSUME Shape, Ordered, Lines, Apart, Filed, ProgramStep
  PROVE  AccountsSome
<1>1. /\ Stepping /\ run' = run /\ run \in Runs /\ phase # "down" /\ phase' # "down"
      /\ Lineage /\ Slots
  BY ProgramTurn, Typed DEF Stepping, Up, Lines, Ordered
<1>2. ASSUME UNCHANGED <<learned, settled, disk, overdue>>, tenant' \subseteq tenant
      PROVE  AccountsSome
  BY <1>1, <1>2, QuietAccounts DEF Apart
<1>3. CASE FinishEntity \/ (\E probe \in BOOLEAN : BeginCreate(probe)) \/ ResolveParent
           \/ DeleteMinimal \/ CleanupDelete \/ DeleteRefused \/ DeleteUnseen
  BY <1>2, <1>3, WithoutLess DEF FinishEntity, BeginCreate, ResolveParent, DeleteMinimal, CleanupDelete,
     BeginDelete, DeleteRefused, DeleteUnseen, memoryVars, worldVars
<1>4. ASSUME NEW e \in Entities, Enter(e) \/ Resolved(e) \/ Send(e) \/ Abandon(e)
      PROVE  AccountsSome
  BY <1>2, <1>4 DEF Enter, Resolved, Send, Abandon, memoryVars, worldVars
<1>5. ASSUME NEW e \in Entities, NEW w \in Writes, RecordIntent(e, w) PROVE AccountsSome
  <2> DEFINE seq == Len(log[run]) + 1
  <2>1. /\ UNCHANGED <<learned, settled, tenant, overdue>> /\ seq \in Seqs
        /\ disk' = [disk EXCEPT ![run] = Appended(@, "intents", {seq}, w)]
    BY <1>5 DEF RecordIntent, memoryVars, worldVars
  <2> HIDE DEF seq
  <2>2. \A r \in Runs :
          /\ disk'[r].present = disk[r].present /\ disk'[r].known \subseteq disk[r].known
          /\ disk'[r].closed \subseteq disk[r].closed
          /\ r # run => disk'[r].known = disk[r].known /\ disk'[r].closed = disk[r].closed
    BY <1>1, <2>1, AppendedLines
  <2>3. Accounts({}, {}, {})
    BY <1>1, <2>1, <2>2 DEF Accounts, Apart
  <2>4. QED
    BY <2>3 DEF AccountsSome
<1>6. ASSUME NEW e \in Entities, NEW id \in BOOLEAN, NEW w \in Writes, Accepted(e, id, w)
      PROVE  AccountsSome
  <2> DEFINE seq == slot[e]
             K == IF id THEN {seq} ELSE {}
  <2>1. /\ at[e] = "wait" /\ tenant' = tenant \cup {<<run, seq>>} /\ learned' = learned \cup K
        /\ disk' = [disk EXCEPT ![run] = Appended(@, "known", K, w)] /\ UNCHANGED <<settled, overdue>>
    BY <1>6 DEF Accepted, Waiting
  <2>2. seq \in Seqs /\ K \in SUBSET Seqs /\ K \subseteq {seq}
    BY <2>1 DEF Shape
  <2>3. seq \notin learned /\ seq \notin settled /\ <<run, seq>> \notin tenant \cup overdue
    BY <1>1, <2>1 DEF Lineage, Slots
  <2> HIDE DEF seq, K
  <2>4. \A r \in Runs :
          /\ disk'[r].present = disk[r].present /\ disk'[r].known \subseteq disk[r].known \cup K
          /\ disk'[r].closed \subseteq disk[r].closed
          /\ r # run => disk'[r].known = disk[r].known /\ disk'[r].closed = disk[r].closed
    BY <1>1, <2>1, <2>2, AppendedLines
  <2>5. Accounts(K, {}, {seq})
    <3>1. /\ \A o \in tenant' : o \in tenant \cup overdue \/ o = <<run, seq>>
          /\ tenant' \cap overdue' = {}
      BY <2>1, <2>3 DEF Apart
    <3>2. QED
      BY <1>1, <2>1, <2>2, <2>3, <2>4, <3>1 DEF Accounts, Up
  <2>6. QED
    BY <2>2, <2>5 DEF AccountsSome
<1>7. ASSUME NEW e \in Entities, NEW w \in Writes, Refused(e, w) PROVE AccountsSome
  <2>1. /\ at[e] = "wait" /\ settled' = settled \cup {slot[e]}
        /\ disk' = [disk EXCEPT ![run] = Appended(@, "closed", {slot[e]}, w)]
        /\ UNCHANGED <<learned, tenant, overdue>>
    BY <1>7 DEF Refused, Waiting, worldVars
  <2>2. slot[e] \in Seqs /\ <<run, slot[e]>> \notin tenant \cup overdue
    BY <1>1, <2>1 DEF Shape, Lineage
  <2>3. \A r \in Runs :
          /\ disk'[r].present = disk[r].present /\ disk'[r].known \subseteq disk[r].known
          /\ disk'[r].closed \subseteq disk[r].closed \cup {slot[e]}
          /\ r # run => disk'[r].known = disk[r].known /\ disk'[r].closed = disk[r].closed
    BY <1>1, <2>1, <2>2, AppendedLines
  <2>4. Accounts({}, {slot[e]}, {})
    BY <1>1, <2>1, <2>2, <2>3 DEF Accounts, Apart
  <2>5. QED
    BY <2>2, <2>4 DEF AccountsSome
<1>8. ASSUME NEW e \in Entities, Unclear(e) \/ Unseen(e) PROVE AccountsSome
  <2>1. at[e] = "wait" /\ Unlearned(<<run, slot[e]>>, ParentReached(e))
        /\ UNCHANGED <<learned, settled, disk>>
    BY <1>8 DEF Unclear, Unseen, Waiting, memoryVars
  <2>2. QED
    BY <1>1, <2>1, UnlearnedAccounts
<1>9. ASSUME NEW w \in Writes, DeleteGone(w) PROVE AccountsSome
  <2> DEFINE s == Newest(doomed)
  <2>1. /\ Deleting /\ tenant' = (IF Addressed(s) THEN Without(<<run, s>>) ELSE tenant)
        /\ settled' = settled \cup {s} /\ UNCHANGED <<learned, overdue>>
        /\ disk' = [disk EXCEPT ![run] = Appended(@, "closed", {s}, w)]
    BY <1>9 DEF DeleteGone
  <2>2. s \in Seqs /\ Addressed(s) /\ <<run, s>> \notin overdue
    BY <2>1, DoomedAddressed
  <2>3. <<run, s>> \notin tenant' /\ tenant' \subseteq tenant
    BY <2>1, <2>2, WithoutLess
  <2> HIDE DEF s
  <2>4. \A r \in Runs :
          /\ disk'[r].present = disk[r].present /\ disk'[r].known \subseteq disk[r].known
          /\ disk'[r].closed \subseteq disk[r].closed \cup {s}
          /\ r # run => disk'[r].known = disk[r].known /\ disk'[r].closed = disk[r].closed
    BY <1>1, <2>1, <2>2, AppendedLines
  <2>5. Accounts({}, {s}, {})
    BY <1>1, <2>1, <2>2, <2>3, <2>4 DEF Accounts, Apart
  <2>6. QED
    BY <2>2, <2>5 DEF AccountsSome
<1>10. ASSUME NEW e \in Entities, CreateStep(e) PROVE AccountsSome
  BY <1>4, <1>5, <1>6, <1>7, <1>8, <1>10 DEF CreateStep
<1>11. QED
  BY <1>3, <1>9, <1>10 DEF ProgramStep

\* An entry of the same name stands for the object a prefix pass deletes, and if it
\* is another's then neither object is the only one of its name.
LEMMA HomonymTaken ==
  ASSUME Shape, Ordered, log' = log, run' = run, run \in Runs, NEW o \in tenant,
         NEW n \in Homonyms(o), <<run, n>> \in Without(o)
  PROVE  ~Traceable(<<run, n>>)'
<1>1. o[1] = run /\ SameName(run, n, o[2]) /\ n # o[2]
  <2>1. o[1] = run /\ SameName(run, n, o[2])
    BY DEF Homonyms
  <2>2. o = <<o[1], o[2]>>
    BY Typed
  <2>3. QED
    BY <2>1, <2>2, WithoutLess
<1>2. o[2] \in 1 .. Len(log[run])
  BY <1>1 DEF Ordered, Logged
<1>3. SameName(run, o[2], n)
  BY <1>1 DEF SameName
<1>4. SameName(run, o[2], n)'
  BY <1>3 DEF SameName, EntityOf
<1>5. QED
  BY <1>1, <1>2, <1>4 DEF Traceable

\* The boundary cleanups, but for the files they remove.
LEMMA CleanupAccounts ==
  ASSUME Shape, Ordered, Lines, Apart, Filed, Gathered, CleanupStep, ~CloseFile, ~Finish
  PROVE  AccountsSome
<1>1. Fresh /\ UNCHANGED <<run, log>> /\ phase # "down" /\ run \in Runs
  BY CleanupTurn, Typed DEF Lines, Up
<1>2. phase' # "down"
  BY <1>1 DEF CleanupStep, SkipFile, OpenFile, ReplayNameless, ReplayGone, ReplayFailed, LeavePrior,
     OwnNameless, OwnGone, OwnFailed, LeaveOwn, ListCollection, PrefixGone, PrefixFailed, BeginSteps
<1>3. ASSUME UNCHANGED <<learned, settled, disk, overdue>>, tenant' \subseteq tenant
      PROVE  AccountsSome
  BY <1>1, <1>2, <1>3, QuietAccounts DEF Apart
<1>4. ASSUME NEW S \in SUBSET Seqs, NEW w \in Writes, settled' = settled \cup S, tenant' \subseteq tenant,
             disk' = [disk EXCEPT ![run] = Appended(@, "closed", S, w)], UNCHANGED <<learned, overdue>>,
             \A s \in S : \/ <<run, s>> \notin tenant' \cup overdue'
                          \/ Listing /\ (Traceable(<<run, s>>)' => <<run, s>> \notin tenant')
      PROVE  AccountsSome
  <2>1. \A r \in Runs :
          /\ disk'[r].present = disk[r].present /\ disk'[r].known \subseteq disk[r].known
          /\ disk'[r].closed \subseteq disk[r].closed \cup S
          /\ r # run => disk'[r].known = disk[r].known /\ disk'[r].closed = disk[r].closed
    BY <1>1, <1>4, AppendedLines
  <2>2. Accounts({}, S, {})
    BY <1>1, <1>2, <1>4, <2>1 DEF Accounts, Apart
  <2>3. QED
    BY <2>2 DEF AccountsSome
<1>5. ASSUME NEW w \in Writes, OwnGone(w) PROVE AccountsSome
  <2> DEFINE s == Newest(todo)
  <2>1. /\ todo # {} /\ s \in learned /\ tenant' = Without(<<run, s>>) /\ settled' = settled \cup {s}
        /\ disk' = [disk EXCEPT ![run] = Appended(@, "closed", {s}, w)] /\ UNCHANGED <<learned, overdue>>
    BY <1>5 DEF OwnGone
  <2>2. s \in Seqs
    BY <2>1 DEF Shape, TypeOK
  <2>3. <<run, s>> \notin tenant' \cup overdue' /\ tenant' \subseteq tenant
    BY <1>1, <2>1, WithoutLess DEF Filed, Up
  <2> HIDE DEF s
  <2>4. {s} \in SUBSET Seqs /\ \A x \in {s} : <<run, x>> \notin tenant' \cup overdue'
    BY <2>2, <2>3
  <2> DEFINE S == {s}
  <2>5. /\ settled' = settled \cup S /\ disk' = [disk EXCEPT ![run] = Appended(@, "closed", S, w)]
        /\ S \in SUBSET Seqs /\ \A x \in S : <<run, x>> \notin tenant' \cup overdue'
    BY <2>1, <2>4
  <2> HIDE DEF S
  <2>6. QED
    BY <1>4, <2>1, <2>3, <2>5
<1>6. ASSUME NEW o \in found, NEW w \in Writes, PrefixGone(o, w) PROVE AccountsSome
  <2> DEFINE H == Homonyms(o)
             closing == IF H = {} THEN {} ELSE {Newest(H)}
  <2>1. /\ Listing /\ o \in tenant /\ tenant' = Without(o) /\ settled' = settled \cup closing
        /\ IF closing = {} THEN disk' = disk
           ELSE disk' = [disk EXCEPT ![run] = Appended(@, "closed", closing, w)]
        /\ UNCHANGED <<learned, overdue>>
    BY <1>6 DEF PrefixGone, Gathered
  <2>2. H \subseteq Seqs
    <3>1. H \subseteq Outstanding
      BY DEF Homonyms
    <3>2. QED
      BY <1>1, <3>1, OutstandingType
  <2>3. closing \subseteq H /\ closing \in SUBSET Seqs
    BY <2>2, NewestIsMax
  <2>4. \A s \in closing : Traceable(<<run, s>>)' => <<run, s>> \notin tenant'
    BY <1>1, <2>1, <2>3, HomonymTaken
  <2>5. tenant' \subseteq tenant
    BY <2>1, WithoutLess
  <2> HIDE DEF H, closing
  <2>6. CASE closing = {}
    BY <1>3, <2>1, <2>5, <2>6
  <2>7. CASE closing # {}
    BY <1>4, <2>1, <2>3, <2>4, <2>5, <2>7
  <2>8. QED
    BY <2>6, <2>7
<1>7. CASE ~(\E w \in Writes : OwnGone(w)) /\ ~(\E o \in found, w \in Writes : PrefixGone(o, w))
  <2>1. UNCHANGED <<learned, settled, disk, overdue>> /\ tenant' \subseteq tenant
    BY <1>7, WithoutLess DEF CleanupStep, SkipFile, OpenFile, ReplayNameless, ReplayGone, ReplayFailed,
       LeavePrior, OwnNameless, OwnFailed, LeaveOwn, ListCollection, PrefixFailed, BeginSteps,
       memoryVars, worldVars
  <2>2. QED
    BY <1>3, <2>1
<1>8. QED
  BY <1>5, <1>6, <1>7

\* A create carried out late.
LEMMA CarryOutAccounts ==
  ASSUME Apart, NEW o \in overdue, CarryOut(o)
  PROVE  AccountsSome
  BY QuietAccounts DEF CarryOut, Apart, memoryVars

-----------------------------------------------------------------------------
\* Two entries that bear one name in a longer log did so before.
LEMMA SameNameGrown ==
  ASSUME Grown, NEW r \in Runs, NEW s \in 1 .. Len(log[r]), NEW t \in 1 .. Len(log[r])
  PROVE  (SameName(r, s, t)' <=> SameName(r, s, t)) /\ (Named(r, s)' <=> Named(r, s))
<1>1. /\ log'[r][s].ent = log[r][s].ent /\ log'[r][s].suffixed = log[r][s].suffixed
      /\ log'[r][t].ent = log[r][t].ent /\ log'[r][t].suffixed = log[r][t].suffixed
  BY DEF Grown
<1>2. QED
  BY <1>1 DEF SameName, Named, EntityOf

\* An object that was known and is traceable now was traceable before.
LEMMA TraceableBefore ==
  ASSUME Shape, Shape', Ordered, Grown, NEW o \in tenant, o[2] \in disk[o[1]].known, Traceable(o)'
  PROVE  Traceable(o)
<1>1. o[1] \in Runs /\ o[2] \in 1 .. Len(log[o[1]])
  BY Typed DEF Ordered, Logged
<1>2. Len(log[o[1]]) \in Nat /\ Len(log'[o[1]]) \in Nat /\ Len(log[o[1]]) <= Len(log'[o[1]])
  BY <1>1, Typed DEF Grown
<1>3. ASSUME NEW t \in 1 .. Len(log[o[1]]), t # o[2] PROVE ~SameName(o[1], t, o[2])
  <2>1. t \in 1 .. Len(log'[o[1]])
    BY <1>2
  <2>2. ~SameName(o[1], t, o[2])'
    BY <1>3, <2>1 DEF Traceable
  <2>3. QED
    BY <1>1, <2>2, SameNameGrown
<1>4. QED
  BY <1>3 DEF Traceable

\* A step that accounts for what it does keeps the files in agreement.
LEMMA AccountsFiled ==
  ASSUME Shape, Shape', Ordered, Filed, Apart, Grown, AccountsSome
  PROVE  Filed' /\ Apart'
<1>1. PICK K, S, N \in SUBSET Seqs : Accounts(K, S, N)
  BY DEF AccountsSome
<1>2. /\ run' = run /\ (Up' <=> Up)
      /\ learned' = learned \cup K /\ settled' = settled \cup S
      /\ K \subseteq N /\ tenant' \cap overdue' = {}
      /\ \A n \in N : Up /\ n \notin learned \cup settled' /\ <<run, n>> \notin tenant \cup overdue
  BY <1>1 DEF Accounts, Up
<1>3. \A r \in Runs :
        /\ disk'[r].present = disk[r].present
        /\ r # run => disk'[r].known = disk[r].known /\ disk'[r].closed = disk[r].closed
        /\ r = run => /\ disk'[r].known \subseteq disk[r].known \cup K
                      /\ disk'[r].closed \subseteq disk[r].closed \cup S
  BY <1>1 DEF Accounts
<1>4. /\ \A o \in tenant' : o \in tenant \cup overdue \/ \E n \in N : o = <<run, n>>
      /\ \A o \in overdue' : o \in overdue \/ \E n \in N \ K : o = <<run, n>>
  BY <1>1 DEF Accounts
<1>5. \A s \in S : \/ <<run, s>> \notin tenant' \cup overdue'
                   \/ Traceable(<<run, s>>)' => <<run, s>> \notin tenant'
  BY <1>1 DEF Accounts
<1>6. /\ Up => /\ run \in Runs /\ disk[run].present
               /\ disk[run].known \subseteq learned /\ disk[run].closed \subseteq settled
               /\ \A o \in overdue : o[1] = run => o[2] \notin learned
      /\ \A o \in tenant \cup overdue : o[1] \in Runs /\ o = <<o[1], o[2]>>
      /\ \A o \in overdue : o[2] \notin disk[o[1]].known
  BY Typed DEF Filed
<1>7. Apart'
  BY <1>2 DEF Apart
<1>8. Up' => /\ disk'[run'].present
             /\ disk'[run'].known \subseteq learned' /\ disk'[run'].closed \subseteq settled'
             /\ \A o \in overdue' : o[1] = run' => o[2] \notin learned'
  <2> SUFFICES ASSUME Up
               PROVE  /\ disk'[run].present
                      /\ disk'[run].known \subseteq learned' /\ disk'[run].closed \subseteq settled'
                      /\ \A o \in overdue' : o[1] = run => o[2] \notin learned'
    BY <1>2
  <2>1. disk'[run].present /\ disk'[run].known \subseteq learned' /\ disk'[run].closed \subseteq settled'
    BY <1>2, <1>3, <1>6
  <2>2. ASSUME NEW o \in overdue', o[1] = run PROVE o[2] \notin learned'
    <3>1. CASE o \in overdue
      <4>1. o = <<run, o[2]>> /\ o[2] \notin learned
        BY <1>6, <2>2, <3>1
      <4>2. o[2] \notin N
        BY <1>2, <3>1, <4>1
      <4>3. QED
        BY <1>2, <4>1, <4>2
    <3>2. CASE o \notin overdue
      <4>1. PICK n \in N \ K : o = <<run, n>>
        BY <1>4, <3>2
      <4>2. QED
        BY <1>2, <4>1
    <3>3. QED
      BY <3>1, <3>2
  <2>3. QED
    BY <2>1, <2>2
<1>9. ASSUME NEW o \in overdue' PROVE o[2] \notin disk'[o[1]].known
  <2>1. CASE o \in overdue
    <3>1. o = <<o[1], o[2]>> /\ o[1] \in Runs /\ o[2] \notin disk[o[1]].known
      BY <1>6, <2>1
    <3>2. o[1] = run => o[2] \notin K
      BY <1>2, <2>1, <3>1
    <3>3. QED
      BY <1>3, <3>1, <3>2
  <2>2. CASE o \notin overdue
    <3>1. PICK n \in N \ K : o = <<run, n>>
      BY <1>4, <2>2
    <3>2. Up /\ run \in Runs
      BY <1>2, <1>6, <3>1
    <3>3. QED
      BY <1>2, <1>3, <1>6, <3>1, <3>2
  <2>3. QED
    BY <2>1, <2>2
<1>10. ASSUME NEW o \in tenant', Traceable(o)'
       PROVE  /\ disk'[o[1]].present /\ o[2] \notin disk'[o[1]].closed
              /\ Up' /\ o[1] = run' => o[2] \notin settled'
  <2>1. o[2] \in disk'[o[1]].known
    BY <1>10 DEF Traceable
  <2>2. CASE \E n \in N : o = <<run, n>>
    <3>1. PICK n \in N : o = <<run, n>>
      BY <2>2
    <3>2. o[1] = run /\ o[2] = n /\ run \in Runs /\ Up
      BY <1>2, <1>6, <3>1
    <3>3. QED
      BY <1>2, <1>3, <1>6, <3>1, <3>2
  <2>3. CASE o \in tenant /\ ~\E n \in N : o = <<run, n>>
    <3>1. o[1] \in Runs /\ o = <<o[1], o[2]>>
      BY <1>6, <2>3
    <3>2. o[2] \in disk[o[1]].known
      BY <1>2, <1>3, <2>1, <2>3, <3>1
    <3>3. /\ disk[o[1]].present /\ o[2] \notin disk[o[1]].closed
          /\ Up /\ o[1] = run => o[2] \notin settled
      BY <1>10, <2>3, <3>2, TraceableBefore DEF Filed
    <3>4. o[1] = run => o[2] \notin S
      <4> SUFFICES ASSUME o[1] = run PROVE o[2] \notin S
        OBVIOUS
      <4>1. o = <<run, o[2]>> /\ run' = run
        BY <1>2, <3>1
      <4>2. Traceable(<<run, o[2]>>)'
        BY <1>10, <4>1 DEF Traceable
      <4>3. QED
        BY <1>5, <1>10, <4>1, <4>2
    <3>5. QED
      BY <1>2, <1>3, <3>1, <3>3, <3>4
  <2>4. CASE o \in overdue /\ ~\E n \in N : o = <<run, n>>
    <3>1. o[1] \in Runs /\ o = <<o[1], o[2]>> /\ o[2] \notin disk[o[1]].known
      BY <1>6, <2>4
    <3>2. QED
      BY <1>2, <1>3, <2>1, <2>4, <3>1
  <2>5. QED
    BY <1>4, <2>2, <2>3, <2>4
<1>11. QED
  BY <1>7, <1>8, <1>9, <1>10 DEF Filed

\* What the first theorem rests on.
Account ==
  /\ Apart
  /\ Gathered
  /\ Filed
  /\ Replayed

\* The files a step of the process removes: one whose replay went well, and the
\* run's own when nothing is outstanding.
LEMMA RemovalFiled ==
  ASSUME Shape, Shape', Ordered, Lines, Account, CloseFile \/ Finish
  PROVE  Filed' /\ Apart'
<1>1. /\ tenant' = tenant /\ overdue' = overdue /\ run' = run /\ log' = log /\ Grown
      /\ disk \in [Runs -> LedgerFile]
  <2>1. /\ tenant' = tenant /\ overdue' = overdue /\ run' = run /\ log' = log
    BY DEF CloseFile, Finish, Exit, worldVars
  <2>2. QED
    BY <2>1, SameLogs, Typed
<1>2. /\ Apart /\ Filed /\ Fresh /\ (Up => run \in Runs)
      /\ file # 0 /\ clean => \A o \in tenant : Traceable(o) /\ o[1] = file => o[2] \in todo
      /\ \A o \in tenant \cup overdue : o[1] \in Runs
  BY Typed DEF Account, Lines, Replayed
<1>3. ASSUME NEW g \in Runs, disk' = [disk EXCEPT ![g].present = FALSE],
             \A o \in tenant : Traceable(o) => o[1] # g, phase' # "down" => g # run,
             phase' = "down" \/ (phase' = phase /\ learned' = learned /\ settled' = settled)
      PROVE  Filed'
  <2>1. \A r \in Runs : /\ disk'[r].known = disk[r].known /\ disk'[r].closed = disk[r].closed
                        /\ r # g => disk'[r].present = disk[r].present
    <3> SUFFICES ASSUME NEW r \in Runs
                 PROVE  /\ disk'[r].known = disk[r].known /\ disk'[r].closed = disk[r].closed
                        /\ r # g => disk'[r].present = disk[r].present
      OBVIOUS
    <3>1. disk[r] \in LedgerFile /\ disk'[r] = IF r = g THEN [disk[r] EXCEPT !.present = FALSE] ELSE disk[r]
      BY <1>1, <1>3
    <3>2. QED
      BY <3>1 DEF LedgerFile
  <2>2. Up' => /\ disk'[run'].present
               /\ disk'[run'].known \subseteq learned' /\ disk'[run'].closed \subseteq settled'
               /\ \A o \in overdue' : o[1] = run' => o[2] \notin learned'
    BY <1>1, <1>2, <1>3, <2>1 DEF Up, Filed
  <2>3. \A o \in overdue' : o[2] \notin disk'[o[1]].known
    BY <1>1, <1>2, <2>1 DEF Filed
  <2>4. ASSUME NEW o \in tenant', Traceable(o)'
        PROVE  /\ disk'[o[1]].present /\ o[2] \notin disk'[o[1]].closed
               /\ Up' /\ o[1] = run' => o[2] \notin settled'
    <3>1. o \in tenant /\ o[1] \in Runs /\ o[2] \in disk[o[1]].known
      BY <1>1, <1>2, <2>1, <2>4 DEF Traceable
    <3>2. Traceable(o)
      BY <1>1, <2>4, <3>1, TraceableBefore
    <3>3. QED
      BY <1>1, <1>2, <1>3, <2>1, <3>1, <3>2 DEF Filed, Up
  <2>5. QED
    BY <2>2, <2>3, <2>4 DEF Filed
<1>4. ASSUME disk' = disk,
             phase' = "down" \/ (phase' = phase /\ learned' = learned /\ settled' = settled)
      PROVE  Filed'
  <2>1. ASSUME NEW o \in tenant', Traceable(o)'
        PROVE  Traceable(o)
    <3>1. o \in tenant /\ o[2] \in disk[o[1]].known
      BY <1>1, <1>4, <2>1 DEF Traceable
    <3>2. QED
      BY <1>1, <2>1, <3>1, TraceableBefore
  <2>2. QED
    BY <1>1, <1>2, <1>4, <2>1 DEF Filed, Up
<1>5. Apart'
  BY <1>1, <1>2 DEF Apart
<1>6. CASE CloseFile
  <2>1. /\ file # 0 /\ todo = {} /\ phase' = phase /\ learned' = learned /\ settled' = settled
        /\ file \in Runs /\ file # run
    BY <1>2, <1>6 DEF CloseFile, memoryVars, Shape, TypeOK, Runs, Fresh
  <2>2. CASE clean
    <3>1. disk' = [disk EXCEPT ![file].present = FALSE]
      BY <1>6, <2>2 DEF CloseFile
    <3>2. \A o \in tenant : Traceable(o) => o[1] # file
      BY <1>2, <2>1, <2>2
    <3>3. QED
      BY <1>3, <1>5, <2>1, <3>1, <3>2
  <2>3. CASE ~clean
    <3>1. disk' = disk
      BY <1>6, <2>3 DEF CloseFile
    <3>2. QED
      BY <1>4, <1>5, <2>1, <3>1
  <2>4. QED
    BY <2>2, <2>3
<1>7. CASE Finish
  <2>1. phase' = "down" /\ Up
    BY <1>7 DEF Finish, Exit, Up
  <2>2. CASE Outstanding = {}
    <3>1. \A o \in tenant : Traceable(o) => o[1] # run
      <4> SUFFICES ASSUME NEW o \in tenant, Traceable(o), o[1] = run PROVE FALSE
        OBVIOUS
      <4>1. o[2] \notin settled /\ o[2] \in 1 .. Len(log[run])
        BY <1>2, <2>1 DEF Filed, Ordered, Logged
      <4>2. QED
        BY <2>2, <4>1 DEF Outstanding
    <3>2. disk' = [disk EXCEPT ![run].present = FALSE]
      BY <1>7, <2>2 DEF Finish, Exit
    <3>3. QED
      BY <1>2, <1>3, <1>5, <2>1, <3>1, <3>2
  <2>3. CASE Outstanding # {}
    <3>1. disk' = disk
      BY <1>7, <2>3 DEF Finish, Exit
    <3>2. QED
      BY <1>4, <1>5, <2>1, <3>1
  <2>4. QED
    BY <2>2, <2>3
<1>8. QED
  BY <1>6, <1>7

\* A kill: what was in the air may be made later, and nothing had learned its id.
LEMMA CrashFiled ==
  ASSUME Shape, Shape', Ordered, Lines, Account, Crash
  PROVE  Filed' /\ Apart'
<1>1. /\ phase' = "down" /\ run' = run /\ log' = log /\ Grown /\ phase # "down" /\ run \in Runs
      /\ disk \in [Runs -> LedgerFile]
  BY SameLogs, Typed DEF Crash, Up
<1>2. Filed /\ Apart /\ \A o \in tenant \cup overdue : o[1] \in Runs
  BY Typed DEF Account
<1>3. \A r \in Runs : /\ disk'[r].known = disk[r].known /\ disk'[r].closed = disk[r].closed
                      /\ disk'[r].present = disk[r].present
  <2>1. CASE disk' = disk
    BY <2>1
  <2>2. CASE disk' = [disk EXCEPT ![run] = Torn(@)]
    <3> SUFFICES ASSUME NEW r \in Runs
                 PROVE  /\ disk'[r].known = disk[r].known /\ disk'[r].closed = disk[r].closed
                        /\ disk'[r].present = disk[r].present
      OBVIOUS
    <3>1. disk[r] \in LedgerFile /\ disk'[r] = IF r = run THEN Torn(disk[r]) ELSE disk[r]
      BY <1>1, <2>2
    <3>2. QED
      BY <3>1 DEF LedgerFile, Torn
  <2>3. QED
    BY <2>1, <2>2 DEF Crash
<1>4. PICK n : /\ \A o \in tenant' : o \in tenant \/ o = n
               /\ \A o \in overdue' : o \in overdue \/ o = n
               /\ tenant' \cap overdue' = {}
               /\ n \in tenant' => n \in tenant \/ n[2] \notin disk[n[1]].known
               /\ n \in overdue' => n \in overdue \/ n[2] \notin disk[n[1]].known
  <2>1. CASE \E e \in Entities : at[e] = "wait"
    <3> DEFINE d == CHOOSE e \in Entities : at[e] = "wait"
               n == <<run, slot[d]>>
    <3>1. d \in Entities /\ at[d] = "wait" /\ Unlearned(n, ParentReached(d))
      BY <2>1 DEF Crash
    <3> HIDE DEF d
    <3>2. Lineage
      BY <3>1 DEF Lines, Ordered, Rested, AllIdle
    <3>3. slot[d] \notin learned /\ n \notin tenant \cup overdue
      BY <3>1, <3>2 DEF Lineage
    <3>4. n[2] \notin disk[n[1]].known
      BY <1>1, <1>2, <3>3 DEF Filed, Up
    <3> HIDE DEF n
    <3>5. /\ \A o \in tenant' : o \in tenant \/ o = n
          /\ \A o \in overdue' : o \in overdue \/ o = n
          /\ tenant' \cap overdue' = {}
      BY <1>2, <3>1, <3>3 DEF Unlearned, Apart, worldVars
    <3>6. QED
      BY <3>4, <3>5
  <2>2. CASE ~\E e \in Entities : at[e] = "wait"
    <3>1. tenant' = tenant /\ overdue' = overdue
      BY <2>2 DEF Crash, worldVars
    <3>2. CASE tenant \cup overdue = {}
      BY <3>1, <3>2
    <3>3. CASE tenant \cup overdue # {}
      BY <1>2, <3>1, <3>3 DEF Apart
    <3>4. QED
      BY <3>2, <3>3
  <2>3. QED
    BY <2>1, <2>2
<1>5. \A o \in tenant' \cup overdue' : o[1] \in Runs
  BY DEF Shape, TypeOK
<1>6. ASSUME NEW o \in overdue' PROVE o[2] \notin disk'[o[1]].known
  <2>1. o[1] \in Runs
    BY <1>5, <1>6
  <2>2. CASE o \in overdue
    BY <1>2, <1>3, <2>1, <2>2 DEF Filed
  <2>3. CASE o \notin overdue
    BY <1>3, <1>4, <1>6, <2>1, <2>3 DEF Apart
  <2>4. QED
    BY <2>2, <2>3
<1>7. ASSUME NEW o \in tenant', Traceable(o)'
      PROVE  disk'[o[1]].present /\ o[2] \notin disk'[o[1]].closed
  <2>1. o[1] \in Runs /\ o[2] \in disk[o[1]].known
    BY <1>3, <1>5, <1>7 DEF Traceable
  <2>2. o \in tenant
    BY <1>2, <1>4, <2>1 DEF Filed
  <2>3. QED
    BY <1>1, <1>2, <1>3, <1>7, <2>1, <2>2, TraceableBefore DEF Filed
<1>8. QED
  BY <1>1, <1>4, <1>6, <1>7 DEF Filed, Apart, Up

\* A start: the run's number is new, and so is its file.
LEMMA StartFiled ==
  ASSUME Shape, Shape', Ordered, Lines, Account, Start
  PROVE  Filed' /\ Apart'
<1>1. /\ phase' = "prior" /\ run' = run + 1 /\ log' = log /\ Grown /\ run' \in Runs /\ run \in Nat
      /\ learned' = {} /\ settled' = {} /\ tenant' = tenant /\ overdue' = overdue
      /\ disk \in [Runs -> LedgerFile] /\ disk' = [disk EXCEPT ![run + 1].present = TRUE]
  BY SameLogs, Typed, PlanAssumption DEF Start, Rest, worldVars, Runs
<1>2. Filed /\ Apart /\ \A o \in tenant \cup overdue : o[1] \in Runs
  BY Typed DEF Account
<1>3. \A r \in Runs : /\ disk'[r].known = disk[r].known /\ disk'[r].closed = disk[r].closed
                      /\ disk'[r].present = (disk[r].present \/ r = run')
  <2> SUFFICES ASSUME NEW r \in Runs
               PROVE  /\ disk'[r].known = disk[r].known /\ disk'[r].closed = disk[r].closed
                      /\ disk'[r].present = (disk[r].present \/ r = run')
    OBVIOUS
  <2>1. /\ disk[r] \in LedgerFile
        /\ disk'[r] = IF r = run' THEN [disk[r] EXCEPT !.present = TRUE] ELSE disk[r]
    BY <1>1
  <2>2. QED
    BY <2>1 DEF LedgerFile
<1>4. disk[run'].known = {} /\ disk[run'].closed = {}
  BY <1>1 DEF Lines, Fresh
<1>5. ASSUME NEW o \in tenant', Traceable(o)'
      PROVE  disk'[o[1]].present /\ o[2] \notin disk'[o[1]].closed
  <2>1. o \in tenant /\ o[1] \in Runs /\ o[2] \in disk[o[1]].known
    BY <1>1, <1>2, <1>3, <1>5 DEF Traceable
  <2>2. QED
    BY <1>1, <1>2, <1>3, <1>5, <2>1, TraceableBefore DEF Filed
<1>6. \A o \in overdue' : o[2] \notin disk'[o[1]].known
  BY <1>1, <1>2, <1>3 DEF Filed
<1>7. /\ disk'[run'].present /\ disk'[run'].known \subseteq learned' /\ disk'[run'].closed \subseteq settled'
  BY <1>1, <1>3, <1>4
<1>8. QED
  BY <1>1, <1>2, <1>5, <1>6, <1>7 DEF Filed, Apart

\* Every step keeps the files in agreement.
LEMMA FiledStep ==
  ASSUME Shape, Shape', Ordered, Lines, Account, Next
  PROVE  Filed' /\ Apart'
<1>1. Filed /\ Apart /\ Gathered /\ Rooted /\ Fresh
  BY DEF Account, Lines
<1>2. CASE CloseFile \/ Finish
  BY <1>2, RemovalFiled
<1>3. CASE Crash \/ Start
  BY <1>3, CrashFiled, StartFiled
<1>4. CASE \E o \in overdue : CarryOut(o)
  <2>1. AccountsSome /\ log' = log
    BY <1>1, <1>4, CarryOutAccounts DEF CarryOut
  <2>2. QED
    BY <1>1, <2>1, SameLogs, AccountsFiled
<1>5. CASE ProcessStep /\ ~CloseFile /\ ~Finish
  <2>1. Grown
    BY <1>1, <1>5, RootedStep
  <2>2. AccountsSome
    BY <1>1, <1>5, ProgramAccounts, CleanupAccounts DEF ProcessStep
  <2>3. QED
    BY <1>1, <2>1, <2>2, AccountsFiled
<1>6. QED
  BY <1>2, <1>3, <1>4, <1>5 DEF Next

\* A delete takes no other object at the root of a collection with it.
LEMMA RootsStay ==
  ASSUME Shape, NEW o \in tenant, NEW p \in tenant, p # o, log[p[1]][p[2]].under = 0
  PROVE  p \in Without(o)
<1>1. o[2] # 0
  BY DEF Shape, TypeOK, Seqs
<1>2. QED
  BY <1>1 DEF Without

\* What a listing returned stays until the pass has deleted it.
LEMMA GatheredStep ==
  ASSUME Shape, Ordered, Lines, Account, Next
  PROVE  Gathered'
<1>1. /\ Rooted /\ Fresh
      /\ ~Listing => found = {}
      /\ \A o \in found : o \in tenant /\ log[o[1]][o[2]].under = 0
  BY DEF Lines, Account, Gathered
<1>2. CASE Start \/ Crash \/ Finish
  BY <1>2 DEF Start, Crash, Finish, Exit, Rest, Gathered
<1>3. CASE \E o \in overdue : CarryOut(o)
  BY <1>1, <1>3 DEF CarryOut, passVars, Gathered, Listing
<1>4. CASE ProgramStep
  <2>1. found' = {}
    BY <1>1, <1>4, ProgramTurn DEF Stepping, Listing
  <2>2. QED
    BY <2>1 DEF Gathered
<1>5. CASE ListCollection
  <2>1. Listing /\ phase' = phase /\ UNCHANGED <<log, tenant>>
    BY <1>5 DEF ListCollection, worldVars
  <2>2. \A o \in found' : o \in Carrying(current) /\ Listable(current)
    BY <1>5 DEF ListCollection
  <2>3. ASSUME NEW o \in found' PROVE o \in tenant /\ log[o[1]][o[2]].under = 0
    <3>1. o \in tenant /\ Parent[log[o[1]][o[2]].ent] = 0
      BY <2>2, <2>3 DEF Carrying, InCollection, EntityOf, Listable
    <3>2. o[1] \in Runs /\ o[2] \in 1 .. Len(log[o[1]])
      BY <3>1, Typed DEF Ordered, Logged
    <3>3. QED
      BY <1>1, <3>1, <3>2 DEF Rooted
  <2>4. QED
    BY <2>1, <2>3 DEF Gathered, Listing
<1>6. ASSUME NEW o \in found, PrefixFailed(o) \/ \E w \in Writes : PrefixGone(o, w) PROVE Gathered'
  <2>1. /\ Listing /\ phase' = phase /\ log' = log /\ found' = found \ {o} /\ o \in tenant
        /\ tenant' = tenant \/ tenant' = Without(o)
    BY <1>1, <1>6 DEF PrefixFailed, PrefixGone
  <2>2. \A p \in found' : p \in tenant' /\ log'[p[1]][p[2]].under = 0
    BY <1>1, <2>1, RootsStay
  <2>3. QED
    BY <2>1, <2>2 DEF Gathered, Listing
<1>7. CASE CleanupStep /\ ~ListCollection /\ ~Finish
           /\ ~\E o \in found : PrefixFailed(o) \/ \E w \in Writes : PrefixGone(o, w)
  <2>1. found' = {}
    BY <1>1, <1>7 DEF CleanupStep, SkipFile, OpenFile, ReplayNameless, ReplayGone, ReplayFailed,
       CloseFile, LeavePrior, OwnNameless, OwnGone, OwnFailed, LeaveOwn, BeginSteps, PrefixDone,
       Replaying, Listing, Fresh, passVars
  <2>2. QED
    BY <2>1 DEF Gathered
<1>8. QED
  BY <1>2, <1>3, <1>4, <1>5, <1>6, <1>7 DEF Next, ProcessStep, CleanupStep

\* A replay drops no traceable object it has not deleted, or it is not clean.
LEMMA ReplayedStep ==
  ASSUME Shape, Shape', Ordered, Lines, Account, Next
  PROVE  Replayed'
<1>1. /\ Rooted /\ Fresh /\ Filed
      /\ file # 0 /\ clean => \A o \in tenant : Traceable(o) /\ o[1] = file => o[2] \in todo
  BY DEF Lines, Account, Replayed
<1>2. CASE Start \/ Crash \/ Finish \/ CloseFile \/ LeavePrior
  BY <1>2 DEF Start, Crash, Finish, Exit, Rest, CloseFile, LeavePrior, Replayed, passVars
<1>3. CASE ProgramStep
  <2>1. file' = 0
    BY <1>1, <1>3, ProgramTurn DEF Fresh, Stepping
  <2>2. QED
    BY <2>1 DEF Replayed
<1>4. ASSUME log' = log, disk' = disk, NEW o \in tenant, Traceable(o)'
      PROVE  Traceable(o)
  BY <1>4, SameLogs, TraceableBefore DEF Traceable
<1>5. CASE \E o \in overdue : CarryOut(o)
  <2>1. /\ UNCHANGED <<log, disk, file, clean, todo>>
        /\ \A o \in tenant' : o \in tenant \/ o \in overdue
    BY <1>5 DEF CarryOut, passVars
  <2>2. \A o \in tenant' : Traceable(o)' => o \in tenant
    BY <1>1, <2>1 DEF Filed, Traceable
  <2>3. QED
    BY <1>1, <1>4, <2>1, <2>2 DEF Replayed
<1>6. ASSUME NEW r \in Runs, OpenFile(r) PROVE Replayed'
  <2>1. /\ UNCHANGED <<log, disk, tenant>> /\ file' = r /\ todo' = OutstandingIn(disk[r])
    BY <1>6 DEF OpenFile, worldVars
  <2>2. ASSUME NEW o \in tenant', Traceable(o)', o[1] = file' PROVE o[2] \in todo'
    <3>1. o \in tenant /\ Traceable(o) /\ o[1] = r
      BY <1>4, <2>1, <2>2
    <3>2. QED
      BY <1>1, <2>1, <3>1 DEF Filed, Traceable, OutstandingIn
  <2>3. QED
    BY <2>2 DEF Replayed
<1>7. CASE ReplayNameless \/ ReplayGone \/ ReplayFailed
  <2> DEFINE s == Newest(todo)
  <2>1. /\ UNCHANGED <<log, disk, file>> /\ todo' = todo \ {s} /\ file # 0
        /\ tenant' \subseteq tenant /\ (clean' => clean)
        /\ clean' => s \notin disk[file].known \/ tenant' = Without(<<file, s>>)
    <3>1. CASE ReplayNameless
      BY <3>1 DEF ReplayNameless, Replaying, worldVars
    <3>2. CASE ReplayGone
      BY <3>2, WithoutLess DEF ReplayGone, Replaying
    <3>3. CASE ReplayFailed
      BY <3>3, WithoutLess DEF ReplayFailed, Replaying
    <3>4. QED
      BY <1>7, <3>1, <3>2, <3>3
  <2> HIDE DEF s
  <2>2. ASSUME clean', NEW o \in tenant', Traceable(o)', o[1] = file' PROVE o[2] \in todo'
    <3>1. o \in tenant /\ Traceable(o) /\ o[1] = file /\ o = <<o[1], o[2]>>
      BY <1>4, <2>1, <2>2, Typed
    <3>2. o[2] \in todo
      BY <1>1, <2>1, <2>2, <3>1
    <3>3. o[2] # s
      BY <2>1, <2>2, <3>1, WithoutLess DEF Traceable
    <3>4. QED
      BY <2>1, <3>2, <3>3
  <2>3. QED
    BY <2>2 DEF Replayed
<1>8. CASE OwnNameless \/ (\E w \in Writes : OwnGone(w)) \/ OwnFailed \/ LeaveOwn \/ ListCollection
           \/ (\E o \in found, w \in Writes : PrefixGone(o, w)) \/ (\E o \in found : PrefixFailed(o))
           \/ BeginSteps
  <2>1. phase # "prior" /\ file' = file
    BY <1>8 DEF OwnNameless, OwnGone, OwnFailed, LeaveOwn, ListCollection, PrefixGone, PrefixFailed,
       BeginSteps, Listing, passVars
  <2>2. QED
    BY <1>1, <2>1 DEF Replayed, Fresh
<1>9. ASSUME NEW r \in Runs, SkipFile(r) PROVE Replayed'
  BY <1>9 DEF SkipFile, Replayed
<1>10. QED
  BY <1>2, <1>3, <1>5, <1>6, <1>7, <1>8, <1>9 DEF Next, ProcessStep, CleanupStep

\* Together: the invariant of a run's accounts.
AccountShape == Shape /\ Ordered /\ Lines /\ Account

LEMMA AccountInit == Init => AccountShape
<1> SUFFICES ASSUME Init PROVE Lines /\ Account
  BY ShapeInit, OrderedInit DEF AccountShape
<1>1. /\ phase = "down" /\ run = 0 /\ log = [r \in Runs |-> <<>>] /\ tenant = {} /\ overdue = {}
      /\ disk = [r \in Runs |-> EmptyFile] /\ queue = {} /\ file = 0 /\ found = {}
  BY DEF Init
<1>2. Lines
  BY <1>1 DEF Lines, Rooted, Fresh, Up, EmptyFile
<1>3. Account
  BY <1>1 DEF Account, Apart, Gathered, Filed, Replayed, Up
<1>4. QED
  BY <1>2, <1>3

LEMMA AccountStep == AccountShape /\ [Next]_vars => AccountShape'
<1> SUFFICES ASSUME AccountShape, [Next]_vars PROVE AccountShape'
  OBVIOUS
<1>1. Shape /\ Ordered /\ Lines /\ Account /\ Shape' /\ Ordered' /\ Lines'
  BY OrderedStep, LinesStep DEF AccountShape, OrderedShape
<1>2. CASE UNCHANGED vars
  <2>1. UNCHANGED <<phase, run, log, learned, settled, disk, tenant, overdue, file, clean, todo, found>>
    BY <1>2 DEF vars, memoryVars, worldVars, passVars
  <2>2. \A o : Traceable(o)' <=> Traceable(o)
    BY <2>1 DEF Traceable, SameName, EntityOf
  <2>3. Account'
    BY <1>1, <2>1, <2>2 DEF Account, Apart, Gathered, Filed, Replayed, Up, Listing
  <2>4. QED
    BY <1>1, <2>3 DEF AccountShape
<1>3. CASE Next
  <2>1. Account'
    BY <1>1, <1>3, FiledStep, GatheredStep, ReplayedStep DEF Account
  <2>2. QED
    BY <1>1, <2>1 DEF AccountShape
<1>4. QED
  BY <1>2, <1>3

\* "A file with outstanding entries is kept": for every plan, every bound and all
\* faults, kills and torn lines among them, an object that exists, whose id its
\* run's file holds and whose name is its own is outstanding in a file that is
\* still there, so that a later run deletes it by id (cleanup.go, ledger.go).
THEOREM KnownStaysRecorded == Spec => []TraceableStaysRecorded
<1>1. AccountShape => TraceableStaysRecorded
  BY DEF AccountShape, Account, Filed, TraceableStaysRecorded, Traceable, OutstandingIn
<1>2. QED
  BY <1>1, AccountInit, AccountStep, PTL DEF Spec

-----------------------------------------------------------------------------
\* The objects and the outstanding entries of this run that bear an entry's name.
Bearers(t) == {o \in Objects(run) : Named(run, o[2]) /\ SameName(run, o[2], t)}
Entries(t) == {s \in Outstanding : Named(run, s) /\ SameName(run, s, t)}

\* Until the last prefix pass no object's entry is settled; from there on names count.
Unsettled == \A o \in tenant \cup overdue : o[1] = run => o[2] \notin settled

Balanced ==
  /\ phase \in {"steps", "own"} => Unsettled
  /\ phase = "endPrefix" => NameAccount

\* The account of names, told with the sets it counts.
LEMMA NamesCounted ==
  NameAccount <=>
    (run # 0 /\ phase # "down" =>
       \A t \in 1 .. Len(log[run]) : Named(run, t) => Cardinality(Bearers(t)) <= Cardinality(Entries(t)))
  BY DEF NameAccount, Bearers, Entries

\* There are finitely many of either.
LEMMA NamesFinite ==
  ASSUME Shape, run \in Runs
  PROVE  /\ IsFiniteSet(tenant \cup overdue) /\ IsFiniteSet(Outstanding)
         /\ \A t : /\ IsFiniteSet(Bearers(t)) /\ IsFiniteSet(Entries(t))
                   /\ Cardinality(Bearers(t)) \in Nat /\ Cardinality(Entries(t)) \in Nat
<1>1. IsFiniteSet(Runs \X Seqs) /\ IsFiniteSet(Seqs)
  <2>1. IsFiniteSet(Runs) /\ IsFiniteSet(Seqs)
    BY FS_Interval, PlanAssumption DEF Runs, Seqs
  <2>2. QED
    BY <2>1, FS_Product
<1>2. tenant \cup overdue \in SUBSET (Runs \X Seqs) /\ Outstanding \in SUBSET Seqs
  BY OutstandingType DEF Shape, TypeOK
<1>3. IsFiniteSet(tenant \cup overdue) /\ IsFiniteSet(Outstanding)
  BY <1>1, <1>2, FS_Subset
<1>4. ASSUME NEW t
      PROVE  /\ IsFiniteSet(Bearers(t)) /\ IsFiniteSet(Entries(t))
             /\ Cardinality(Bearers(t)) \in Nat /\ Cardinality(Entries(t)) \in Nat
  <2>1. Bearers(t) \in SUBSET (tenant \cup overdue) /\ Entries(t) \in SUBSET Outstanding
    BY DEF Bearers, Entries, Objects
  <2>2. IsFiniteSet(Bearers(t)) /\ IsFiniteSet(Entries(t))
    BY <1>3, <2>1, FS_Subset
  <2>3. QED
    BY <2>2, FS_CardinalityType
<1>5. QED
  BY <1>3, <1>4

\* As long as no object's entry is settled, each object has one of its own.
LEMMA UnsettledCounted ==
  ASSUME Shape, Ordered, Up, Unsettled
  PROVE  NameAccount
<1>1. run \in Runs /\ \A o \in tenant \cup overdue : o = <<o[1], o[2]>> /\ o[1] \in Runs
  BY Typed
<1>2. ASSUME NEW t \in 1 .. Len(log[run])
      PROVE  Cardinality(Bearers(t)) <= Cardinality(Entries(t))
  <2> DEFINE f == [o \in Bearers(t) |-> o[2]]
  <2>1. \A o \in Bearers(t) : o \in tenant \cup overdue /\ o[1] = run /\ o = <<run, o[2]>>
                              /\ Named(run, o[2]) /\ SameName(run, o[2], t)
    BY <1>1 DEF Bearers, Objects
  <2>2. \A o \in Bearers(t) : o[2] \in Entries(t)
    BY <2>1 DEF Ordered, Logged, Unsettled, Entries, Outstanding
  <2>3. f \in Injection(Bearers(t), Entries(t))
    BY <2>1, <2>2 DEF Injection, IsInjective
  <2>4. IsFiniteSet(Entries(t))
    BY <1>1, NamesFinite
  <2> HIDE DEF f
  <2>5. QED
    BY <2>3, <2>4, FS_Injection
<1>3. QED
  BY <1>2, NamesCounted

\* Fewer objects and the same entries keep the account.
LEMMA FewerCounted ==
  ASSUME Shape, NameAccount, Up, UNCHANGED <<run, log, settled>>,
         tenant' \cup overdue' \subseteq tenant \cup overdue
  PROVE  NameAccount'
<1>1. run \in Runs /\ run # 0
  BY Typed DEF Runs
<1>2. \A s, t : (SameName(run, s, t)' <=> SameName(run, s, t)) /\ (Named(run, s)' <=> Named(run, s))
  BY DEF SameName, Named, EntityOf
<1>3. ASSUME NEW t \in 1 .. Len(log[run]), Named(run, t)
      PROVE  Cardinality(Bearers(t)') <= Cardinality(Entries(t)')
  <2>1. Entries(t)' = Entries(t)
    BY <1>2 DEF Entries, Outstanding
  <2>2. Bearers(t)' \in SUBSET Bearers(t)
    BY <1>2 DEF Bearers, Objects
  <2>3. /\ IsFiniteSet(Bearers(t)) /\ Cardinality(Bearers(t)) \in Nat /\ Cardinality(Entries(t)) \in Nat
        /\ Cardinality(Bearers(t)) <= Cardinality(Entries(t))
    BY <1>1, <1>3, NamesFinite, NamesCounted DEF Up
  <2>4. IsFiniteSet(Bearers(t)') /\ Cardinality(Bearers(t)') <= Cardinality(Bearers(t))
    BY <2>2, <2>3, FS_Subset
  <2>5. Cardinality(Bearers(t)') \in Nat
    BY <2>4, FS_CardinalityType
  <2>6. QED
    BY <2>1, <2>3, <2>4, <2>5
<1>4. QED
  BY <1>2, <1>3 DEF NameAccount, Bearers, Entries

\* An object deleted by name takes one entry of its name with it: of every name the
\* two counts go down together, or only the objects' does.
LEMMA PrefixGoneCounted ==
  ASSUME Shape, Ordered, Account, NameAccount, NEW o \in found, NEW w \in Writes, PrefixGone(o, w)
  PROVE  NameAccount'
<1> DEFINE H == Homonyms(o)
           n == Newest(H)
<1>1. /\ Up /\ o \in tenant /\ o \notin overdue /\ tenant' = Without(o)
      /\ settled' = settled \cup (IF H = {} THEN {} ELSE {n})
      /\ UNCHANGED <<run, log, overdue>>
  BY DEF PrefixGone, Listing, Up, Account, Gathered, Apart
<1>2. /\ tenant' \subseteq tenant /\ o \notin tenant' /\ run \in Runs /\ run # 0
  BY <1>1, WithoutLess, Typed DEF Runs
<1>3. CASE H = {}
  BY <1>1, <1>2, <1>3, FewerCounted
<1>4. CASE H # {}
  <2>1. H \subseteq Outstanding /\ Outstanding \subseteq Seqs
    BY <1>2, OutstandingType DEF Homonyms
  <2>2. n \in H
    BY <1>4, <2>1, NewestIsMax
  <2>3. o[1] = run /\ n \in Outstanding /\ Named(run, n) /\ SameName(run, n, o[2])
    BY <2>2 DEF Homonyms
  <2> HIDE DEF n, H
  <2>4. settled' = settled \cup {n}
    BY <1>1, <1>4
  <2>5. \A s, t : (SameName(run, s, t)' <=> SameName(run, s, t)) /\ (Named(run, s)' <=> Named(run, s))
    BY <1>1 DEF SameName, Named, EntityOf
  <2>6. ASSUME NEW t \in 1 .. Len(log[run]), Named(run, t)
        PROVE  Cardinality(Bearers(t)') <= Cardinality(Entries(t)')
    <3>1. Entries(t)' = Entries(t) \ {n}
      BY <1>1, <2>4, <2>5 DEF Entries, Outstanding
    <3>2. Bearers(t)' \in SUBSET (Bearers(t) \ {o})
      BY <1>1, <1>2, <2>5 DEF Bearers, Objects
    <3>3. /\ IsFiniteSet(Bearers(t)) /\ IsFiniteSet(Entries(t))
          /\ Cardinality(Bearers(t)) \in Nat /\ Cardinality(Entries(t)) \in Nat
          /\ Cardinality(Bearers(t)) <= Cardinality(Entries(t))
      BY <1>1, <1>2, <2>6, NamesFinite, NamesCounted DEF Up
    <3>4. /\ IsFiniteSet(Bearers(t) \ {o})
          /\ Cardinality(Bearers(t) \ {o}) =
               IF o \in Bearers(t) THEN Cardinality(Bearers(t)) - 1 ELSE Cardinality(Bearers(t))
          /\ Cardinality(Entries(t) \ {n}) =
               IF n \in Entries(t) THEN Cardinality(Entries(t)) - 1 ELSE Cardinality(Entries(t))
      BY <3>3, FS_RemoveElement
    <3>5. n \in Entries(t) => o \in Bearers(t)
      <4> SUFFICES ASSUME n \in Entries(t) PROVE o \in Bearers(t)
        OBVIOUS
      <4>1. SameName(run, n, t) /\ Named(run, n)
        BY DEF Entries
      <4>2. Named(run, o[2]) /\ SameName(run, o[2], t)
        BY <2>3, <4>1 DEF SameName, Named
      <4>3. QED
        BY <1>1, <2>3, <4>2 DEF Bearers, Objects
    <3>6. Cardinality(Bearers(t)') \in Nat /\ Cardinality(Bearers(t)') <= Cardinality(Bearers(t) \ {o})
      <4>1. IsFiniteSet(Bearers(t)') /\ Cardinality(Bearers(t)') <= Cardinality(Bearers(t) \ {o})
        BY <3>2, <3>4, FS_Subset
      <4>2. QED
        BY <4>1, FS_CardinalityType
    <3>7. QED
      BY <3>1, <3>3, <3>4, <3>5, <3>6
  <2>7. QED
    BY <1>1, <2>5, <2>6 DEF NameAccount, Bearers, Entries
<1>5. QED
  BY <1>3, <1>4

\* A step that accounts for what it does settles no object's entry but in a listing.
LEMMA AccountsUnsettled ==
  ASSUME Shape, Shape', ~Listing, Unsettled, AccountsSome
  PROVE  Unsettled'
<1>1. PICK K, S, N \in SUBSET Seqs : Accounts(K, S, N)
  BY DEF AccountsSome
<1>2. /\ run' = run /\ settled' = settled \cup S
      /\ \A o \in tenant' \cup overdue' : o \in tenant \cup overdue \/ \E n \in N : o = <<run, n>>
      /\ \A n \in N : n \notin settled'
      /\ \A s \in S : <<run, s>> \notin tenant' \cup overdue'
  BY <1>1 DEF Accounts
<1>3. ASSUME NEW o \in tenant' \cup overdue', o[1] = run PROVE o[2] \notin settled'
  <2>1. o = <<run, o[2]>>
    BY <1>3 DEF Shape, TypeOK
  <2>2. CASE o \in tenant \cup overdue
    BY <1>2, <1>3, <2>1, <2>2 DEF Unsettled
  <2>3. CASE \E n \in N : o = <<run, n>>
    BY <1>2, <2>3
  <2>4. QED
    BY <1>2, <1>3, <2>2, <2>3
<1>4. QED
  BY <1>2, <1>3 DEF Unsettled

\* Which step opens the entity programs, and which the last prefix pass.
LEMMA Turns ==
  ASSUME Lines, Next
  PROVE  /\ phase' \in {"steps", "own"} => phase \in {"steps", "own"} \/ BeginSteps
         /\ phase' = "endPrefix" => phase = "endPrefix" \/ LeaveOwn
         /\ (phase = "endPrefix" /\ phase' = "endPrefix") =>
              \/ ListCollection
              \/ \E o \in found : PrefixFailed(o) \/ \E w \in Writes : PrefixGone(o, w)
              \/ \E o \in overdue : CarryOut(o)
<1>1. CASE Start \/ Crash \/ Finish
  BY <1>1 DEF Start, Crash, Finish, Exit
<1>2. CASE \E o \in overdue : CarryOut(o)
  BY <1>2 DEF CarryOut
<1>3. CASE ProgramStep
  BY <1>3, ProgramTurn DEF Stepping
<1>4. CASE CleanupStep /\ ~Finish
  <2>1. file # 0 => phase = "prior"
    BY DEF Lines, Fresh
  <2>2. QED
    BY <1>4, <2>1 DEF CleanupStep, SkipFile, OpenFile, ReplayNameless, ReplayGone, ReplayFailed,
       CloseFile, LeavePrior, OwnNameless, OwnGone, OwnFailed, LeaveOwn, ListCollection, PrefixGone,
       PrefixFailed, BeginSteps, Replaying, Listing
<1>5. QED
  BY <1>1, <1>2, <1>3, <1>4 DEF Next, ProcessStep

\* Every step keeps the names balanced.
LEMMA BalancedStep ==
  ASSUME Shape, Shape', Ordered, Lines, Account, Balanced, Next
  PROVE  Balanced'
<1>1. /\ Filed /\ Apart /\ Gathered /\ Fresh
      /\ phase \in {"steps", "own"} => Unsettled
      /\ phase = "endPrefix" => NameAccount
  BY DEF Account, Lines, Balanced
<1>2. ASSUME phase' \in {"steps", "own"}, phase \in {"steps", "own"} PROVE Unsettled'
  <2>1. ~CloseFile /\ ~Finish /\ ~Start /\ ~Crash
    BY <1>1, <1>2 DEF CloseFile, Finish, Exit, Start, Crash, Fresh
  <2>2. AccountsSome
    BY <1>1, <2>1, ProgramAccounts, CleanupAccounts, CarryOutAccounts DEF Next, ProcessStep
  <2>3. QED
    BY <1>1, <1>2, <2>2, AccountsUnsettled DEF Listing
<1>3. CASE BeginSteps
  <2>1. phase = "startPrefix" /\ phase' = "steps"
        /\ UNCHANGED <<run, log, settled, tenant, overdue>>
    BY <1>3 DEF BeginSteps, memoryVars, worldVars
  <2>2. settled = {}
    BY <1>1, <2>1, Typed DEF Ordered, Rested, Fresh
  <2>3. QED
    BY <2>1, <2>2 DEF Balanced, Unsettled
<1>4. CASE LeaveOwn
  <2>1. phase = "own" /\ phase' = "endPrefix" /\ UNCHANGED <<run, log, settled, tenant, overdue>>
    BY <1>4 DEF LeaveOwn, memoryVars, worldVars
  <2>2. NameAccount
    BY <1>1, <2>1, UnsettledCounted DEF Up
  <2>3. NameAccount'
    BY <2>1, <2>2, FewerCounted DEF Up
  <2>4. QED
    BY <2>1, <2>3 DEF Balanced
<1>5. ASSUME phase = "endPrefix", phase' = "endPrefix" PROVE NameAccount'
  <2>1. CASE \E o \in found, w \in Writes : PrefixGone(o, w)
    BY <1>1, <1>5, <2>1, PrefixGoneCounted
  <2>2. CASE ListCollection \/ (\E o \in found : PrefixFailed(o)) \/ (\E o \in overdue : CarryOut(o))
    <3>1. /\ UNCHANGED <<run, log, settled>> /\ tenant' \cup overdue' \subseteq tenant \cup overdue
      BY <2>2, WithoutLess DEF ListCollection, PrefixFailed, CarryOut, memoryVars, worldVars
    <3>2. QED
      BY <1>1, <1>5, <3>1, FewerCounted DEF Up
  <2>3. QED
    BY <1>5, <2>1, <2>2, Turns
<1>6. QED
  BY <1>2, <1>3, <1>4, <1>5, Turns DEF Balanced

NamesShape == AccountShape /\ Balanced

LEMMA NamesInit == Init => NamesShape
  BY AccountInit DEF NamesShape, Balanced, Init

LEMMA NamesStep == NamesShape /\ [Next]_vars => NamesShape'
<1> SUFFICES ASSUME NamesShape, [Next]_vars PROVE NamesShape'
  OBVIOUS
<1>1. AccountShape /\ Balanced /\ AccountShape' /\ Shape /\ Shape' /\ Ordered /\ Lines /\ Account
  BY AccountStep DEF NamesShape, AccountShape
<1>2. CASE UNCHANGED vars
  <2>1. UNCHANGED <<phase, run, log, settled, tenant, overdue>>
    BY <1>2 DEF vars, memoryVars, worldVars
  <2>2. Balanced'
    BY <1>1, <2>1, FewerCounted DEF Balanced, Unsettled, Up
  <2>3. QED
    BY <1>1, <2>2 DEF NamesShape
<1>3. CASE Next
  BY <1>1, <1>3, BalancedStep DEF NamesShape
<1>4. QED
  BY <1>2, <1>3

\* Before the steps of a run its log is empty, and there are no names to count.
LEMMA NamesBalanced ==
  ASSUME NamesShape
  PROVE  NameAccount
<1>1. Shape /\ Ordered /\ Lines /\ Balanced
  BY DEF NamesShape, AccountShape
<1>2. CASE phase \in {"steps", "own"}
  BY <1>1, <1>2, UnsettledCounted DEF Balanced, Up
<1>3. CASE phase = "endPrefix"
  BY <1>1, <1>3 DEF Balanced
<1>4. CASE phase \in {"prior", "startPrefix"}
  <2>1. log[run] = <<>>
    BY <1>1, <1>4 DEF Lines, Fresh
  <2>2. QED
    BY <2>1 DEF NameAccount
<1>5. CASE phase = "down"
  BY <1>5 DEF NameAccount
<1>6. QED
  BY <1>1, <1>2, <1>3, <1>4, <1>5 DEF Shape, TypeOK, Phases

\* For every plan, every bound and all faults, the objects of a run that bear one
\* name are never more than its outstanding entries of that name: closing the
\* newest entry of a name when a prefix pass deletes an object of that name
\* (resolveByName, cleanup.go) loses count of none.
THEOREM NamesBalance == Spec => []NameAccount
  BY NamesInit, NamesStep, NamesBalanced, PTL DEF Spec

-----------------------------------------------------------------------------
\* An API that answers every delete and every listing and carries out no create
\* late, and a process nobody kills.
Calm == Faults \cap {"late", "stuck", "deaf", "blind", "crash"} = {}

\* An object nothing will ever find again.
Forgotten(o) ==
  o[2] \notin disk[o[1]].known /\ ~Named(o[1], o[2]) /\ log[o[1]][o[2]].under = 0

\* An object of this run lies under one that will be deleted by its id, if its
\* entity names a parent at all.
Sheltered(s) ==
  /\ Parent[EntOf(s)] # 0 => UnderOf(s) # 0
  /\ UnderOf(s) # 0 => UnderOf(s) \in learned \ settled

\* What the pass over the run's own ledger has still to reach; what the listings have.
Reached(s) ==
  /\ s \in learned => s \in todo
  /\ UnderOf(s) # 0 => UnderOf(s) \in todo

Loose(o) ==
  /\ o[2] \notin learned /\ UnderOf(o[2]) = 0 /\ Parent[EntOf(o[2])] = 0
  /\ Named(run, o[2]) /\ EntOf(o[2]) < current => o \in found

Level ==
  /\ overdue = {}
  /\ \A o \in tenant : o[1] # run \/ phase = "down" => Forgotten(o)
  /\ phase \in {"steps", "own"} => \A o \in tenant : o[1] = run => Sheltered(o[2])
  /\ phase = "own" => current = 1 /\ \A o \in tenant : o[1] = run => Reached(o[2])
  /\ phase = "endPrefix" => \A o \in tenant : o[1] = run => Loose(o)

\* Without late creates an unlearned one happens now or never.
LEMMA CalmUnlearned ==
  ASSUME Calm, NEW o, NEW possible, Unlearned(o, possible)
  PROVE  overdue' = overdue /\ (tenant' = tenant \/ (possible /\ tenant' = tenant \cup {o}))
  BY DEF Calm, Unlearned, worldVars

\* What a program step does when the API is calm.
LEMMA CalmProgram ==
  ASSUME Shape, Ordered, Lines, Account, Calm, ProgramStep
  PROVE  /\ overdue' = overdue /\ learned \subseteq learned'
         /\ \A o \in tenant' : o \in tenant \/
              \E e \in Entities : /\ at[e] = "wait" /\ o = <<run, slot[e]>> /\ ParentReached(e)
                                  /\ settled' = settled /\ log' = log
         /\ \/ settled' = settled
            \/ \E s : settled' = settled \cup {s} /\ (s \notin learned \/ tenant' = Without(<<run, s>>))
         /\ phase' = "own" =>
              current' = 1 /\ todo' = Outstanding /\ learned' = learned /\ settled' = settled
<1>1. /\ Stepping /\ Lineage
      /\ NextEntity /\ phase' = "own" => current' = 1 /\ todo' = Outstanding
  BY ProgramTurn DEF Lines, NextEntity, Stepping
<1>2. ASSUME UNCHANGED <<learned, settled, overdue>>, tenant' \subseteq tenant,
             NextEntity \/ phase' = phase
      PROVE  /\ overdue' = overdue /\ learned \subseteq learned'
             /\ \A o \in tenant' : o \in tenant
             /\ settled' = settled
             /\ phase' = "own" =>
                  current' = 1 /\ todo' = Outstanding /\ learned' = learned /\ settled' = settled
  BY <1>1, <1>2 DEF Stepping
<1>3. CASE FinishEntity \/ (\E probe \in BOOLEAN : BeginCreate(probe)) \/ ResolveParent
           \/ DeleteMinimal \/ CleanupDelete
  BY <1>2, <1>3 DEF FinishEntity, BeginCreate, ResolveParent, DeleteMinimal, CleanupDelete,
     BeginDelete, memoryVars, worldVars
<1>4. ASSUME NEW e \in Entities,
             Enter(e) \/ Resolved(e) \/ Send(e) \/ Abandon(e) \/ \E w \in Writes : RecordIntent(e, w)
      PROVE  /\ UNCHANGED <<learned, settled, overdue>> /\ tenant' \subseteq tenant
             /\ NextEntity \/ phase' = phase
  BY <1>4 DEF Enter, Resolved, Send, Abandon, RecordIntent, memoryVars, worldVars
<1>5. ASSUME NEW e \in Entities, NEW id \in BOOLEAN, NEW w \in Writes, Accepted(e, id, w)
      PROVE  /\ at[e] = "wait" /\ ParentReached(e) /\ tenant' = tenant \cup {<<run, slot[e]>>}
             /\ learned \subseteq learned' /\ UNCHANGED <<overdue, settled, log, phase>>
  BY <1>5 DEF Accepted, Waiting
<1>6. ASSUME NEW e \in Entities, NEW w \in Writes, Refused(e, w)
      PROVE  /\ settled' = settled \cup {slot[e]} /\ slot[e] \notin learned
             /\ UNCHANGED <<overdue, tenant, learned, phase>>
  BY <1>1, <1>6 DEF Refused, Waiting, Lineage, worldVars
<1>7. ASSUME NEW e \in Entities, Unclear(e) \/ Unseen(e)
      PROVE  /\ at[e] = "wait" /\ UNCHANGED <<overdue, settled, log, learned>>
             /\ tenant' = tenant \/ (ParentReached(e) /\ tenant' = tenant \cup {<<run, slot[e]>>})
             /\ NextEntity \/ phase' = phase
  BY <1>7, CalmUnlearned DEF Unclear, Unseen, Waiting, memoryVars
<1>8. ASSUME NEW w \in Writes, DeleteGone(w)
      PROVE  \E s : /\ settled' = settled \cup {s} /\ tenant' = Without(<<run, s>>)
                    /\ UNCHANGED <<overdue, learned, phase>>
  BY <1>8, DoomedAddressed DEF DeleteGone, Account
<1>9. ~DeleteRefused /\ ~DeleteUnseen
  BY DEF Calm, DeleteRefused, DeleteUnseen
<1>10. ASSUME NEW e \in Entities, CreateStep(e)
       PROVE  /\ overdue' = overdue /\ learned \subseteq learned'
              /\ \A o \in tenant' : o \in tenant \/
                   (/\ at[e] = "wait" /\ o = <<run, slot[e]>> /\ ParentReached(e)
                    /\ settled' = settled /\ log' = log)
              /\ \/ settled' = settled
                 \/ \E s : settled' = settled \cup {s} /\ (s \notin learned \/ tenant' = Without(<<run, s>>))
              /\ phase' = "own" =>
                   current' = 1 /\ todo' = Outstanding /\ learned' = learned /\ settled' = settled
  <2>1. CASE Enter(e) \/ Resolved(e) \/ Send(e) \/ Abandon(e) \/ \E w \in Writes : RecordIntent(e, w)
    BY <1>2, <1>4, <2>1
  <2>2. CASE \E id \in BOOLEAN, w \in Writes : Accepted(e, id, w)
    BY <1>1, <1>5, <2>2 DEF Stepping
  <2>3. CASE \E w \in Writes : Refused(e, w)
    BY <1>1, <1>6, <2>3 DEF Stepping
  <2>4. CASE Unclear(e) \/ Unseen(e)
    BY <1>1, <1>7, <2>4 DEF Stepping
  <2>5. QED
    BY <1>10, <2>1, <2>2, <2>3, <2>4 DEF CreateStep
<1>11. CASE \E w \in Writes : DeleteGone(w)
  <2>1. PICK s : /\ settled' = settled \cup {s} /\ tenant' = Without(<<run, s>>)
                 /\ UNCHANGED <<overdue, learned, phase>>
    BY <1>8, <1>11
  <2>2. Without(<<run, s>>) \subseteq tenant /\ phase' # "own"
    BY <1>1, <2>1, WithoutLess DEF Stepping
  <2>3. QED
    BY <2>1, <2>2
<1>12. CASE \E e \in Entities : CreateStep(e)
  BY <1>10, <1>12
<1>13. QED
  BY <1>2, <1>3, <1>9, <1>11, <1>12 DEF ProgramStep

\* No step changes what the log says of an object that exists.
LEMMA ObjectsKeepLines ==
  ASSUME Shape, Ordered, Lines, ProcessStep
  PROVE  \A o \in tenant : log'[o[1]][o[2]] = log[o[1]][o[2]]
<1>1. Rooted /\ Fresh /\ (phase = "steps" => Lineage)
  BY DEF Lines
<1>2. SUFFICES ASSUME NEW o \in tenant, o[1] = run, Stepping
               PROVE  log'[run][o[2]] = log[run][o[2]]
  <2>1. \A o \in tenant : o[1] \in Runs
    BY Typed
  <2>2. QED
    BY <1>1, <2>1, RootedStep
<1>3. o[2] \in 1 .. Len(log[run]) /\ o = <<run, o[2]>>
  BY <1>2, Typed DEF Ordered, Logged
<1>4. CASE log' = log
  BY <1>4
<1>5. ASSUME NEW e \in Entities, NEW w \in Writes, RecordIntent(e, w)
      PROVE  log'[run][o[2]] = log[run][o[2]]
  BY <1>3, <1>5, RecordLog
<1>6. ASSUME NEW e \in Entities, Send(e) PROVE log'[run][o[2]] = log[run][o[2]]
  <2>1. CASE NeedsParent(e)
    BY <1>6, <2>1 DEF Send
  <2>2. CASE ~NeedsParent(e)
    <3>1. at[e] = "send" /\ o[2] # slot[e]
      BY <1>1, <1>2, <1>3, <1>6 DEF Send, Lineage, Stepping, NeedsParent
    <3>2. QED
      BY <1>3, <1>6, <2>2, <3>1, SendLog
  <2>3. QED
    BY <2>1, <2>2
<1>7. CASE CleanupStep
  BY <1>1, <1>4, <1>7, CleanupTurn
<1>8. CASE ProgramStep
  BY <1>4, <1>5, <1>6, <1>8, ProgramLog
<1>9. QED
  BY <1>7, <1>8 DEF ProcessStep

\* A program step leaves every object under one that is learned and not settled, and
\* at the end of the programs all of them before the pass over the run's ledger.
LEMMA ProgramLevel ==
  ASSUME Shape, Ordered, Lines, Account, Balanced, Level, Calm, ProgramStep, tenant' \subseteq Runs \X Seqs
  PROVE  /\ \A o \in tenant' : o[1] = run => Sheltered(o[2])'
         /\ phase' = "own" => current' = 1 /\ \A o \in tenant' : o[1] = run => Reached(o[2])'
<1>1. /\ Stepping /\ run' = run /\ Lineage /\ Slots /\ Registered /\ Unsettled
      /\ learned \subseteq 1 .. Len(log[run])
      /\ \A o \in tenant : o[1] = run => Sheltered(o[2])
  BY ProgramTurn DEF Lines, Ordered, Stepping, Balanced, Level, Up
<1>2. /\ learned \subseteq learned'
      /\ \A o \in tenant' : o \in tenant \/
           \E e \in Entities : /\ at[e] = "wait" /\ o = <<run, slot[e]>> /\ ParentReached(e)
                               /\ settled' = settled /\ log' = log
      /\ \/ settled' = settled
         \/ \E s : settled' = settled \cup {s} /\ (s \notin learned \/ tenant' = Without(<<run, s>>))
      /\ phase' = "own" =>
           current' = 1 /\ todo' = Outstanding /\ learned' = learned /\ settled' = settled
  BY CalmProgram
<1>3. \A o \in tenant : o[1] = run => log'[run][o[2]] = log[run][o[2]]
  BY ObjectsKeepLines DEF ProcessStep
<1>4. ASSUME NEW o \in tenant', o[1] = run
      PROVE  /\ Parent[EntOf(o[2])'] # 0 => UnderOf(o[2])' # 0
             /\ UnderOf(o[2])' # 0 => UnderOf(o[2])' \in learned \ settled'
             /\ o \notin tenant => o[2] \notin learned
  <2>1. CASE o \in tenant
    <3>1. EntOf(o[2])' = EntOf(o[2]) /\ UnderOf(o[2])' = UnderOf(o[2]) /\ Sheltered(o[2])
      BY <1>1, <1>3, <1>4, <2>1 DEF EntOf, UnderOf
    <3>2. ASSUME NEW s, UnderOf(o[2]) = s, UnderOf(o[2]) # 0, settled' = settled \cup {s},
                 s \notin learned \/ tenant' = Without(<<run, s>>)
          PROVE  FALSE
      <4>1. s \in learned
        BY <3>1, <3>2 DEF Sheltered
      <4>2. o \in Without(<<run, s>>)
        BY <1>4, <3>2, <4>1
      <4>3. QED
        BY <1>4, <2>1, <3>2, <4>2 DEF Without, UnderOf
    <3>3. UnderOf(o[2]) # 0 => UnderOf(o[2]) \notin settled'
      BY <1>2, <3>1, <3>2 DEF Sheltered
    <3>4. QED
      BY <2>1, <3>1, <3>3 DEF Sheltered
  <2>2. CASE o \notin tenant
    <3>1. PICK e \in Entities : /\ at[e] = "wait" /\ o = <<run, slot[e]>> /\ ParentReached(e)
                                /\ settled' = settled /\ log' = log
      BY <1>2, <2>2
    <3>2. EntOf(slot[e]) = e /\ o[2] = slot[e] /\ slot[e] \notin learned /\ slot[e] \in 1 .. Len(log[run])
      BY <1>1, <3>1 DEF Slots, EntOf, Lineage
    <3>3. EntOf(o[2])' = e /\ UnderOf(o[2])' = UnderOf(slot[e])
      BY <1>1, <3>1, <3>2 DEF EntOf, UnderOf
    <3>4. CASE Parent[e] = 0
      <4>1. UnderOf(slot[e]) = 0
        BY <1>1, <3>2, <3>4, Typed DEF Lines, Rooted, EntOf, UnderOf, Up, Stepping
      <4>2. QED
        BY <3>2, <3>3, <3>4, <4>1
    <3>5. CASE Parent[e] # 0
      <4>1. UnderOf(slot[e]) # 0 /\ UnderOf(slot[e]) = registry[Parent[e]]
        BY <1>1, <3>1, <3>5 DEF Lineage
      <4>2. registry[Parent[e]] \in learned /\ Parent[e] \in Entities
        BY <3>1, <3>5, Typed DEF ParentReached
      <4>3. registry[Parent[e]] \notin settled
        BY <1>1, <4>1, <4>2 DEF Registered
      <4>4. QED
        BY <3>1, <3>2, <3>3, <4>1, <4>2, <4>3
    <3>6. QED
      BY <3>4, <3>5
  <2>3. QED
    BY <2>1, <2>2
<1>5. ASSUME NEW o \in tenant', o[1] = run PROVE Sheltered(o[2])'
  BY <1>2, <1>4, <1>5 DEF Sheltered
<1>6. ASSUME phase' = "own", NEW o \in tenant', o[1] = run PROVE Reached(o[2])'
  <2>1. /\ todo' = Outstanding /\ learned' = learned /\ settled' = settled
        /\ learned \ settled \subseteq Outstanding
    BY <1>1, <1>2, <1>6 DEF Outstanding
  <2>2. UnderOf(o[2])' # 0 => UnderOf(o[2])' \in todo'
    BY <1>4, <1>6, <2>1
  <2>3. o[2] \in learned => o[2] \notin settled
    BY <1>1, <1>4, <1>6 DEF Unsettled
  <2>4. QED
    BY <2>1, <2>2, <2>3 DEF Reached
<1>7. QED
  BY <1>2, <1>5, <1>6

\* The pass over the run's own ledger deletes what it knows by id, children and all.
LEMMA OwnLevel ==
  ASSUME Shape, Ordered, Lines, Account, Level, Calm, phase = "own",
         OwnNameless \/ (\E w \in Writes : OwnGone(w)) \/ OwnFailed \/ LeaveOwn
  PROVE  Level'
<1>1. /\ overdue = {} /\ current = 1 /\ UNCHANGED <<run, log, overdue, learned, current>>
      /\ \A o \in tenant : o[1] # run => Forgotten(o)
      /\ \A o \in tenant : o[1] = run => Sheltered(o[2]) /\ Reached(o[2])
  BY DEF Level, OwnNameless, OwnGone, OwnFailed, LeaveOwn, memoryVars, worldVars, progressVars
<1>2. ~OwnFailed
  BY DEF Calm, OwnFailed
<1>3. \A o \in tenant : o[1] \in Runs /\ o = <<o[1], o[2]>>
  BY Typed
<1>4. ASSUME tenant' \subseteq tenant, phase' # "down", Next
      PROVE  \A o \in tenant' : o[1] # run' \/ phase' = "down" => Forgotten(o)'
  <2>1. ASSUME NEW o \in tenant', o[1] # run PROVE Forgotten(o)'
    <3>1. o \in tenant /\ Forgotten(o) /\ o[1] \in Runs
      BY <1>1, <1>3, <1>4, <2>1
    <3>2. disk'[o[1]].known = disk[o[1]].known
      <4>1. ProcessStep
        BY DEF ProcessStep, CleanupStep
      <4>2. QED
        BY <2>1, <3>1, <4>1, OtherFiles
    <3>3. QED
      BY <1>1, <3>1, <3>2 DEF Forgotten, Named, EntityOf
  <2>2. QED
    BY <1>1, <1>4, <2>1
<1>5. \A s : EntOf(s)' = EntOf(s) /\ UnderOf(s)' = UnderOf(s)
  BY <1>1 DEF EntOf, UnderOf
<1>6. Next
  BY DEF Next, ProcessStep, CleanupStep
<1>7. CASE OwnNameless
  <2> DEFINE s == Newest(todo)
  <2>1. s \notin learned /\ todo' = todo \ {s} /\ UNCHANGED <<phase, settled, tenant>>
    BY <1>7 DEF OwnNameless, memoryVars, worldVars
  <2> HIDE DEF s
  <2>2. \A o \in tenant : o[1] = run => Sheltered(o[2])' /\ Reached(o[2])'
    BY <1>1, <1>5, <2>1 DEF Sheltered, Reached
  <2>3. QED
    BY <1>1, <1>4, <1>6, <2>1, <2>2 DEF Level
<1>8. ASSUME NEW w \in Writes, OwnGone(w) PROVE Level'
  <2> DEFINE s == Newest(todo)
  <2>1. /\ s \in learned /\ todo' = todo \ {s} /\ phase' = phase /\ settled' = settled \cup {s}
        /\ tenant' = Without(<<run, s>>)
    BY <1>8 DEF OwnGone
  <2> HIDE DEF s
  <2>2. tenant' \subseteq tenant
    BY <2>1, WithoutLess
  <2>3. ASSUME NEW o \in tenant', o[1] = run PROVE Sheltered(o[2])' /\ Reached(o[2])'
    <3>1. o \in tenant /\ o[2] # s /\ UnderOf(o[2]) # s
      BY <1>3, <2>1, <2>2, <2>3 DEF Without, UnderOf
    <3>2. QED
      BY <1>1, <1>5, <2>1, <2>3, <3>1 DEF Sheltered, Reached
  <2>4. QED
    BY <1>1, <1>4, <1>6, <2>1, <2>2, <2>3 DEF Level
<1>9. CASE LeaveOwn
  <2>1. todo = {} /\ phase' = "endPrefix" /\ UNCHANGED <<tenant, learned, settled, found>>
    BY <1>9 DEF LeaveOwn, memoryVars, worldVars, passVars
  <2>2. ASSUME NEW o \in tenant', o[1] = run PROVE Loose(o)'
    <3>1. /\ o \in tenant /\ o[2] \notin learned /\ UnderOf(o[2]) = 0 /\ Parent[EntOf(o[2])] = 0
      BY <1>1, <2>1, <2>2 DEF Sheltered, Reached
    <3>2. EntOf(o[2]) \in Entities
      <4>1. o[2] \in 1 .. Len(log[run]) /\ log[run] \in Seq(Intent)
        BY <2>2, <3>1, Typed DEF Ordered, Logged, Up
      <4>2. log[run][o[2]] \in Intent
        BY <4>1
      <4>3. QED
        BY <4>2 DEF EntOf, Intent
    <3>3. ~(EntOf(o[2]) < current)
      BY <1>1, <3>2, PlanAssumption DEF Entities
    <3>4. QED
      BY <1>1, <1>5, <2>1, <3>1, <3>3 DEF Loose
  <2>3. QED
    BY <1>1, <1>4, <1>6, <2>1, <2>2 DEF Level
<1>10. QED
  BY <1>2, <1>7, <1>8, <1>9

\* Objects of other runs are beyond this one's reach, whatever it does with its own.
LEMMA ForgottenStay ==
  ASSUME Shape, Ordered, Lines, Level, ProcessStep, NEW o \in tenant, Forgotten(o),
         disk'[o[1]].known = disk[o[1]].known
  PROVE  Forgotten(o)'
<1>1. o[1] \in Runs /\ log'[o[1]][o[2]] = log[o[1]][o[2]]
  BY ObjectsKeepLines, Typed
<1>2. QED
  BY <1>1 DEF Forgotten, Named, EntityOf

\* What no listing can find is left when the last prefix pass is done.
LEMMA FinishLevel ==
  ASSUME Shape, Ordered, Lines, Account, Level, Finish
  PROVE  Level'
<1>1. /\ overdue = {} /\ \A o \in tenant : o[1] # run => Forgotten(o)
      /\ phase = "endPrefix" => \A o \in tenant : o[1] = run => Loose(o)
      /\ Filed /\ Fresh
  BY DEF Level, Account, Lines
<1>2. /\ phase' = "down" /\ found = {} /\ current \notin Entities /\ UNCHANGED <<run, log, tenant, overdue>>
      /\ phase = "endPrefix" \/ phase = "startPrefix"
      /\ disk' = disk \/ disk' = [disk EXCEPT ![run].present = FALSE]
  BY DEF Finish, PrefixDone, Exit, worldVars
<1>3. /\ \A o \in tenant : o[1] \in Runs /\ o[2] \in 1 .. Len(log[o[1]])
      /\ run \in Runs /\ disk \in [Runs -> LedgerFile] /\ log[run] \in Seq(Intent)
      /\ current \in Nat
  BY <1>2, Typed DEF Ordered, Logged, Up
<1>4. \A r \in Runs : disk'[r].known = disk[r].known
  <2>1. CASE disk' = disk
    BY <2>1
  <2>2. CASE disk' = [disk EXCEPT ![run].present = FALSE]
    <3> SUFFICES ASSUME NEW r \in Runs PROVE disk'[r].known = disk[r].known
      OBVIOUS
    <3>1. /\ disk[r] \in LedgerFile
          /\ disk'[r] = IF r = run THEN [disk[r] EXCEPT !.present = FALSE] ELSE disk[r]
      BY <1>3, <2>2
    <3>2. QED
      BY <3>1 DEF LedgerFile
  <2>3. QED
    BY <1>2, <2>1, <2>2
<1>5. ASSUME NEW o \in tenant PROVE Forgotten(o)
  <2>1. CASE o[1] # run
    BY <1>1, <2>1
  <2>2. CASE o[1] = run /\ phase = "startPrefix"
    <3>1. log[run] = <<>>
      BY <1>1, <2>2 DEF Fresh
    <3>2. QED
      BY <1>3, <2>2, <3>1
  <2>3. CASE o[1] = run /\ phase = "endPrefix"
    <3>1. Loose(o)
      BY <1>1, <2>3
    <3>2. o[2] \notin disk[run].known
      BY <1>1, <2>3, <3>1 DEF Loose, Filed, Up
    <3>3. EntOf(o[2]) \in Entities
      <4>1. log[run][o[2]] \in Intent
        BY <1>3, <2>3
      <4>2. QED
        BY <4>1 DEF EntOf, Intent
    <3>4. current \in 1 .. NumEntities + 1
      BY DEF Shape, TypeOK
    <3>5. EntOf(o[2]) < current
      BY <1>2, <3>3, <3>4, PlanAssumption DEF Entities
    <3>6. ~Named(run, o[2])
      BY <1>2, <3>1, <3>5 DEF Loose
    <3>7. QED
      BY <2>3, <3>1, <3>2, <3>6 DEF Forgotten, Loose, UnderOf
  <2>4. QED
    BY <1>2, <2>1, <2>2, <2>3
<1>6. \A o \in tenant' : Forgotten(o)'
  BY <1>2, <1>3, <1>4, <1>5 DEF Forgotten, Named, EntityOf
<1>7. QED
  BY <1>1, <1>2, <1>6 DEF Level

\* A prefix pass of a calm API leaves no name behind its cursor.
LEMMA ListingLevel ==
  ASSUME Shape, Ordered, Lines, Account, Level, Calm, phase = "endPrefix",
         ListCollection \/ \E o \in found, w \in Writes : PrefixGone(o, w)
  PROVE  \A o \in tenant' : o[1] = run => Loose(o)'
<1>1. /\ UNCHANGED <<run, log, learned>> /\ tenant' \subseteq tenant
      /\ \A o \in tenant : o[1] = run => Loose(o)
  BY WithoutLess DEF Level, ListCollection, PrefixGone, memoryVars, worldVars
<1>2. \A s : EntOf(s)' = EntOf(s) /\ UnderOf(s)' = UnderOf(s) /\ (Named(run, s)' <=> Named(run, s))
  BY <1>1 DEF EntOf, UnderOf, Named, EntityOf
<1>3. CASE ListCollection
  <2>1. /\ found = {} /\ current \in Entities /\ current' = current + 1
        /\ Listable(current) => found' = Carrying(current)
    BY <1>3 DEF ListCollection, Calm
  <2>2. ASSUME NEW o \in tenant', o[1] = run, Named(run, o[2]), EntOf(o[2]) < current'
        PROVE  o \in found'
    <3>1. o \in tenant /\ Parent[EntOf(o[2])] = 0 /\ ~(EntOf(o[2]) < current)
      BY <1>1, <2>1, <2>2 DEF Loose
    <3>2. EntOf(o[2]) \in Nat
      <4>1. o[2] \in 1 .. Len(log[run]) /\ log[run] \in Seq(Intent)
        BY <2>2, <3>1, Typed DEF Ordered, Logged, Up
      <4>2. log[run][o[2]] \in Intent
        BY <4>1
      <4>3. QED
        BY <4>2, PlanAssumption DEF EntOf, Intent, Entities
    <3>3. EntOf(o[2]) = current
      BY <2>1, <2>2, <3>1, <3>2, PlanAssumption DEF Entities
    <3>4. QED
      BY <2>1, <2>2, <3>1, <3>3 DEF Listable, Carrying, InCollection, EntityOf, EntOf
  <2>3. QED
    BY <1>1, <1>2, <2>2 DEF Loose
<1>4. ASSUME NEW p \in found, NEW w \in Writes, PrefixGone(p, w)
      PROVE  \A o \in tenant' : o[1] = run => Loose(o)'
  <2>1. found' = found \ {p} /\ current' = current /\ p \notin tenant'
    BY <1>4, WithoutLess DEF PrefixGone, progressVars
  <2>2. QED
    BY <1>1, <1>2, <2>1 DEF Loose
<1>5. QED
  BY <1>3, <1>4

\* Every step of a calm run keeps the level.
LEMMA LevelStep ==
  ASSUME NamesShape, Shape', Lines', Ordered', Level, Calm, Next
  PROVE  Level'
<1>1. /\ Shape /\ Ordered /\ Lines /\ Account /\ Balanced /\ Fresh /\ Apart /\ Filed /\ Gathered
      /\ overdue = {} /\ \A o \in tenant : o[1] # run \/ phase = "down" => Forgotten(o)
  BY DEF NamesShape, AccountShape, Account, Lines, Level
<1>2. \A o \in tenant : o[1] \in Runs /\ o[2] \in 1 .. Len(log[o[1]])
  BY <1>1, Typed DEF Ordered, Logged
<1>3. ~Crash /\ ~(\E o \in overdue : CarryOut(o)) /\ ~OwnFailed /\ ~\E o \in found : PrefixFailed(o)
  BY <1>1 DEF Calm, Crash, OwnFailed, PrefixFailed
<1>4. CASE Start
  <2>1. /\ phase = "down" /\ phase' = "prior" /\ UNCHANGED <<log, tenant, overdue>>
    BY <1>4 DEF Start, worldVars
  <2>2. ASSUME NEW o \in tenant PROVE Forgotten(o)'
    <3>1. Forgotten(o) /\ o[1] \in Runs
      BY <1>1, <1>2, <2>1
    <3>2. disk'[o[1]].known = disk[o[1]].known
      <4>1. disk[o[1]] \in LedgerFile /\ disk \in [Runs -> LedgerFile]
        BY <1>1, <3>1, Typed
      <4>2. disk'[o[1]] = IF o[1] = run + 1 THEN [disk[o[1]] EXCEPT !.present = TRUE] ELSE disk[o[1]]
        BY <1>4, <3>1, <4>1 DEF Start
      <4>3. QED
        BY <4>1, <4>2 DEF LedgerFile
    <3>3. QED
      BY <2>1, <3>1, <3>2 DEF Forgotten, Named, EntityOf
  <2>3. QED
    BY <1>1, <2>1, <2>2 DEF Level
<1>5. CASE Finish
  BY <1>1, <1>5, FinishLevel
<1>6. CASE ProcessStep /\ ~Finish
  <2>1. run' = run /\ phase # "down"
    BY <1>1, <1>6, ProgramTurn, CleanupTurn DEF ProcessStep, Stepping
  <2>2. ASSUME NEW o \in tenant, o[1] # run PROVE Forgotten(o)'
    <3>1. disk'[o[1]].known = disk[o[1]].known
      BY <1>1, <1>2, <1>6, <2>2, OtherFiles
    <3>2. QED
      BY <1>1, <1>6, <2>2, <3>1, ForgottenStay
  <2>3. CASE ProgramStep
    <3>1. /\ overdue' = {} /\ \A o \in tenant' : o \in tenant \/ o[1] = run
      BY <1>1, <2>3, CalmProgram
    <3>2. /\ \A o \in tenant' : o[1] = run => Sheltered(o[2])'
          /\ phase' = "own" => current' = 1 /\ \A o \in tenant' : o[1] = run => Reached(o[2])'
      BY <1>1, <2>3, ProgramLevel DEF Shape, TypeOK
    <3>3. phase' \in {"steps", "own"}
      BY <2>3, ProgramTurn
    <3>4. QED
      BY <2>1, <2>2, <3>1, <3>2, <3>3 DEF Level
  <2>4. CASE OwnNameless \/ (\E w \in Writes : OwnGone(w)) \/ LeaveOwn
    <3>1. phase = "own"
      BY <2>4 DEF OwnNameless, OwnGone, LeaveOwn
    <3>2. QED
      BY <1>1, <2>4, <3>1, OwnLevel
  <2>5. CASE CleanupStep /\ ~(OwnNameless \/ (\E w \in Writes : OwnGone(w)) \/ LeaveOwn)
    <3>1. overdue' = overdue /\ tenant' \subseteq tenant
      BY <1>3, <1>6, <2>5, WithoutLess DEF CleanupStep, SkipFile, OpenFile, ReplayNameless, ReplayGone,
         ReplayFailed, CloseFile, LeavePrior, ListCollection, PrefixGone, BeginSteps, worldVars
    <3>2. phase' \notin {"own", "down"} /\ (phase' = "steps" => phase = "startPrefix")
          /\ (phase' = "endPrefix" => phase = "endPrefix")
      BY <1>1, <1>3, <1>6, <2>5 DEF CleanupStep, SkipFile, OpenFile, ReplayNameless, ReplayGone,
         ReplayFailed, CloseFile, LeavePrior, ListCollection, PrefixGone, BeginSteps, Listing, Fresh,
         Replaying
    <3>3. phase' = "steps" => \A o \in tenant' : o[1] # run
      <4>1. phase = "startPrefix" => log[run] = <<>>
        BY <1>1 DEF Fresh
      <4>2. QED
        BY <1>2, <3>1, <3>2, <4>1
    <3>4. phase' = "endPrefix" => \A o \in tenant' : o[1] = run => Loose(o)'
      <4> SUFFICES ASSUME phase' = "endPrefix" PROVE \A o \in tenant' : o[1] = run => Loose(o)'
        OBVIOUS
      <4>1. phase = "endPrefix"
        BY <3>2
      <4>2. ListCollection \/ \E o \in found, w \in Writes : PrefixGone(o, w)
        BY <1>1, <1>3, <4>1, Turns
      <4>3. QED
        BY <1>1, <4>1, <4>2, ListingLevel
    <3>5. QED
      BY <1>1, <2>1, <2>2, <3>1, <3>2, <3>3, <3>4 DEF Level
  <2>6. QED
    BY <1>6, <2>3, <2>4, <2>5 DEF ProcessStep
<1>7. QED
  BY <1>3, <1>4, <1>5, <1>6 DEF Next

LevelShape == NamesShape /\ Level

LEMMA LevelInit == Init => LevelShape
  BY NamesInit DEF LevelShape, Level, Init

LEMMA LevelShapeStep == Calm /\ LevelShape /\ [Next]_vars => LevelShape'
<1> SUFFICES ASSUME Calm, LevelShape, [Next]_vars PROVE LevelShape'
  OBVIOUS
<1>1. NamesShape /\ Level /\ NamesShape'
  BY NamesStep DEF LevelShape
<1>2. CASE UNCHANGED vars
  <2>1. UNCHANGED <<phase, run, log, learned, settled, disk, tenant, overdue, current, todo, found>>
    BY <1>2 DEF vars, memoryVars, worldVars, progressVars, passVars
  <2>2. Level'
    BY <1>1, <2>1 DEF Level, Forgotten, Named, EntityOf, Sheltered, Reached, Loose, EntOf, UnderOf
  <2>3. QED
    BY <1>1, <2>2 DEF LevelShape
<1>3. CASE Next
  BY <1>1, <1>3, LevelStep DEF LevelShape, NamesShape, AccountShape
<1>4. QED
  BY <1>2, <1>3

\* With an API that answers every delete and every listing and carries out no create
\* late, and a process that is not killed, for every plan and every bound, lost and
\* torn ledger lines, answers without an id and creates of unknown outcome among the
\* faults: what is left when no process runs has neither an id on file nor a name nor
\* a parent (cleanupOwn, cleanupByPrefix, cleanup.go).
THEOREM NothingFindableLeft == Calm => (Spec => []LevelledTenant)
<1> SUFFICES ASSUME Calm PROVE Spec => []LevelledTenant
  OBVIOUS
<1>1. LevelShape /\ [Next]_vars => LevelShape'
  BY LevelShapeStep
<1>2. LevelShape => LevelledTenant
  BY DEF LevelShape, Level, LevelledTenant, Forgotten
<1>3. QED
  BY <1>1, <1>2, LevelInit, PTL DEF Spec

-----------------------------------------------------------------------------
(***************************************************************************)
(* That a cleanup comes to an end: what it has left to do has a rank,      *)
(* which every step takes down an order in which nothing goes down for     *)
(* ever.                                                                   *)
(***************************************************************************)
Cleaning == phase \in {"prior", "startPrefix", "own", "endPrefix"}

Stage ==
  CASE phase = "prior"       -> 5
    [] phase = "startPrefix" -> 4
    [] phase = "steps"       -> 3
    [] phase = "own"         -> 2
    [] phase = "endPrefix"   -> 1
    [] phase = "down"        -> 0

\* The phase, the ledgers to replay, the one being replayed, the collections to
\* list, the entries and the objects to delete, and the creates still in the air.
FileOpen == IF file = 0 THEN 0 ELSE 1
Unlisted == NumEntities + 1 - current
Rank     == <<Stage, Cardinality(queue), FileOpen, Unlisted, Cardinality(todo),
              Cardinality(found), Cardinality(overdue)>>

Ranks    == [1 .. 7 -> Nat]
Descent  == LexProductOrdering(OpToRel(<, Nat), Nat, 7)
Descends == Cleaning => <<Rank', Rank>> \in Descent

\* There is no going down for ever.
LEMMA DescentEnds == IsWellFoundedOn(Descent, Ranks)
<1>1. IsWellFoundedOn(OpToRel(<, Nat), Nat)
  BY NatLessThanWellFounded
<1>2. QED
  BY <1>1, WFLexProductOrdering DEF Descent, Ranks

LEMMA RankNat ==
  ASSUME Shape
  PROVE  /\ Stage \in Nat /\ FileOpen \in Nat /\ Unlisted \in Nat
         /\ Cardinality(queue) \in Nat /\ Cardinality(todo) \in Nat
         /\ Cardinality(found) \in Nat /\ Cardinality(overdue) \in Nat
         /\ IsFiniteSet(queue) /\ IsFiniteSet(todo) /\ IsFiniteSet(found) /\ IsFiniteSet(overdue)
<1>1. IsFiniteSet(Runs \X Seqs) /\ IsFiniteSet(Runs) /\ IsFiniteSet(Seqs)
  <2>1. IsFiniteSet(Runs) /\ IsFiniteSet(Seqs)
    BY FS_Interval, PlanAssumption DEF Runs, Seqs
  <2>2. QED
    BY <2>1, FS_Product
<1>2. IsFiniteSet(queue) /\ IsFiniteSet(todo) /\ IsFiniteSet(found) /\ IsFiniteSet(overdue)
  <2>1. queue \subseteq Runs /\ todo \subseteq Seqs /\ found \subseteq Runs \X Seqs
        /\ overdue \subseteq Runs \X Seqs
    BY DEF Shape, TypeOK
  <2>2. QED
    BY <1>1, <2>1, FS_Subset
<1>3. Stage \in Nat
  <2>1. phase \in {"down", "prior", "startPrefix", "steps", "own", "endPrefix"}
    BY DEF Shape, TypeOK, Phases
  <2>2. QED
    BY <2>1 DEF Stage
<1>4. FileOpen \in Nat
  BY DEF FileOpen
<1>5. Unlisted \in Nat
  BY PlanAssumption DEF Unlisted, Shape, TypeOK
<1>6. QED
  BY <1>2, <1>3, <1>4, <1>5, FS_CardinalityType

LEMMA RankType == Shape => Rank \in Ranks
BY RankNat DEF Rank, Ranks

\* The first of the seven that falls, with the ones before it where they were.
Falls ==
  \/ Stage' < Stage
  \/ UNCHANGED Stage /\ Cardinality(queue') < Cardinality(queue)
  \/ UNCHANGED <<Stage, queue>> /\ FileOpen' < FileOpen
  \/ UNCHANGED <<Stage, queue, file>> /\ Unlisted' < Unlisted
  \/ UNCHANGED <<Stage, queue, file, current>> /\ Cardinality(todo') < Cardinality(todo)
  \/ UNCHANGED <<Stage, queue, file, current, todo>> /\ Cardinality(found') < Cardinality(found)
  \/ UNCHANGED <<Stage, queue, file, current, todo, found>>
     /\ Cardinality(overdue') < Cardinality(overdue)

LEMMA FallIsDescent ==
  ASSUME Rank \in Ranks, Rank' \in Ranks, Falls
  PROVE  <<Rank', Rank>> \in Descent
<1>1. /\ Rank[1] = Stage /\ Rank[2] = Cardinality(queue) /\ Rank[3] = FileOpen
      /\ Rank[4] = Unlisted /\ Rank[5] = Cardinality(todo) /\ Rank[6] = Cardinality(found)
      /\ Rank[7] = Cardinality(overdue)
  BY DEF Rank
<1>2. /\ Rank'[1] = Stage' /\ Rank'[2] = Cardinality(queue') /\ Rank'[3] = FileOpen'
      /\ Rank'[4] = Unlisted' /\ Rank'[5] = Cardinality(todo') /\ Rank'[6] = Cardinality(found')
      /\ Rank'[7] = Cardinality(overdue')
  BY DEF Rank
<1>3. (UNCHANGED file => UNCHANGED FileOpen) /\ (UNCHANGED current => UNCHANGED Unlisted)
      /\ (UNCHANGED queue => UNCHANGED Cardinality(queue))
      /\ (UNCHANGED todo => UNCHANGED Cardinality(todo))
      /\ (UNCHANGED found => UNCHANGED Cardinality(found))
  BY DEF FileOpen, Unlisted
<1> DEFINE Differ(j) == (\A k \in 1 .. (j - 1) : Rank'[k] = Rank[k]) /\ Rank'[j] < Rank[j]
<1>4. \E j \in 1 .. 7 : Differ(j)
  <2> HIDE DEF Rank
  <2>1. (Stage' < Stage) => Differ(1)
    BY <1>1, <1>2
  <2>2. (UNCHANGED Stage /\ Cardinality(queue') < Cardinality(queue)) => Differ(2)
    BY <1>1, <1>2
  <2>3. (UNCHANGED <<Stage, queue>> /\ FileOpen' < FileOpen) => Differ(3)
    BY <1>1, <1>2, <1>3
  <2>4. (UNCHANGED <<Stage, queue, file>> /\ Unlisted' < Unlisted) => Differ(4)
    BY <1>1, <1>2, <1>3
  <2>5. (UNCHANGED <<Stage, queue, file, current>> /\ Cardinality(todo') < Cardinality(todo)) => Differ(5)
    BY <1>1, <1>2, <1>3
  <2>6. (UNCHANGED <<Stage, queue, file, current, todo>> /\ Cardinality(found') < Cardinality(found)) => Differ(6)
    BY <1>1, <1>2, <1>3
  <2>7. (UNCHANGED <<Stage, queue, file, current, todo, found>>
           /\ Cardinality(overdue') < Cardinality(overdue)) => Differ(7)
    BY <1>1, <1>2, <1>3
  <2> HIDE DEF Differ
  <2>8. QED
    BY <2>1, <2>2, <2>3, <2>4, <2>5, <2>6, <2>7 DEF Falls
<1>5. PICK j \in 1 .. 7 : Differ(j)
  BY <1>4
<1>6. Rank'[j] \in Nat /\ Rank[j] \in Nat
  BY <1>5 DEF Ranks
<1>7. <<Rank'[j], Rank[j]>> \in OpToRel(<, Nat)
  BY <1>5, <1>6 DEF OpToRel
<1> HIDE DEF Rank
<1>8. QED
  BY <1>5, <1>7 DEF Descent, LexProductOrdering, Ranks

\* What one settled entry, or one object gone, leaves is one fewer.
LEMMA OneFewer ==
  ASSUME NEW S, IsFiniteSet(S), NEW x \in S
  PROVE  Cardinality(S \ {x}) < Cardinality(S)
<1>1. IsFiniteSet(S \ {x}) /\ Cardinality(S \ {x}) = Cardinality(S) - 1
  BY FS_RemoveElement
<1>2. Cardinality(S) \in Nat
  BY FS_CardinalityType
<1>3. QED
  BY <1>1, <1>2

LEMMA CleanupFalls ==
  ASSUME Shape, Shape', Cleaning, CleanupStep
  PROVE  Falls
<1>0. /\ IsFiniteSet(queue) /\ IsFiniteSet(todo) /\ IsFiniteSet(found)
      /\ todo \in SUBSET Seqs /\ NumEntities \in Nat /\ current \in Nat
  BY RankNat, PlanAssumption DEF Shape, TypeOK
<1>1. UNCHANGED phase => UNCHANGED Stage
  BY DEF Stage
<1>2. todo # {} => Newest(todo) \in todo
  BY <1>0, NewestIsMax
<1>3. ASSUME NEW r \in Runs, SkipFile(r) \/ OpenFile(r) PROVE Falls
  <2>1. r \in queue /\ queue' = queue \ {r} /\ UNCHANGED phase
    BY <1>3 DEF SkipFile, OpenFile
  <2>2. QED
    BY <1>0, <1>1, <2>1, OneFewer DEF Falls
<1>4. CASE ReplayNameless \/ ReplayGone \/ ReplayFailed
  <2>1. /\ todo # {} /\ todo' = todo \ {Newest(todo)}
        /\ UNCHANGED <<phase, queue, file, current>>
    BY <1>4 DEF ReplayNameless, ReplayGone, ReplayFailed, Replaying, progressVars
  <2>2. QED
    BY <1>0, <1>1, <1>2, <2>1, OneFewer DEF Falls
<1>5. CASE CloseFile
  BY <1>1, <1>5 DEF CloseFile, Falls, FileOpen
<1>6. CASE LeavePrior \/ LeaveOwn \/ BeginSteps
  BY <1>6 DEF LeavePrior, LeaveOwn, BeginSteps, Falls, Stage
<1>7. CASE Finish
  BY <1>7 DEF Finish, Exit, Falls, Stage
<1>8. CASE OwnNameless \/ OwnFailed \/ \E w \in Writes : OwnGone(w)
  <2>1. /\ todo # {} /\ todo' = todo \ {Newest(todo)}
        /\ UNCHANGED <<phase, queue, file, current>>
    BY <1>8 DEF OwnNameless, OwnFailed, OwnGone, progressVars
  <2>2. QED
    BY <1>0, <1>1, <1>2, <2>1, OneFewer DEF Falls
<1>9. CASE ListCollection
  <2>1. current' = current + 1 /\ UNCHANGED <<phase, queue, file>>
    BY <1>9 DEF ListCollection
  <2>2. Unlisted' < Unlisted
    BY <1>0, <2>1 DEF Unlisted
  <2>3. QED
    BY <1>1, <2>1, <2>2 DEF Falls
<1>10. ASSUME NEW o \in found, PrefixFailed(o) \/ \E w \in Writes : PrefixGone(o, w)
       PROVE  Falls
  <2>1. found' = found \ {o} /\ UNCHANGED <<phase, queue, file, current, todo>>
    BY <1>10 DEF PrefixFailed, PrefixGone, progressVars
  <2>2. QED
    BY <1>0, <1>1, <2>1, OneFewer DEF Falls
<1>11. QED
  BY <1>3, <1>4, <1>5, <1>6, <1>7, <1>8, <1>9, <1>10 DEF CleanupStep

LEMMA CleaningFalls ==
  ASSUME Shape, Shape', Cleaning, Next
  PROVE  Falls
<1>1. ~Start
  BY DEF Start, Cleaning
<1>2. ~ProgramStep
  BY ProgramTurn DEF Stepping, Cleaning
<1>3. CASE Crash
  BY <1>3 DEF Crash, Cleaning, Falls, Stage
<1>4. ASSUME NEW o \in overdue, CarryOut(o) PROVE Falls
  <2>1. /\ overdue' = overdue \ {o}
        /\ UNCHANGED <<phase, queue, file, current, todo, found>>
    BY <1>4 DEF CarryOut, progressVars, passVars
  <2>2. IsFiniteSet(overdue)
    BY RankNat
  <2>3. UNCHANGED Stage
    BY <2>1 DEF Stage
  <2>4. QED
    BY <2>1, <2>2, <2>3, OneFewer DEF Falls
<1>5. QED
  BY <1>1, <1>2, <1>3, <1>4, CleanupFalls DEF Next, ProcessStep

\* The passes that begin and end a run cannot go round: whatever deletes are
\* refused or never answered, whatever the files hold and whatever creates are
\* carried out late in the meantime, every step from the first replayed ledger to
\* the entities, and from the run's own ledger to its end, brings the pass
\* nearer its end (cleanupLedgers, cleanupOwn, cleanupByPrefix): it takes a rank
\* down an order in which nothing goes down for ever.
THEOREM CleanupDescends ==
  /\ IsWellFoundedOn(Descent, Ranks)
  /\ Spec => [][Descends]_vars
<1>1. Shape /\ [Next]_vars => [Descends]_vars
  <2> SUFFICES ASSUME Shape, Next, Cleaning PROVE <<Rank', Rank>> \in Descent
    BY DEF Descends
  <2>1. Shape'
    BY ShapeStep
  <2>2. Rank \in Ranks
    BY RankType
  <2>3. Rank' \in Ranks
    <3>1. (Shape => Rank \in Ranks)'
      BY RankType, PTL
    <3>2. QED
      BY <2>1, <3>1
  <2>4. QED
    BY <2>1, <2>2, <2>3, CleaningFalls, FallIsDescent
<1>2. Spec => [][Descends]_vars
  BY <1>1, ShapeInit, ShapeStep, PTL DEF Spec
<1>3. QED
  BY <1>2, DescentEnds

=============================================================================
