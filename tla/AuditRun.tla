------------------------------ MODULE AuditRun ------------------------------
(***************************************************************************)
(* The live audit of internal/audit/run: a process that creates objects in *)
(* somebody's tenant, one request at a time, and promises to leave none    *)
(* behind.  Every create is announced in an append-only activity ledger    *)
(* before the request goes out (ledger.go, entity.go); the run ends with a *)
(* cleanup of its own ledger and begins with a replay of the ledgers that  *)
(* earlier runs left on disk, each followed by a pass over the collections *)
(* that deletes what carries the run prefix (cleanup.go, run.go).          *)
(*                                                                         *)
(* A run is a sequence of requests; between two of them the process may be *)
(* killed, and the next run starts from the files alone.  The steps of an  *)
(* entity's program are abstracted to what they do to objects: which of    *)
(* them comes next is a choice.  An exhausted request or time budget, a    *)
(* missing environment variable and a dead context are one outcome, the    *)
(* abandoned step.                                                         *)
(***************************************************************************)
EXTENDS Integers, Sequences, FiniteSets

CONSTANTS
  NumEntities,  \* Entities 1 .. NumEntities, in the order the plan runs them.
  Parent,       \* The entity a path parameter of e's collection names, or 0.
  EmbedsParent, \* The entities whose item path holds that parameter too.
  BaseName,     \* The prefixed name e's bodies carry, or NoName.
  NoName,
  MaxObjects,   \* Budgets.Objects.
  MaxSeq,       \* Bound: the creates one run's request budget can pay for.
  MaxRuns,      \* Bound: how many times the process is started.
  Faults        \* What may go wrong; the vocabulary is AllFaults.

Entities == 1 .. NumEntities
Runs     == 1 .. MaxRuns
Seqs     == 1 .. MaxSeq

(***************************************************************************)
(* lost      a ledger line is not written and the write reports it         *)
(* unsynced  a ledger line is written and the fsync reports an error       *)
(* torn      a ledger line is written in part and the write reports it     *)
(* noid      a 2xx create response carries no recognisable id              *)
(* unclear   a create is answered 5xx, 429 or 408                          *)
(* unseen    a create response never arrives                               *)
(* late      the API carries a create out after the client gave up on it   *)
(* stuck     a delete is refused although the object exists                *)
(* deaf      a delete response never arrives                               *)
(* blind     a collection cannot be listed                                 *)
(* crash     the process is killed                                         *)
(***************************************************************************)
AllFaults == {"lost", "unsynced", "torn", "noid", "unclear", "unseen", "late",
              "stuck", "deaf", "blind", "crash"}

ASSUME PlanAssumption ==
  /\ NumEntities \in Nat \ {0}
  /\ MaxObjects \in Nat \ {0}
  /\ MaxSeq \in Nat
  /\ MaxRuns \in Nat
  \* derive.go plans a parent before the children that reference it.
  /\ Parent \in [Entities -> 0 .. NumEntities]
  /\ \A e \in Entities : Parent[e] < e
  /\ EmbedsParent \subseteq {e \in Entities : Parent[e] # 0}
  /\ DOMAIN BaseName = Entities
  /\ Faults \subseteq AllFaults

VARIABLES
  phase,    \* Where the process is; "down" when there is none.
  run,      \* The latest run's number; its objects are <<run, seq>>.
  log,      \* Per run, the intents announced so far, in sequence order.
  learned,  \* This run's sequence numbers with a created entry in memory.
  settled,  \* This run's sequence numbers deleted or rejected in memory.
  disk,     \* Per run, what its activity ledger file holds.
  tenant,   \* The audit objects that exist.
  overdue,  \* Creates nobody waits for that the API may still carry out.
  registry, \* Per entity, the sequence number of its live minimal object.
  at,       \* Per entity, where a create of it has got to.
  slot,     \* Per entity, the sequence number that create announced.
  probing,  \* Whether the object it is creating or deleting is a probe's.
  current,  \* The entity whose turn it is, in a program or a prefix pass.
  doomed,   \* The sequence numbers the current step is about to delete.
  queue,    \* The earlier runs whose ledgers are still to be replayed.
  file,     \* The earlier run whose ledger is being replayed, or 0.
  clean,    \* Whether every entry of that ledger settled so far.
  todo,     \* The sequence numbers a ledger pass has still to handle.
  found     \* The objects a listing returned, still to be deleted.

progressVars == <<registry, at, slot, probing, current, doomed>>
passVars     == <<queue, file, clean, todo, found>>
memoryVars   == <<learned, settled>>
worldVars    == <<tenant, overdue>>
vars == <<phase, run, log, memoryVars, disk, worldVars, progressVars, passVars>>

Phases   == {"down", "prior", "startPrefix", "steps", "own", "endPrefix"}
Points   == {"idle", "enter", "resolve", "record", "send", "wait"}
Tails    == {"clean", "partial", "spoiled", "garbled"}

(***************************************************************************)
(* The activity ledger.  A file is the set of intents, of created lines    *)
(* with an id and of closing lines that can be read back from it, and the  *)
(* state of its last line.                                                 *)
(***************************************************************************)
Intent == [ent : Entities, suffixed : BOOLEAN, under : 0 .. MaxSeq]

LedgerFile == [present : BOOLEAN, intents : SUBSET Seqs, known : SUBSET Seqs,
               closed : SUBSET Seqs, tail : Tails]

EmptyFile == [present |-> FALSE, intents |-> {}, known |-> {}, closed |-> {},
              tail |-> "clean"]

\* What one write to the file can do: succeed, or fail in one of the ways at hand.
Writes == {"ok"} \cup (Faults \cap {"lost", "unsynced", "torn"})

\* A line written after a partial one shares its line and is lost with it;
\* the line after that leaves the malformed one in the middle of the file.
Extended(f, kind, S) ==
  CASE f.tail = "clean"   -> [f EXCEPT ![kind] = @ \cup S]
    [] f.tail = "partial" -> [f EXCEPT !.tail = "spoiled"]
    [] f.tail \in {"spoiled", "garbled"} ->
         [f EXCEPT ![kind] = @ \cup S, !.tail = "garbled"]

Torn(f) ==
  [f EXCEPT !.tail = IF @ \in {"clean", "partial"} THEN "partial" ELSE "garbled"]

Appended(f, kind, S, w) ==
  CASE w \in {"ok", "unsynced"} -> Extended(f, kind, S)
    [] w = "torn" -> Torn(f)
    [] w = "lost" -> f

\* unresolvedOf over the entries in memory, and over those read from a file.
Outstanding == (1 .. Len(log[run])) \ settled

OutstandingIn(f) == (f.intents \cup f.known) \ f.closed

Newest(S) == CHOOSE s \in S : \A t \in S : t <= s

EntityOf(r, s) == log[r][s].ent

Named(r, s) == BaseName[EntityOf(r, s)] # NoName

\* Names carry the run id, so only records of one run are ever compared.
SameName(r, s, t) ==
  /\ BaseName[EntityOf(r, s)] = BaseName[EntityOf(r, t)]
  /\ log[r][s].suffixed = log[r][t].suffixed
  /\ log[r][s].suffixed => s = t

-----------------------------------------------------------------------------
(***************************************************************************)
(* The API.  It answers a delete truthfully: an object reported gone is    *)
(* gone, together with the objects that live under it.                     *)
(***************************************************************************)
Without(o) ==
  tenant \ ({o} \cup {c \in tenant : c[1] = o[1] /\ log[c[1]][c[2]].under = o[2]})

\* A create whose outcome the client never learns: carried out, dropped, or
\* carried out some time later.
Unlearned(o, possible) ==
  \/ UNCHANGED worldVars
  \/ /\ possible
     /\ tenant' = tenant \cup {o}
     /\ UNCHANGED overdue
  \/ /\ possible
     /\ "late" \in Faults
     /\ overdue' = overdue \cup {o}
     /\ UNCHANGED tenant

CarryOut(o) ==
  /\ o \in overdue
  /\ LET parent == log[o[1]][o[2]].under
     IN parent = 0 \/ <<o[1], parent>> \in tenant
  /\ tenant' = tenant \cup {o}
  /\ overdue' = overdue \ {o}
  /\ UNCHANGED <<phase, run, log, memoryVars, disk, progressVars, passVars>>

-----------------------------------------------------------------------------
(***************************************************************************)
(* Starting, stopping, dying.                                              *)
(***************************************************************************)
NoRegistry == [e \in Entities |-> 0]
AllIdle    == [e \in Entities |-> "idle"]

Rest ==
  /\ registry' = NoRegistry
  /\ at' = AllIdle
  /\ slot' = NoRegistry
  /\ probing' = FALSE
  /\ doomed' = {}
  /\ file' = 0
  /\ clean' = TRUE
  /\ todo' = {}
  /\ found' = {}
  /\ learned' = {}
  /\ settled' = {}

Init ==
  /\ phase = "down"
  /\ run = 0
  /\ log = [r \in Runs |-> <<>>]
  /\ learned = {}
  /\ settled = {}
  /\ disk = [r \in Runs |-> EmptyFile]
  /\ tenant = {}
  /\ overdue = {}
  /\ registry = NoRegistry
  /\ at = AllIdle
  /\ slot = NoRegistry
  /\ probing = FALSE
  /\ current = 1
  /\ doomed = {}
  /\ queue = {}
  /\ file = 0
  /\ clean = TRUE
  /\ todo = {}
  /\ found = {}

\* openActivityLedger makes this run's file; every other one is to be replayed.
Start ==
  /\ phase = "down"
  /\ run < MaxRuns
  /\ run' = run + 1
  /\ phase' = "prior"
  /\ disk' = [disk EXCEPT ![run + 1].present = TRUE]
  /\ queue' = {r \in 1 .. run : disk[r].present}
  /\ current' = 1
  /\ Rest
  /\ UNCHANGED <<log, worldVars>>

\* activityLedger.remove, then the process ends.
Exit ==
  /\ phase' = "down"
  /\ disk' = IF Outstanding = {}
             THEN [disk EXCEPT ![run].present = FALSE]
             ELSE disk
  /\ queue' = {}
  /\ current' = 1
  /\ Rest
  /\ UNCHANGED <<run, log, worldVars>>

\* The path of the request that would create an e holds its parent's id.  An
\* id that was never learned substitutes as nothing and addresses nothing.
ParentReached(e) ==
  Parent[e] # 0 => /\ registry[Parent[e]] \in learned
                   /\ <<run, registry[Parent[e]]>> \in tenant

\* A kill may leave the line being written in part, and a request in the air.
Crash ==
  /\ "crash" \in Faults
  /\ phase # "down"
  /\ phase' = "down"
  /\ \/ UNCHANGED disk
     \/ disk' = [disk EXCEPT ![run] = Torn(@)]
  /\ IF \E e \in Entities : at[e] = "wait"
     THEN LET e == CHOOSE e \in Entities : at[e] = "wait"
          IN Unlearned(<<run, slot[e]>>, ParentReached(e))
     ELSE UNCHANGED worldVars
  /\ queue' = {}
  /\ current' = 1
  /\ Rest
  /\ UNCHANGED <<run, log>>

-----------------------------------------------------------------------------
(***************************************************************************)
(* The entity programs.  A create is a frame: createObject entered, its    *)
(* references being resolved, its intent to be recorded, its path being    *)
(* resolved, its response awaited.  Resolving $created:<parent> with no    *)
(* live parent enters a create of the parent inside it.                    *)
(***************************************************************************)
Stepping == phase = "steps"

Idle == doomed = {} /\ at = AllIdle

Innermost(e) == /\ at[e] # "idle"
                /\ \A d \in Entities : at[d] # "idle" => e <= d

\* The live-object ceiling, read when createObject is entered.
Admitted == Cardinality(Outstanding) < MaxObjects

NeedsParent(e) == Parent[e] # 0 /\ registry[Parent[e]] = 0

\* The run moves on to the next entity, or to its own cleanup.
NextEntity ==
  /\ registry' = registry
  /\ at' = AllIdle
  /\ slot' = NoRegistry
  /\ probing' = FALSE
  /\ doomed' = {}
  /\ IF current < NumEntities
     THEN /\ current' = current + 1
          /\ UNCHANGED <<phase, todo>>
     ELSE /\ current' = 1
          /\ phase' = "own"
          /\ todo' = Outstanding

FinishEntity ==
  /\ Stepping
  /\ Idle
  /\ NextEntity
  /\ UNCHANGED <<run, log, memoryVars, disk, worldVars, queue, file, clean, found>>

\* A step that creates: the minimal object, as does one that resolves
\* $created:<current> when none is live, or a probe that deletes what it makes.
BeginCreate(probe) ==
  /\ Stepping
  /\ Idle
  /\ at' = [at EXCEPT ![current] = "enter"]
  /\ probing' = probe
  /\ UNCHANGED <<phase, run, log, memoryVars, disk, worldVars, registry, slot,
                 current, doomed, passVars>>

\* A read of a child's collection resolves the parent too.
ResolveParent ==
  /\ Stepping
  /\ Idle
  /\ NeedsParent(current)
  /\ at' = [at EXCEPT ![Parent[current]] = "enter"]
  /\ UNCHANGED <<phase, run, log, memoryVars, disk, worldVars, registry, slot,
                 probing, current, doomed, passVars>>

\* Mutant of Enter: the item path is not resolved before the intent.
EnterUnresolved(e) ==
  /\ Stepping
  /\ Innermost(e)
  /\ at[e] = "enter"
  /\ Admitted
  /\ at' = [at EXCEPT ![e] = "record"]
  /\ UNCHANGED <<phase, run, log, memoryVars, disk, worldVars, registry, slot,
                 probing, current, doomed, passVars>>

Enter(e) ==
  /\ Stepping
  /\ Innermost(e)
  /\ at[e] = "enter"
  /\ Admitted
  /\ at' = IF NeedsParent(e) /\ e \in EmbedsParent
           THEN [at EXCEPT ![e] = "resolve", ![Parent[e]] = "enter"]
           ELSE [at EXCEPT ![e] = "record"]
  /\ UNCHANGED <<phase, run, log, memoryVars, disk, worldVars, registry, slot,
                 probing, current, doomed, passVars>>

Resolved(e) ==
  /\ Stepping
  /\ Innermost(e)
  /\ at[e] = "resolve"
  /\ at' = [at EXCEPT ![e] = "record"]
  /\ UNCHANGED <<phase, run, log, memoryVars, disk, worldVars, registry, slot,
                 probing, current, doomed, passVars>>

\* A name equal to the live minimal object's takes the sequence as a suffix.
Suffixed(e) ==
  /\ BaseName[e] # NoName
  /\ registry[e] # 0
  /\ ~log[run][registry[e]].suffixed

\* Mutant of RecordIntent: the error of the write is not looked at.
RecordIntentUnchecked(e, w) ==
  LET seq == Len(log[run]) + 1
      line == [ent |-> e, suffixed |-> Suffixed(e), under |-> 0]
  IN /\ Stepping
     /\ Innermost(e)
     /\ at[e] = "record"
     /\ seq \in Seqs
     /\ log' = [log EXCEPT ![run] = Append(@, line)]
     /\ disk' = [disk EXCEPT ![run] = Appended(@, "intents", {seq}, w)]
     /\ at' = [at EXCEPT ![e] = "send"]
     /\ slot' = [slot EXCEPT ![e] = seq]
     /\ UNCHANGED <<phase, run, memoryVars, worldVars, registry, probing, current,
                    doomed, passVars>>

\* The entry is in memory whatever the write did; an error blocks the entity.
RecordIntent(e, w) ==
  LET seq == Len(log[run]) + 1
      line == [ent |-> e, suffixed |-> Suffixed(e), under |-> 0]
  IN /\ Stepping
     /\ Innermost(e)
     /\ at[e] = "record"
     /\ seq \in Seqs
     /\ log' = [log EXCEPT ![run] = Append(@, line)]
     /\ disk' = [disk EXCEPT ![run] = Appended(@, "intents", {seq}, w)]
     /\ IF w = "ok"
        THEN /\ at' = [at EXCEPT ![e] = "send"]
             /\ slot' = [slot EXCEPT ![e] = seq]
             /\ UNCHANGED <<phase, registry, probing, current, doomed, todo>>
        ELSE NextEntity
     /\ UNCHANGED <<run, memoryVars, worldVars, queue, file, clean, found>>

\* do resolves the path after the intent is on record, then sends.
Send(e) ==
  /\ Stepping
  /\ Innermost(e)
  /\ at[e] = "send"
  /\ IF NeedsParent(e)
     THEN /\ at' = [at EXCEPT ![Parent[e]] = "enter"]
          /\ UNCHANGED log
     ELSE /\ at' = [at EXCEPT ![e] = "wait"]
          /\ log' = IF Parent[e] = 0 THEN log
                    ELSE [log EXCEPT ![run][slot[e]].under = registry[Parent[e]]]
  /\ UNCHANGED <<phase, run, memoryVars, disk, worldVars, registry, slot,
                 probing, current, doomed, passVars>>

\* A budget, a missing input or a network error before the request is out
\* ends the step and the entity; an intent already written stays outstanding.
\* At the bound on sequence numbers the request budget is what ran out.
Abandon(e) ==
  /\ Stepping
  /\ Innermost(e)
  /\ \/ at[e] \in {"enter", "resolve", "send"}
     \/ at[e] = "record" /\ Len(log[run]) = MaxSeq
  /\ NextEntity
  /\ UNCHANGED <<run, log, memoryVars, disk, worldVars, queue, file, clean, found>>

-----------------------------------------------------------------------------
(***************************************************************************)
(* The response to a create, and what createObject makes of it.            *)
(***************************************************************************)
Waiting(e) == Stepping /\ Innermost(e) /\ at[e] = "wait"

\* extractID: a Location header, an id key, an envelope or a self link names the
\* object, or none of them does.
Identified(id) == id \/ "noid" \in Faults

\* 2xx.  The parent's create returns to the request that needed its id; a
\* probe's object is deleted next, if it has an id to delete it by.
Accepted(e, id, w) ==
  LET seq == slot[e]
      probed == e = current /\ probing
  IN /\ Waiting(e)
     /\ ParentReached(e)
     /\ Identified(id)
     /\ tenant' = tenant \cup {<<run, seq>>}
     /\ learned' = IF id THEN learned \cup {seq} ELSE learned
     /\ disk' = [disk EXCEPT ![run] =
                   Appended(@, "known", IF id THEN {seq} ELSE {}, w)]
     /\ at' = [at EXCEPT ![e] = "idle"]
     /\ slot' = [slot EXCEPT ![e] = 0]
     /\ registry' = IF probed THEN registry ELSE [registry EXCEPT ![e] = seq]
     /\ doomed' = IF probed /\ id THEN {seq} ELSE {}
     /\ probing' = (probing /\ (e = current => id))
     /\ UNCHANGED <<phase, run, log, settled, overdue, current, passVars>>

\* 4xx other than 429 and 408.  The correction loop may enter the parent's
\* create again with another body; a step decides for itself.
Refused(e, w) ==
  /\ Waiting(e)
  /\ settled' = settled \cup {slot[e]}
  /\ disk' = [disk EXCEPT ![run] = Appended(@, "closed", {slot[e]}, w)]
  /\ at' = [at EXCEPT ![e] = IF e = current THEN "idle" ELSE "enter"]
  /\ slot' = [slot EXCEPT ![e] = 0]
  /\ probing' = (probing /\ e # current)
  /\ UNCHANGED <<phase, run, log, learned, worldVars, registry, current, doomed, passVars>>

\* Any other status leaves the intent outstanding.  A parent that could not
\* be made blocks the entity that needed it.
Unclear(e) ==
  /\ "unclear" \in Faults
  /\ Waiting(e)
  /\ Unlearned(<<run, slot[e]>>, ParentReached(e))
  /\ IF e = current
     THEN /\ at' = AllIdle
          /\ slot' = NoRegistry
          /\ probing' = FALSE
          /\ UNCHANGED <<phase, registry, current, doomed, todo>>
     ELSE NextEntity
  /\ UNCHANGED <<run, log, memoryVars, disk, queue, file, clean, found>>

\* No response: the error ends the entity, the intent stays outstanding.
Unseen(e) ==
  /\ "unseen" \in Faults
  /\ Waiting(e)
  /\ Unlearned(<<run, slot[e]>>, ParentReached(e))
  /\ NextEntity
  /\ UNCHANGED <<run, log, memoryVars, disk, queue, file, clean, found>>

-----------------------------------------------------------------------------
(***************************************************************************)
(* Deleting within a program: a probe's own object, the minimal object     *)
(* (runDeleteWithConfirmation), or every outstanding object of the entity  *)
(* (runCleanupDelete), newest first.                                       *)
(***************************************************************************)
BeginDelete(S) ==
  /\ Stepping
  /\ Idle
  /\ S # {}
  /\ doomed' = S
  /\ UNCHANGED <<phase, run, log, memoryVars, disk, worldVars, registry, at, slot,
                 probing, current, passVars>>

DeleteMinimal == BeginDelete({registry[current]} \cap learned)

CleanupDelete == BeginDelete({s \in Outstanding \cap learned : EntityOf(run, s) = current})

Deleting == Stepping /\ doomed # {}

\* The delete addresses the object under the parent that is registered now.
Addressed(s) ==
  LET e == EntityOf(run, s)
  IN e \in EmbedsParent => log[run][s].under = registry[Parent[e]]

\* The request for the newest is answered; a probe has nothing more to delete.
NextDelete ==
  /\ doomed' = doomed \ {Newest(doomed)}
  /\ probing' = FALSE

\* Mutant of DeleteGone: the registry keeps the object it has just deleted.
DeleteGoneStillRegistered(w) ==
  LET s == Newest(doomed)
  IN /\ Deleting
     /\ tenant' = IF Addressed(s) THEN Without(<<run, s>>) ELSE tenant
     /\ settled' = settled \cup {s}
     /\ disk' = [disk EXCEPT ![run] = Appended(@, "closed", {s}, w)]
     /\ NextDelete
     /\ UNCHANGED <<phase, run, log, learned, overdue, registry, at, slot, current,
                    passVars>>

\* 2xx or 404: the object is gone from that address.
DeleteGone(w) ==
  LET s == Newest(doomed)
      e == EntityOf(run, s)
  IN /\ Deleting
     /\ tenant' = IF Addressed(s) THEN Without(<<run, s>>) ELSE tenant
     /\ settled' = settled \cup {s}
     /\ disk' = [disk EXCEPT ![run] = Appended(@, "closed", {s}, w)]
     /\ registry' = IF registry[e] = s THEN [registry EXCEPT ![e] = 0] ELSE registry
     /\ NextDelete
     /\ UNCHANGED <<phase, run, log, learned, overdue, at, slot, current, passVars>>

DeleteRefused ==
  /\ "stuck" \in Faults
  /\ Deleting
  /\ <<run, Newest(doomed)>> \in tenant
  /\ NextDelete
  /\ UNCHANGED <<phase, run, log, memoryVars, disk, worldVars, registry, at, slot,
                 current, passVars>>

\* An error of a probe's delete is ignored; any other halts the entity.
DeleteUnseen ==
  /\ "deaf" \in Faults
  /\ Deleting
  /\ tenant' \in {tenant, Without(<<run, Newest(doomed)>>)}
  /\ IF probing
     THEN /\ NextDelete
          /\ UNCHANGED <<phase, registry, at, slot, current, todo>>
     ELSE NextEntity
  /\ UNCHANGED <<run, log, memoryVars, disk, overdue, queue, file, clean, found>>

-----------------------------------------------------------------------------
(***************************************************************************)
(* Replaying the ledgers of earlier runs (cleanupLedgers), then this run's *)
(* own (cleanupOwn).  An entry without an id sends no request.             *)
(***************************************************************************)
\* A malformed line before the last makes the file unreadable, and keeps it.
SkipFile(r) ==
  /\ phase = "prior"
  /\ file = 0
  /\ r \in queue
  /\ disk[r].tail = "garbled"
  /\ queue' = queue \ {r}
  /\ UNCHANGED <<phase, run, log, memoryVars, disk, worldVars, progressVars,
                 file, clean, todo, found>>

\* A malformed last line reads as an intent without a name, which nothing settles.
OpenFile(r) ==
  /\ phase = "prior"
  /\ file = 0
  /\ r \in queue
  /\ disk[r].tail # "garbled"
  /\ queue' = queue \ {r}
  /\ file' = r
  /\ clean' = (disk[r].tail = "clean")
  /\ todo' = OutstandingIn(disk[r])
  /\ UNCHANGED <<phase, run, log, memoryVars, disk, worldVars, progressVars, found>>

Replaying == file # 0 /\ todo # {}

\* An entry that never learned an id settles on its name alone.
ReplayNameless ==
  LET s == Newest(todo)
  IN /\ Replaying
     /\ s \notin disk[file].known
     /\ clean' = (clean /\ Named(file, s))
     /\ todo' = todo \ {s}
     /\ UNCHANGED <<phase, run, log, memoryVars, disk, worldVars, progressVars,
                    queue, file, found>>

ReplayGone ==
  LET s == Newest(todo)
  IN /\ Replaying
     /\ s \in disk[file].known
     /\ tenant' = Without(<<file, s>>)
     /\ todo' = todo \ {s}
     /\ UNCHANGED <<phase, run, log, memoryVars, disk, overdue, progressVars,
                    queue, file, clean, found>>

\* Mutant of ReplayFailed: a failed delete does not keep the file.
ReplayFailedForgiven ==
  LET s == Newest(todo)
  IN /\ Replaying
     /\ s \in disk[file].known
     /\ \/ "stuck" \in Faults /\ <<file, s>> \in tenant /\ UNCHANGED tenant
        \/ "deaf" \in Faults /\ tenant' \in {tenant, Without(<<file, s>>)}
     /\ todo' = todo \ {s}
     /\ UNCHANGED <<phase, run, log, memoryVars, disk, overdue, progressVars,
                    queue, file, clean, found>>

ReplayFailed ==
  LET s == Newest(todo)
  IN /\ Replaying
     /\ s \in disk[file].known
     /\ \/ "stuck" \in Faults /\ <<file, s>> \in tenant /\ UNCHANGED tenant
        \/ "deaf" \in Faults /\ tenant' \in {tenant, Without(<<file, s>>)}
     /\ clean' = FALSE
     /\ todo' = todo \ {s}
     /\ UNCHANGED <<phase, run, log, memoryVars, disk, overdue, progressVars,
                    queue, file, found>>

\* A file whose every entry settled is removed.
CloseFile ==
  /\ file # 0
  /\ todo = {}
  /\ disk' = IF clean THEN [disk EXCEPT ![file].present = FALSE] ELSE disk
  /\ file' = 0
  /\ clean' = TRUE
  /\ UNCHANGED <<phase, run, log, memoryVars, worldVars, progressVars,
                 queue, todo, found>>

LeavePrior ==
  /\ phase = "prior"
  /\ file = 0
  /\ queue = {}
  /\ phase' = "startPrefix"
  /\ UNCHANGED <<run, log, memoryVars, disk, worldVars, progressVars, passVars>>

\* Mutant of OwnNameless: the pass loops for as long as an entry is outstanding.
OwnNamelessAgain ==
  LET s == Newest(todo)
  IN /\ phase = "own"
     /\ todo # {}
     /\ s \notin learned
     /\ todo' = Outstanding
     /\ UNCHANGED <<phase, run, log, memoryVars, disk, worldVars, progressVars,
                    queue, file, clean, found>>

OwnNameless ==
  LET s == Newest(todo)
  IN /\ phase = "own"
     /\ todo # {}
     /\ s \notin learned
     /\ todo' = todo \ {s}
     /\ UNCHANGED <<phase, run, log, memoryVars, disk, worldVars, progressVars,
                    queue, file, clean, found>>

OwnGone(w) ==
  LET s == Newest(todo)
  IN /\ phase = "own"
     /\ todo # {}
     /\ s \in learned
     /\ tenant' = Without(<<run, s>>)
     /\ settled' = settled \cup {s}
     /\ disk' = [disk EXCEPT ![run] = Appended(@, "closed", {s}, w)]
     /\ todo' = todo \ {s}
     /\ UNCHANGED <<phase, run, log, learned, overdue, progressVars,
                    queue, file, clean, found>>

OwnFailed ==
  LET s == Newest(todo)
  IN /\ phase = "own"
     /\ todo # {}
     /\ s \in learned
     /\ \/ "stuck" \in Faults /\ <<run, s>> \in tenant /\ UNCHANGED tenant
        \/ "deaf" \in Faults /\ tenant' \in {tenant, Without(<<run, s>>)}
     /\ todo' = todo \ {s}
     /\ UNCHANGED <<phase, run, log, memoryVars, disk, overdue, progressVars,
                    queue, file, clean, found>>

\* Mutant of LeaveOwn: no prefix pass follows the run's own ledger.
LeaveOwnAtOnce ==
  /\ phase = "own"
  /\ todo = {}
  /\ Exit

LeaveOwn ==
  /\ phase = "own"
  /\ todo = {}
  /\ phase' = "endPrefix"
  /\ UNCHANGED <<run, log, memoryVars, disk, worldVars, progressVars, passVars>>

-----------------------------------------------------------------------------
(***************************************************************************)
(* The prefix pass (cleanupByPrefix): list each collection whose path names *)
(* no created object, delete what carries the prefix, and close the newest *)
(* outstanding entry of that name.  current is the pass's cursor.          *)
(***************************************************************************)
Listing == phase \in {"startPrefix", "endPrefix"}

Listable(e) == Parent[e] = 0

InCollection(e) == {o \in tenant : EntityOf(o[1], o[2]) = e}

Carrying(e) == {o \in InCollection(e) : Named(o[1], o[2])}

\* resolveByName: only this run's entries can hold the name, whatever entity.
Homonyms(o) ==
  IF o[1] = run THEN {s \in Outstanding : Named(run, s) /\ SameName(run, s, o[2])}
  ELSE {}

ListCollection ==
  /\ Listing
  /\ found = {}
  /\ current \in Entities
  /\ current' = current + 1
  /\ found' \in IF ~Listable(current) THEN {{}}
                ELSE {Carrying(current)} \cup (IF "blind" \in Faults THEN {{}} ELSE {})
  /\ UNCHANGED <<phase, run, log, memoryVars, disk, worldVars, registry, at, slot,
                 probing, doomed, queue, file, clean, todo>>

\* Mutant of PrefixGone: every entry of the name is closed.
PrefixGoneClosingAll(o, w) ==
  /\ Listing
  /\ o \in found
  /\ found' = found \ {o}
  /\ tenant' = Without(o)
  /\ settled' = settled \cup Homonyms(o)
  /\ disk' = [disk EXCEPT ![run] = Appended(@, "closed", Homonyms(o), w)]
  /\ UNCHANGED <<phase, run, log, learned, overdue, progressVars,
                 queue, file, clean, todo>>

PrefixGone(o, w) ==
  LET closing == IF Homonyms(o) = {} THEN {} ELSE {Newest(Homonyms(o))}
  IN /\ Listing
     /\ o \in found
     /\ found' = found \ {o}
     /\ tenant' = Without(o)
     /\ settled' = settled \cup closing
     /\ IF closing = {}
        THEN UNCHANGED disk
        ELSE disk' = [disk EXCEPT ![run] = Appended(@, "closed", closing, w)]
     /\ UNCHANGED <<phase, run, log, learned, overdue, progressVars,
                    queue, file, clean, todo>>

PrefixFailed(o) ==
  /\ Listing
  /\ o \in found
  /\ found' = found \ {o}
  /\ \/ "stuck" \in Faults /\ o \in tenant /\ UNCHANGED tenant
     \/ "deaf" \in Faults /\ tenant' \in {tenant, Without(o)}
  /\ UNCHANGED <<phase, run, log, memoryVars, disk, overdue, progressVars,
                 queue, file, clean, todo>>

PrefixDone == found = {} /\ current \notin Entities

\* An audit goes on from its first pass to the entities; the cleanup command
\* (Cleanup) finishes there.
BeginSteps ==
  /\ phase = "startPrefix"
  /\ PrefixDone
  /\ phase' = "steps"
  /\ current' = 1
  /\ UNCHANGED <<run, log, memoryVars, disk, worldVars, registry, at, slot,
                 probing, doomed, passVars>>

Finish ==
  /\ PrefixDone
  /\ phase = "endPrefix" \/ phase = "startPrefix"
  /\ Exit

-----------------------------------------------------------------------------
CreateStep(e) ==
  \/ Enter(e)
  \/ Resolved(e)
  \/ \E w \in Writes : RecordIntent(e, w)
  \/ Send(e)
  \/ Abandon(e)
  \/ \E id \in BOOLEAN, w \in Writes : Accepted(e, id, w)
  \/ \E w \in Writes : Refused(e, w)
  \/ Unclear(e)
  \/ Unseen(e)

ProgramStep ==
  \/ FinishEntity
  \/ \E probe \in BOOLEAN : BeginCreate(probe)
  \/ ResolveParent
  \/ \E e \in Entities : CreateStep(e)
  \/ DeleteMinimal
  \/ CleanupDelete
  \/ \E w \in Writes : DeleteGone(w)
  \/ DeleteRefused
  \/ DeleteUnseen

CleanupStep ==
  \/ \E r \in Runs : SkipFile(r) \/ OpenFile(r)
  \/ ReplayNameless \/ ReplayGone \/ ReplayFailed
  \/ CloseFile
  \/ LeavePrior
  \/ OwnNameless
  \/ \E w \in Writes : OwnGone(w)
  \/ OwnFailed
  \/ LeaveOwn
  \/ ListCollection
  \/ \E o \in found, w \in Writes : PrefixGone(o, w)
  \/ \E o \in found : PrefixFailed(o)
  \/ BeginSteps
  \/ Finish

ProcessStep == ProgramStep \/ CleanupStep

Next ==
  \/ Start
  \/ ProcessStep
  \/ Crash
  \/ \E o \in overdue : CarryOut(o)

Spec == Init /\ [][Next]_vars

\* The process is one thread of control and always takes its next step; the
\* operator's starts, kills and late creates are under no obligation.
FairSpec == Spec /\ WF_vars(ProcessStep)

-----------------------------------------------------------------------------
(***************************************************************************)
(* Properties.                                                             *)
(***************************************************************************)
\* Every variable holds a value of its kind (one type invariant for the module).
TypeOK ==
  /\ phase \in Phases
  /\ run \in 0 .. MaxRuns
  /\ log \in [Runs -> Seq(Intent)]
  /\ \A r \in Runs : Len(log[r]) <= MaxSeq
  /\ learned \subseteq Seqs
  /\ settled \subseteq Seqs
  /\ disk \in [Runs -> LedgerFile]
  /\ tenant \subseteq Runs \X Seqs
  /\ overdue \subseteq Runs \X Seqs
  /\ registry \in [Entities -> 0 .. MaxSeq]
  /\ at \in [Entities -> Points]
  /\ slot \in [Entities -> 0 .. MaxSeq]
  /\ probing \in BOOLEAN
  /\ current \in 1 .. NumEntities + 1
  /\ doomed \subseteq Seqs
  /\ queue \subseteq Runs
  /\ file \in 0 .. MaxRuns
  /\ clean \in BOOLEAN
  /\ todo \subseteq Seqs
  /\ found \subseteq Runs \X Seqs

Objects(r) == {o \in tenant \cup overdue : o[1] = r}

\* "The ledger intent is written and fsynced before the request is sent - the
\* whole point of having a ledger": an object that exists or may still appear
\* has its intent in the file of the run that asked for it.
RecordedBeforeSent ==
  \A o \in tenant \cup overdue : o[2] \in disk[o[1]].intents

\* "Children were created after the parents whose paths embed them": what makes
\* deleting newest first delete a child before the parent it is addressed under.
ChildrenAreNewer ==
  \A o \in tenant \cup overdue :
    EntityOf(o[1], o[2]) \in EmbedsParent => log[o[1]][o[2]].under < o[2]

\* Of the objects of one run that bear one name, there are never more than the
\* run has outstanding entries for: closing the newest entry of a name when an
\* object of that name is deleted loses count of none.
NameAccount ==
  (run # 0 /\ phase # "down") =>
    \A t \in 1 .. Len(log[run]) : Named(run, t) =>
      Cardinality({o \in Objects(run) : Named(run, o[2]) /\ SameName(run, o[2], t)})
        <= Cardinality({s \in Outstanding : Named(run, s) /\ SameName(run, s, t)})

\* An object whose id its run's file holds, under a name no other entry shares.
Traceable(o) ==
  /\ o[2] \in disk[o[1]].known
  /\ \A t \in 1 .. Len(log[o[1]]) : t # o[2] => ~SameName(o[1], t, o[2])

\* "A file with outstanding entries is kept": a traceable object that exists is
\* outstanding in a file still on disk, for a later run to delete it by id,
\* whatever was refused, unanswered, torn or killed on the way.
TraceableStaysRecorded ==
  \A o \in tenant :
    Traceable(o) => disk[o[1]].present /\ o[2] \in OutstandingIn(disk[o[1]])

\* The registry never answers $created:<entity> with an object whose deletion
\* was confirmed, nor a step its delete list.
RegistryIsLive ==
  phase = "steps" => /\ \A e \in Entities : registry[e] \notin settled
                     /\ doomed \cap settled = {}

\* With an API that answers every delete and every listing and carries out no
\* create late, nothing a run made outlives it except what has neither an id nor
\* a name: a child that cannot be listed goes with its parent.
LevelledTenant ==
  phase = "down" => \A o \in tenant : /\ o[2] \notin disk[o[1]].known
                                      /\ ~Named(o[1], o[2])
                                      /\ log[o[1]][o[2]].under = 0

\* Once begun, the cleanup at either end of a run comes to its end: no object
\* whose delete is refused or goes unanswered, none that appears late and none
\* found again by the prefix pass keeps it going (cleanup.go:51-77).
CleanupEnds == phase \in {"prior", "own"} ~> phase \in {"steps", "down"}

=============================================================================
