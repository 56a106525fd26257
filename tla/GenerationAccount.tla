------------------------- MODULE GenerationAccount ---------------------------
(***************************************************************************)
(* The account "provider generate" gives of what it was to generate: what  *)
(* each stage may lose and what it has to leave on record for it.  Pruning *)
(* and verifying are whatever answers with a record of that kind; a block  *)
(* is <<kind, key>>, its attributes the paths drafted for it.              *)
(***************************************************************************)
EXTENDS Integers, Sequences, SequencesExt

VARIABLES
  order,         \* the blocks, in the order the stages walk them
  drafted,       \* block -> the paths drafted for it
  underived,     \* block -> the paths derivation left unsupported
  phase,         \* the stage the run is in
  todo,          \* the blocks the stage has not reached
  bound,         \* block -> the paths still bound, while it has a binding
  removed,       \* what pruning removed, [block, at]
  dropped,       \* what verification dropped, [block]
  registered,    \* the blocks the provider names
  excluded,      \* the blocks emission refused, [block, why]
  keptUnbound,   \* what reaches a schema unbound, [block, at]
  report         \* [block, at, stage]

input   == <<order, drafted, underived>>
losses  == <<removed, dropped>>
outcome == <<registered, excluded, keptUnbound>>
vars    == <<input, phase, todo, bound, losses, outcome, report>>

Blocks == Range(order)
Key(b) == b[2]
Without(f, S) == [x \in DOMAIN f \ S |-> f[x]]
Turn(stage, b) == phase = stage /\ todo # <<>> /\ b = Head(todo)
Passed(next) == todo' = Tail(todo) /\ phase' = IF Len(todo) = 1 THEN next ELSE phase

Covers(r, b, at) == r.block = b /\ r.at # <<>> /\ IsPrefix(r.at, at)
Covered(records, b, at) == \E r \in records : Covers(r, b, at)
Leaf(b, at) == \A x \in drafted[b] : IsPrefix(at, x) => x = at

Init ==
  /\ order \in Seq(Range(order)) /\ DOMAIN drafted = Blocks /\ DOMAIN underived = Blocks
  /\ phase = "bind" /\ todo = <<>> /\ bound = <<>>
  /\ removed = {} /\ dropped = {} /\ registered = {} /\ excluded = {} /\ keptUnbound = {}
  /\ report = {}

Bind ==
  /\ phase = "bind" /\ phase' = "prune" /\ todo' = order
  /\ bound' = drafted
  /\ UNCHANGED <<input, losses, outcome, report>>

\* A block stays with fewer attributes, each loss on record under its own
\* path or one above it, or goes whole, and that is on record.
Lessens(b) ==
  /\ b \in DOMAIN bound' /\ bound' = [bound EXCEPT ![b] = bound'[b]]
  /\ \A at \in bound[b] \ bound'[b] : Covered(removed', b, at)
Falls(b) == bound' = Without(bound, {b}) /\ [block |-> b, at |-> <<>>] \in removed'
Prune(b) ==
  /\ Turn("prune", b) /\ Passed("verify")
  /\ removed \subseteq removed' /\ \A r \in removed' \ removed : r = [block |-> b, at |-> r.at]
  /\ Lessens(b) \/ Falls(b)
  /\ UNCHANGED <<input, dropped, outcome, report>>

\* What goes, goes with every block under its key, and one of them is on
\* record.
Verify ==
  /\ phase = "verify" /\ phase' = "render" /\ todo' = order
  /\ bound' = Without(bound, {b \in DOMAIN bound : \E d \in dropped' : Key(d.block) = Key(b)})
  /\ UNCHANGED <<input, removed, outcome, report>>

\* A rendering leaves in the schema, unbound, only attributes with none below.
Keeps(b) ==
  /\ keptUnbound \subseteq keptUnbound'
  /\ \A k \in keptUnbound' \ keptUnbound : k.block = b /\ k.at # <<>> /\ Leaf(b, k.at)
Skip(b)     == b \notin DOMAIN bound /\ UNCHANGED outcome
Register(b) == b \in DOMAIN bound /\ registered' = registered \cup {b} /\ Keeps(b) /\ UNCHANGED excluded
Exclude(b)  == /\ b \in DOMAIN bound /\ Keeps(b) /\ UNCHANGED registered
               /\ excluded \subseteq excluded' /\ \E x \in excluded' : x.block = b
Render(b) ==
  /\ Turn("render", b) /\ Passed("report")
  /\ Skip(b) \/ Register(b) \/ Exclude(b)
  /\ UNCHANGED <<input, bound, losses, report>>

Fail ==
  /\ phase \in {"prune", "render"} /\ phase' = "aborted" /\ todo' = <<>>
  /\ UNCHANGED <<input, bound, losses, outcome, report>>

Entry(b, at, stage) == [block |-> b, at |-> at, stage |-> stage]
Underived == UNION {{Entry(b, at, "derivation") : at \in underived[b]} : b \in Blocks}
Lost      == {Entry(r.block, r.at, "binding") : r \in removed \ keptUnbound}
Unbuilt   == {Entry(d.block, <<>>, "binding") : d \in dropped}
Refused   == {Entry(x.block, <<>>, "emission") : x \in excluded}
Account   == Underived \cup Lost \cup Unbuilt \cup Refused
Report ==
  /\ phase = "report" /\ phase' = "done" /\ report' = Account
  /\ UNCHANGED <<input, todo, bound, losses, outcome>>

Next == Bind \/ Verify \/ Fail \/ Report \/ \E b \in Blocks : Prune(b) \/ Render(b)
Spec == Init /\ [][Next]_vars

(***************************************************************************)
(* What the account promises.                                              *)
(***************************************************************************)
IsWhole(key) == {r \in report : Key(r.block) = key} = {}

\* An attribute of a registered block is bound, or kept in the schema, or in
\* the report under its own path or that of an object above it.
LostIsReported ==
  phase = "done" =>
    \A b \in registered : \A at \in drafted[b] \ bound[b] :
      [block |-> b, at |-> at] \in keptUnbound \/ Covered(report, b, at)

\* Where nothing is held against a key, every block under it is registered
\* and every attribute drafted for them is bound or kept in the schema.
WholeIsWhole ==
  phase = "done" =>
    \A b \in Blocks : IsWhole(Key(b)) =>
      /\ b \in registered
      /\ \A at \in drafted[b] \ bound[b] : [block |-> b, at |-> at] \in keptUnbound
=============================================================================
