------------------------- MODULE ProviderGeneration --------------------------
(***************************************************************************)
(* One run of "provider generate" from the intermediate representation on  *)
(* (internal/providergen/providergen.go, generate): bind every entity,     *)
(* prune the bindings against the SDK, verify what is left and drop what   *)
(* does not verify, render block by block, and report what the provider    *)
(* will not carry.                                                         *)
(*                                                                         *)
(* A block is <<kind, key>>: one key may name a resource, a data source    *)
(* and a list at once.  model.order is the order the stages walk them in,  *)
(* resources first, and model.of each block's entity.                      *)
(***************************************************************************)
EXTENDS EntityEmission

CONSTANT Scenarios    \* the [sdk, model] pairs a run starts from

VARIABLES
  model,          \* the representation the run was given
  phase,          \* the stage the run is in
  todo,           \* the blocks the stage has not reached
  bindings,       \* block -> its binding, while it has one
  removed,        \* what Prune removed, [block, at]
  reconciled,     \* what Prune settled differently from the draft
  dropped,        \* what DropProblems recorded, [block]
  registered,     \* the blocks the provider's registries name
  excluded,       \* the blocks emission refused, [block, why]
  keptUnbound,    \* attributes that reach a schema with no binding, [block, at]
  report          \* what the refusal report lists, [block, at, stage]

vars == <<sdk, model, phase, todo, bindings, removed, reconciled, dropped,
          registered, excluded, keptUnbound, report>>
input == <<sdk, model>>
outcome == <<registered, excluded, keptUnbound>>

Blocks  == Range(model.order)
Kind(b) == b[1]
Key(b)  == b[2]
Entity(b) == model.of[b]
Bound   == DOMAIN bindings
Stages  == {"bind", "prune", "verify", "render", "report", "done", "aborted"}
Without(f, S) == [x \in DOMAIN f \ S |-> f[x]]

Init ==
  /\ \E s \in Scenarios : sdk = s.sdk /\ model = s.model
  /\ phase = "bind" /\ todo = <<>> /\ bindings = <<>>
  /\ removed = {} /\ reconciled = {} /\ dropped = {}
  /\ registered = {} /\ excluded = {} /\ keptUnbound = {} /\ report = {}

(***************************************************************************)
(* Bindings.                                                               *)
(***************************************************************************)
Bind ==
  /\ phase = "bind"
  /\ bindings' = [b \in Blocks |-> bindEntity(Kind(b), Entity(b))]
  /\ phase' = "prune" /\ todo' = model.order
  /\ UNCHANGED <<input, removed, reconciled, dropped, outcome, report>>

\* Every call is rooted in the client type: an SDK without it ends the run.
LoadFails ==
  /\ phase = "prune" /\ ~HasDecl(ClientType)
  /\ phase' = "aborted" /\ todo' = <<>>
  /\ UNCHANGED <<input, bindings, removed, reconciled, dropped, outcome, report>>

\* What an entity's pruning recorded stays recorded when it goes whole.
PruneBlock ==
  /\ phase = "prune" /\ HasDecl(ClientType) /\ todo # <<>>
  /\ LET b == Head(todo)
         r == PruneEntity(Kind(b), bindings[b])
         about(what) == {[block |-> b, at |-> e.at] : e \in {l \in r.log : l.what = what}}
     IN /\ bindings' = IF IsRefused(r) THEN Without(bindings, {b}) ELSE [bindings EXCEPT ![b] = r.eb]
        /\ removed' = removed \cup about("removed")
        /\ reconciled' = reconciled \cup about("settled")
  /\ todo' = Tail(todo)
  /\ phase' = IF Len(todo) = 1 THEN "verify" ELSE phase
  /\ UNCHANGED <<input, dropped, outcome, report>>

(***************************************************************************)
(* DropProblems drops by key: every kind under a key that has a problem    *)
(* goes, and the one drop recorded is of the first kind that had one.      *)
(***************************************************************************)
Failing == {b \in Bound : VerifyEntity(Kind(b), bindings[b]) # {}}
FirstFailing(key) == SelectSeq(model.order, LAMBDA b : b \in Failing /\ Key(b) = key)[1]

\* Drops the block that failed and leaves the others under its key.
DropFirst ==
  LET keys == {Key(b) : b \in Failing}
  IN /\ bindings' = Without(bindings, {FirstFailing(key) : key \in keys})
     /\ dropped' = {[block |-> FirstFailing(key)] : key \in keys}

DropProblems ==
  LET keys == {Key(b) : b \in Failing}
  IN /\ bindings' = Without(bindings, {b \in Bound : Key(b) \in keys})
     /\ dropped' = {[block |-> FirstFailing(key)] : key \in keys}

Verify ==
  /\ phase = "verify"
  /\ DropProblems
  /\ phase' = "render" /\ todo' = model.order
  /\ UNCHANGED <<input, removed, reconciled, outcome, report>>

(***************************************************************************)
(* Rendering.                                                              *)
(***************************************************************************)
Listed_(key) == <<"list", key>> \in Blocks
Identity(key) == IF Listed_(key) THEN resourceIdentity(Entity(<<"resource", key>>)) ELSE {}
Served(key) == <<"resource", key>> \in registered

Verdict(b) ==
  LET e == Entity(b)
      eb == bindings[b]
  IN CASE Kind(b) = "resource"   -> renderResource(e, eb)
       [] Kind(b) = "datasource" -> renderDatasource(e, eb)
       [] Kind(b) = "list"       -> IF Served(Key(b)) THEN renderList(e, eb, Identity(Key(b)))
                                    ELSE "listResourceNoCorrelatingResourceExists"
       [] Kind(b) = "action"     -> renderAction(e, eb)

\* The nodes whose schema a block declares, an update's own body among them.
Nodes(b) ==
  LET e == Entity(b)
      eb == bindings[b]
  IN CASE Kind(b) = "resource" -> resourceNodes(e, eb.fields)
       [] Kind(b) = "datasource" -> IF e.lookup THEN lookupNodes(e, eb) ELSE companionItems(e, eb)
       [] Kind(b) = "list" -> joinTree(e.attributes, eb.fields, addressingNames(e.attributes, {e.ops["list"]}))
       [] Kind(b) = "action" -> bodyNodes(e, eb)
KeptBy(b) ==
  LET update == IF Kind(b) = "resource" /\ bindings[b].updateWrite # NoExpr
                THEN Unbacked(resourceNodes(Entity(b), bindings[b].updateFields)) ELSE {}
  IN {[block |-> b, at |-> <<name>>] : name \in Unbacked(Nodes(b)) \cup update}

Advance ==
  /\ todo' = Tail(todo)
  /\ phase' = IF Len(todo) = 1 THEN "report" ELSE phase
  /\ UNCHANGED <<input, bindings, removed, reconciled, dropped, report>>

Rendering(b) == phase = "render" /\ todo # <<>> /\ b = Head(todo)

\* A block the bindings lack was reported where it was lost.
Skip(b) ==
  /\ Rendering(b) /\ b \notin Bound
  /\ Advance /\ UNCHANGED outcome

Register(b) ==
  /\ Rendering(b) /\ b \in Bound /\ Verdict(b) = Ok
  /\ registered' = registered \cup {b}
  /\ keptUnbound' = keptUnbound \cup KeptBy(b)
  /\ Advance /\ UNCHANGED excluded

\* A resource short of a lifecycle call and a list with no resource are
\* refused before their attributes are joined.
Exclude(b) ==
  /\ Rendering(b) /\ b \in Bound /\ Verdict(b) \notin {Ok, Abort}
  /\ excluded' = excluded \cup {[block |-> b, why |-> Verdict(b)]}
  /\ keptUnbound' = IF Verdict(b) \in {"resourceNoLifecycleCall", "listResourceNoCorrelatingResourceExists"}
                    THEN keptUnbound ELSE keptUnbound \cup KeptBy(b)
  /\ Advance /\ UNCHANGED registered

\* Any other error ends the run, and nothing of it is written.
RenderFails(b) ==
  /\ Rendering(b) /\ b \in Bound /\ Verdict(b) = Abort
  /\ phase' = "aborted" /\ todo' = <<>>
  /\ UNCHANGED <<input, bindings, removed, reconciled, dropped, outcome, report>>

(***************************************************************************)
(* The refusal report.                                                     *)
(***************************************************************************)
Entry(b, at, stage) == [block |-> b, at |-> at, stage |-> stage]

\* Attributes derivation left unsupported; nothing below one is walked.
RECURSIVE excludedAttributes(_, _)
excludedAttributes(tree, prefix) ==
  UNION {IF tree[i].unsupported THEN {Append(prefix, tree[i].name)}
         ELSE excludedAttributes(tree[i].nested, Append(prefix, tree[i].name)) : i \in DOMAIN tree}

\* Takes everything a block lost for what it kept, once it kept anything.
SeparateByBlock == {r \in removed : \A k \in keptUnbound : k.block # r.block}

\* An attribute that reached the schema unbound is not a loss.
SeparateKept == removed \ keptUnbound

\* Reports what binding lost and nothing emission refused.
RenderUnsupportedBound ==
  UNION {{Entry(b, at, "derivation") : at \in excludedAttributes(Entity(b).attributes, <<>>)} : b \in Blocks}
  \cup {Entry(r.block, r.at, "binding") : r \in SeparateKept}
  \cup {Entry(d.block, <<>>, "binding") : d \in dropped}

RenderUnsupported ==
  UNION {{Entry(b, at, "derivation") : at \in excludedAttributes(Entity(b).attributes, <<>>)} : b \in Blocks}
  \cup {Entry(r.block, r.at, "binding") : r \in SeparateKept}
  \cup {Entry(d.block, <<>>, "binding") : d \in dropped}
  \cup {Entry(x.block, <<>>, "emission") : x \in excluded}

Report ==
  /\ phase = "report"
  /\ report' = RenderUnsupported
  /\ phase' = "done"
  /\ UNCHANGED <<input, todo, bindings, removed, reconciled, dropped, outcome>>

Ended == phase \in {"done", "aborted"} /\ UNCHANGED vars

Render == \E b \in Blocks : Skip(b) \/ Register(b) \/ Exclude(b) \/ RenderFails(b)

Next == Bind \/ LoadFails \/ PruneBlock \/ Verify \/ Render \/ Report \/ Ended

Spec == Init /\ [][Next]_vars

(***************************************************************************)
(* The account of it: which blocks and attributes are left, and what is on *)
(* record for the others.                                                  *)
(***************************************************************************)
RECURSIVE PathsOf(_, _)
PathsOf(fbs, prefix) ==
  UNION {{Append(prefix, fbs[i].attr)} \cup PathsOf(fbs[i].nested, Append(prefix, fbs[i].attr))
           : i \in DOMAIN fbs}
DraftedPaths(b) == PathsOf(bindEntity(Kind(b), Entity(b)).fields, <<>>)
BoundPaths(b)   == PathsOf(bindings[b].fields, <<>>)

Promise == INSTANCE GenerationAccount WITH
  order     <- model.order,
  drafted   <- [b \in Blocks |-> DraftedPaths(b)],
  underived <- [b \in Blocks |-> excludedAttributes(Entity(b).attributes, <<>>)],
  bound     <- [b \in Bound |-> BoundPaths(b)]

(***************************************************************************)
(* Properties.                                                             *)
(***************************************************************************)
\* What is pruned, dropped and refused, step by step, is lost only as
\* GenerationAccount allows: with a record of each loss at its own path or
\* above, and nothing kept unbound that has members (Prune, DropProblems,
\* Refuse and the recorder of what reaches a schema unbound).
AccountIsKept == Promise!Spec

\* An attribute of a registered block is bound, or kept to address the
\* object, or in the refusal report under its own path or that of an object
\* above it (sdkbind/prune.go: a removal is recorded with its reason).
LostIsReported == Promise!LostIsReported

\* The calls, list elements and models Prune settles are what Verify's own
\* walks find: only a field can fail there, by its type, its parse companion
\* or the model of an object that travels in neither direction.
SettledCallsVerify ==
  phase = "verify" =>
    \A b \in Bound : \A p \in VerifyEntity(Kind(b), bindings[b]) :
      p.sort \in {"type", "parse function", "nested model"} /\ p.at \in BoundPaths(b)

\* A member is read back only through an object that is read back, and
\* nothing under an attribute kept from the plan is read (prune_fields.go,
\* liftKeptFromPlan; the state mapping nests one read in the other).
RECURSIVE ReadsNest(_, _)
ReadsNest(fbs, above) ==
  \A i \in DOMAIN fbs :
    /\ fbs[i].get # NoMethod => above /\ ~fbs[i].kept
    /\ ReadsNest(fbs[i].nested, fbs[i].get # NoMethod)
ReadsThroughParents ==
  phase \in {"verify", "render"} => \A b \in Bound : ReadsNest(bindings[b].fields, TRUE)

\* An entity the emittance report calls whole has every block it derived
\* registered, and every attribute drafted for them in a schema (emittance.go).
WholeIsWhole == Promise!WholeIsWhole

\* Whatever a registered block was rendered against the SDK declares, the
\* fields of an update's own body among it, which Verify does not look at.
RenderedResolves ==
  \A b \in registered :
    LET eb == bindings[b]
    IN /\ VerifyEntity(Kind(b), eb) = {}
       /\ fieldProblems(eb.updateFields, fieldModel(eb.read), fieldModel(eb.updateWrite), <<"update">>) = {}
=============================================================================
