# TLA+ project for tfpfgen

`tfpfgen` (`src/`) turns an OpenAPI document into an SDK and a Terraform
provider, and keeps both true to the API it describes. It does not trust the
document: it audits the live API by creating and deleting objects in somebody's
tenant, turns what it observes into corrections of the document, has a person
decide them, and regenerates.

This directory models the parts of it that write to something others depend on
(a tenant, a rate-limited API, a repository), the gate at which people decide, and
the derivations that turn a document into what a provider will do. Each module is a translation of the
Go code that `PROJECT.json` names line by line under `map`.

## The system

```
config validate -> spec import -> audit run -> spec revise -> sdk generate
                                     |            |   ^            |
                                     v            v   |            v
                                  the tenant   propose, decide   provider generate -> verify -> PR
```

| component | state it keeps | operations | where it is hard |
|---|---|---|---|
| audit lifecycle (`audit/run`: run, entity, ledger, cleanup, steps) | the activity ledger on disk, the registry of created objects, the tenant | create, delete, replay an earlier run's ledger, prefix pass, exit | kills, requests without an answer, torn lines, objects created on the way to another |
| audit request engine (`audit/run`: client, ratelimit, backoff) | budgets, deadline, token bucket, refusals met | charge, resolve, wait, send, retry, slow down | nesting, retries, two clocks, overflow |
| create-body correction (`audit/run`: adjust, cycle, borrow, steps) | the body, what was applied, what was learnt | add, remove or change a field after a refusal, try other values, search | sequences of corrections that undo one another, answers read with the wrong body |
| evidence and observations (`audit/run/evidence`, `audit/observe`) | committed observation files | record, merge | two steps that disagree |
| inference, plan, strategy (`audit/infer`, `plan`, `strategy`) | none | pure functions of document and evidence | cycles, order |
| decision gate (`spec/revise`, workflows 10 and 20) | proposals, a pull request, recorded decisions | propose, open, refresh, withdraw, record, continue | two workflows and a person |
| correction compiler and applier (`spec/correction`, `spec/revise`) | none | compile, apply in order | several entities correct one schema, indices that move |
| specification store (`spec/store`) | document and lock | import, verify | two files, one pin |
| generated trees (`sdkgen`, `providergen`, `manifest`) | the SDK directory, the provider's files, `manifest.json` | sdk generate, provider generate, both verifies | a run stopped anywhere, two writers of one manifest |
| specification model and IR (`specmodel`, `intermediate_representation`) | none | classify, name, fold schemas, build attribute trees | order, names that collide, schemas that contain themselves |
| SDK binding (`sdkbind`) | the bindings, what was removed of them | draft, prune, verify, drop | three walks of one SDK that must agree |
| emission (`emit`) | registries, two reports | join, render, register, report | an attribute or a block lost at any stage |
| fixtures | none | pure text | - |
| test API server, config, CLI | a test double; none | - | - |

They interact through files (the ledger, observations, corrections, the revised
document, the manifest), through the tenant, and inside the audit by calls: a
create asks the request engine, which may ask for another create to resolve a
path. `PROJECT.json` lists every component with its status and every hazard with
the line at which it bites.

What makes each correct: the audit leaves nothing in the tenant it could have
removed, and knows of everything it has not; the request engine never spends
more than its budgets and never goes faster than its rate; correction ends, and
records only what the API's answers show; the decision gate loses no decision and
takes none itself; accepted corrections apply together and a revision leaves none
open; whatever the document declares is derived, and whatever the provider will
not carry is reported; what is rendered exists in the SDK; a generated tree is always the tree of one document, and
verification tells a stale tree from an edited one.

## Modules

| module | models | extended by |
|---|---|---|
| `AuditRun` | the audit's objects, ledger and cleanups over several runs | `MCAuditRun`, `AuditRunProofs` |
| `RequestPacing` | budgets, bucket, backoff, deadline, nesting | `MCRequestPacing`, `RequestPacingProofs` |
| `BodyCorrection` | one step's body, corrected until the API takes it | `MCBodyCorrection`, `BodyCorrectionProofs` |
| `GeneratedTree` | both generating verbs, the manifest, both drift gates | `MCGeneratedTree`, `GeneratedTreeProofs` |
| `AtomicTree` | what a tree's replacement promises | instantiated by `GeneratedTree` |
| `DecisionGate` | both workflows and a person, concurrently | `MCDecisionGate`, `DecisionGateProofs` |
| `Decisions` | what the gate promises of an observation | instantiated by `DecisionGate` |
| `SpecDocument` | a document as a tree of nodes, corrections' operations on it, locating a schema | `CorrectionCompiler` |
| `CorrectionCompiler` | one rule for each kind of observation | `SpecRevision` |
| `SpecRevision` | import, audit, propose, accept, reject, revise over one document | `MCSpecRevision`, `SpecRevisionProofs` |
| `SchemaFold` | one view of a schema's references, branches and unions | `OperationRoles` |
| `OperationRoles` | operations into roles, an entity into its kinds | `AttributeTrees`, `SpecLoading` |
| `SpecLoading` | a written document read, or refused | `EntityDerivation` |
| `AttributeTrees` | one attribute from what create, read and update say of it | `EntityDerivation` |
| `EntityDerivation` | the whole derivation, step by step | `MCEntityDerivation`, `EntityDerivationProofs` |
| `SdkTypes` | the SDK's Go types and how they are looked up | `SdkBind` |
| `SdkBind` | the draft of a binding in either dialect | `SdkPrune` |
| `SdkPrune`, `SdkEntities` | calls, fields, lists and bodies settled against the SDK | `SdkVerify` |
| `SdkVerify` | the verification by walks of its own | `EntityEmission` |
| `EntityEmission` | which attributes of a block reach a schema, and whether it renders | `ProviderGeneration` |
| `ProviderGeneration` | one run of the stages over all blocks, and its report | `MCProviderGeneration` |
| `GenerationAccount` | what a generation promises of what it loses | instantiated by `ProviderGeneration`, `GenerationAccountProofs` |

### AuditRun

One run is a `phase`: the replay of earlier ledgers (`prior`), the prefix pass
that follows it (`startPrefix`), the entities' programs (`steps`), the run's own
cleanup (`own`) and its prefix pass (`endPrefix`); `down` is between processes.
`log[r]` is what run `r` has in memory of its creates, `disk[r]` what can be read
back from its file. An entity in the middle of a create has a point `at[e]`
(`enter`, `resolve`, `record`, `send`, `wait`), so that the creates of parents
made while resolving a child's path interleave as the nested calls of
`createObject` (entity.go:352) do. `tenant` is what exists, `overdue` what an
unanswered create may yet bring into being.

Every fault is a name in `Faults`, so that a run says which it grants: a ledger
line lost, unsynced or torn; a create without an id, answered unclearly, not
answered, or carried out late; a delete refused or unanswered; a collection that
cannot be listed; a kill. Of a torn line the model keeps what reading the file
back would find: the next line shares its physical line and is lost with it.

Abstracted: which probe comes next is a choice, and the probes that only read or
update are left out, as are bodies. One process runs at a time.

### RequestPacing

`calls` is the stack of requests being made, innermost first; each is at a step
of `do` and `send` in client.go. Time is ticks; tokens are counted in ticks as
well, which makes the bucket's fractions exact. `Retry-After` is multiplied in a
word of `2 * Word` values as `time.Duration` does it. `borrow` marks a request
whose failure its caller swallows (borrow.go:51). `since` and `burst` are history
variables: when the present rate took effect and what has been granted since.

Abstracted: what is asked and answered. A 429 is the only answer the engine
tells apart.

### BodyCorrection

A behaviour is one step of an entity's program: a minimal create, a create pinned
to one value (`probe`), one half of a required-when pair (`half`), a parent
re-created for a child (`parent`), or an update. `at` is where it is: `loop` and
`answer` are the two ends of a pass of `correctCreateBodyRecording` (adjust.go:239)
or of `adjustUpdate`; `widen`, `segments` and `cycle` the three kinds of trial
tried in that order when a refusal names no change; `fields`, `search` and `wider`
the additive search that a minimal create falls back on. One action is one request
or one change. A trial is a record of the field tried, its own value and the values
left, which is what the nested loops of cycle.go hold in local variables; `tries`
is `attempts` at cycle.go:63.

An API answers every body as it likes: each request picks any of `Answers`, again
and again. An answer is how it is classified (created, refused, a 409, a 5xx, any
other status, or an error of the request itself) and what `parseRefusal` would read
out of it. `evidence` is the set of facts written down, `answered` a history
variable: the body that the answer in hand was given to. `taken` is the body the
API took.

Abstracted: a body gives each field one of a few values (absent, synthesised,
moved, with its attested members, borrowed, an enum member, a path segment), and
members inside a composite are not told apart. Two refusals are the same when they
would be read the same. Where the code goes through a map's keys in order, the
order is left open. The sentences of the grammar are left out. Not modelled are
the maximal body with its narrowing and dropping, the steps that omit a field or
send an undeclared one, and a run without hints.

### GeneratedTree and AtomicTree

`pc` walks through `sdk generate` (`clear`, `park`, `install`, `unpark`,
`sdkSave`: the five effects of `swap` and `Save`) or `provider generate`
(`provider`, `remove`, `providerSave`, `tidy`, `build`, `refresh`). A file's
content is a record of where it came from, and a digest is the content. The
manifest maps paths to digest, origin (the provider's, empty in the file, is
`provider` here) and mark, and `readable` is false once a
save has torn it. The two gates are the operators `SdkDrifts` and
`ProviderDrifts`, evaluated where nothing runs. `done` and `strayed` are history
variables.

`AtomicTree` is a tree that one step replaces, with the one way the code may lose
it: only the parked copy holds it, and a new run begins by removing that.
`SwapIsAtomic` states that `GeneratedTree` implements it, the value being the
document the standing directory is the whole tree of.

Abstracted: what a document generates is a set of paths; the order in which the
provider's files are renamed is left open; whatever a verb refuses before it
writes changes nothing; `go mod tidy` writes both its files or none; what a person
changes in the SDK does not reach what the provider emits. The paths a person
owns lie outside `sdk.out`.

### DecisionGate and Decisions

A generation run `r` proposes what it `found` and nobody has decided; `opening` and
`withdrawing` are where its two jobs of 10-generate.yml are. `OpenStart` is the
checkout that settles what the job takes for `decided`; `Push` and `Publish` are the
two halves of one turn of its loop over the groups, a push of the branch and then
the pull request opened or refreshed with it, so that another run's push may come
between them. `Merge` and `Close` are the person's. `Record` is one run of
20-corrections.yml's record job, for any answered pull request, in any order;
`ContinueStart` and `Continue` are its continue job, of which GitHub's concurrency
group keeps one at work and one waiting, the newest: recording sets `pending` and
drops what waited. `accepted` and `rejected` are what is on the default branch.

`Decisions` is what an observation's life may be: put to a person, answered, and
recorded. `OnlyPeopleDecide` states that `DecisionGate` implements it.

Abstracted: an observation is its id; what a correction does is SpecRevision's. What
an audit finds is any of `Audits`. A pull request is known by the run that opened it
(`born`) rather than by its number: each run opens at most one for each group.

### SpecDocument, CorrectionCompiler and SpecRevision

A document is a function from pointers to nodes. `SpecDocument` has the operations of
a correction (add, remove, replace and test, with the index they name), references
followed at most `RefHops` times, and the place at which a property is declared
through `allOf`. `CorrectionCompiler` has one rule for each of the kinds of
observation, and `SpecRevision` the specification directory as its files: the
document and its lock, the observations and the digest they are stamped with, the
accepted, proposed and rejected files by name, and the revision. `Propose` clears and
compiles, `WriteCorrection` writes one of what is `due` under the number `next`, and
`Proposed` ends the verb or goes on to the write of `revised.yaml`; `verb` says which
is under way. `Kill` may come before any write and `KillClearing` between two removals.
A file is written whole: of those torn by a kill inside os.WriteFile only the lock is
modelled (`TornFile`).

Compilation works in one order over all observations and on the document as the
corrections before leave it, which is where its difficulty lies: each operation's
index is that of a list earlier operations have changed. `State` is that order,
applied; `Compilation` the fold over the observations.

Abstracted: a value is a scalar, a list of scalars or a mapping; prose and the
reasons written in a report are left out; the kinds that compile to the same
operation under another key are rows of one table.

### SchemaFold, OperationRoles, SpecLoading, AttributeTrees and EntityDerivation

`SchemaFold` is a schema seen through references and `allOf` as one list of nodes of
which the first to state a fact wins. `OperationRoles` gives each operation of a
collection its role (create, read, update, delete, list), or none, and decides what
the entity can become. `AttributeTrees` makes one attribute of what create, read and
update each say of a property: its presence, its type, whether changing it replaces.
`EntityDerivation` runs `Derive`: gather the paths (`Gather`) and assign each
operation of one (`Assign`), refuse or name the collections in the order of their
paths (`Refuse`, `Name`; `undecided` is what is left and `Turn` whose turn it is), note
the families that derive one key, then build each kind of each entity a level a
step (`Begin`, `Grow`, `Finish`). The code goes depth first; the tree is the same
set, and a tree that never ends can be asked about.

A run starts from a written document, which `SpecLoading` reads: `Load` is what the
rest sees of it, `Faults` is all that could refuse it. It takes the paths in the order
of their names and the operations in the order of the methods, follows references to
components of the right section, prefers a JSON medium, lets an operation's parameter
win over its path's, and checks each extension's shape. Only what is read can refuse a
document: `Parsed` is the schemas beneath the components, the parameters and the chosen
media. `RefusalsAreNamed`, which TLC evaluates with the run, refuses ten broken
documents, each for its own fault alone, and takes one that is broken where nobody
reads. `DocumentsAssumption` says no more than that the strings have one order and that
an operation has one of the methods; that a loaded document has a path once is proved.

Abstracted: names are sequences of words, so that joining and splitting them is
exact while case is left out. Bounds, prose, enumerations and formats fold like the
facts that are kept, and are left out.

### SdkTypes, SdkBind, SdkPrune, SdkEntities and SdkVerify

`SdkTypes` is the generated SDK as go/types sees it: named types with method sets,
fields and declared functions, and a type as a stack of wrappers over a name.
`SdkBind` drafts a binding in the spelling of either generator. `SdkPrune` settles
each field and `SdkEntities` each call, list and body: a spelling is escaped,
unescaped or repaired where there is one candidate, a field neither direction of
which exists goes with its reason, and so does what is emptied by its own removals.
`SdkVerify` walks the settled binding again with lookups of its own.

### EntityEmission, ProviderGeneration and GenerationAccount

`EntityEmission` holds what decides whether a block is written: the join of
attributes with bindings, and the checks in their order, each of which refuses the
block for a reason or takes the run down. `ProviderGeneration` is one run:
`Bind`, `PruneBlock`, `Verify` with `DropProblems`, then each block skipped,
registered or excluded, and the report. One key may name a resource, a data source
and a list, so a block is a kind and a key, while `DropProblems` drops by key alone,
as the code does.

Abstracted: the text of the files. An attribute that reaches a schema is a node with
its binding.

`GenerationAccount` says of the same stages only what they may lose and what has to be
on record for it: a block is a set of paths, pruning takes paths off it with a record at
or above each, or all of it with a record of that; verification takes every block under
a key with a record of one; emission registers or excludes, and keeps in a schema,
unbound, only attributes with nothing below; the report holds these records but for what
was kept. `ProviderGeneration!Promise` is the instance whose paths are those of the
bindings, and `LostIsReported` and `WholeIsWhole` are stated of it.

## Runs

| run | instance | states | shows |
|---|---|---|---|
| `audit_nested` | parent and child, one run of three creates, every fault but a torn line | 0.3 M | `RecordedBeforeSent`: every object is in the ledger before its request. `ChildrenAreNewer`: deleting newest first never deletes a parent before its child. `RegistryIsLive`: a path is never resolved with a deleted object |
| `audit_restart` | one entity, two runs of two creates, torn lines, kills, late creates, refused deletes; fairness | 2.2 M | `TraceableStaysRecorded`: what a later run could find is not forgotten. `NameAccount`: the prefix pass can account for every name. `CleanupEnds`: neither boundary's cleanup is kept going |
| `audit_levelled` | parent and nameless child, two runs, an API that answers deletes and listings | 46 k | `LevelledTenant`: nothing findable is left |
| `pacing` | 4 requests/s, budgets of 4 and 3, nesting of 2, retries; fairness | 0.6 M | every attempt is charged (`EveryAttemptCharged`), the bucket holds across slowdowns (`Paced`), pauses and the closing cleanup are bounded, every request ends |
| `correction` | four fields, six steps, seventeen answers; fairness | 0.4 M | a refusal is read with the body it is of, a field claimed is in the taken body or on record as removed (`FalseClaimsAreContradicted`), combinations do not contradict, the step ends |
| `correction_claims` | the same | violation | a field is claimed that the taken body lacks (see Disagreements) |
| `revision` | one specification directory, fifteen scenarios of audits, one kill | 27 k | `CompiledApplies`, `AcceptingSettles`, `TakenStayDeclared`, `DecisionsKept`, `RevisionSettled` |
| `gate` | two observations in two groups, two overlapping generation runs, a job that fails and is run again | 4.8 M | a continued run passes its gate, no continuation is lost, a person's no is recorded or still to be (`RefusalKept`), only people decide (refines `Decisions`) |
| `trees` | three documents, four generations, one edit, every fault | 0.6 M | `SuccessIsClean`, `EditsCaught`, `Accounted`: the gates are right and nothing is stranded. `AuthoredUntouched`. `SwapIsAtomic` (refines `AtomicTree`) |
| `derivation` | a document with every kind of entity and any two of twenty-seven deviations | 28 k | no operation goes missing, families stay apart and are noted, replacement plans and computed members are right at every depth, no name twice |
| `derivation_circular` | a tag with a parent tag | violation | an attribute tree grows without end (see Disagreements) |
| `generation` | two dialects, any two of the named deviations of SDK and document | 12 k | every stage keeps the account (`AccountIsKept`, refines `GenerationAccount`), what is lost is reported, what pruning settled verifies, reads nest, an entity reported whole is whole, what is registered resolves |

Each property of a passing run has a mutant beside what it changes (`PROJECT.json`,
`mutants`): a plausible bug under which the same run finds that property violated.

**Bounds.** `Numerals` (EntityDerivation: how far a key is numbered), `MaxSeq`, `MaxRuns` (AuditRun), `MaxLatency`, `MaxDepth`, `MaxRefs`,
`MaxCleanups` (RequestPacing), `MaxJobs`, `MaxEdits` (GeneratedTree), `MaxRuns`,
`MaxFaults` and `Fallible` (DecisionGate: how many jobs fail, and which stand to), `LastOrdinal` and `MaxKills` (SpecRevision) are the only
bounds that are not the program's own; each sits in a guard. BodyCorrection has
none: its four bounds are the program's, made smaller in the instance. Three creates are a
parent, a child under it, and a parent re-created for the child; two runs are a
crash and the run that starts from what it left. A nesting of two and two
references are the least at which a request resolves a path whose own request is
refused and retried. Four generations of two verbs are enough for a verb to
fail, the other to run on what it left, and both to run again on a document that
has dropped one file and claims another.

BodyCorrection's instance has five passes of the loop for the program's twelve,
four for a probe as in the program, three values cycled for eight and three fields
searched for twenty-four. Five passes let a field be added, the choice among those
offered move on, a trial move the create on, a field be removed, and the bound be
met; three values are more than one field has left to try, so that both ways out of
a cycle happen. The gate, a sibling with an enum, a composite and a field the
document does not declare are the four kinds of field the code tells apart, and the
two minimal bodies are the one that leaves everything to the search and the one
that leaves everything to the trials.

DecisionGate's two runs overlap at every step, and the second may be the one a
continuation starts: a third would repeat one of these. Two groups let an answer to
one be recorded while the other is open. A job may fail wherever an audit has found `o1` alone so far: the runs
together with every failure of every job are past what TLC takes in minutes, and the
proofs of all four properties are of any `Fallible` and `MaxFaults`. SpecRevision's scenarios are
audits that disagree over one property, one schema that two entities correct, a
shared enum, conditions, dependencies, and a correction written by hand, each
with a vendor who may publish another version; four ordinals are more than a
scenario makes before a number is taken again.

The last two instances are catalogues. `MCEntityDerivation` starts from one document
with a full lifecycle, an action, a child below a parent, a singleton and a lookup,
and applies any two of twenty-seven deviations to it; `MCProviderGeneration` starts
from an SDK that is what the draft guesses and applies at most `Changes` deviations a
generator is known for. A single deviation exercises one rule; two are needed
wherever a rule is defeated by what another has done, such as a model that is
emptied by one removal and referred to by another.

**Fairness.** `AuditRun!FairSpec` is weakly fair to `ProcessStep`, any step of the
running process: it is one goroutine, which always takes its next step. Starts,
kills and late creates are under no obligation. That a request is answered
or given up is `RequestsEnd` of RequestPacing.
`RequestPacing!FairSpec` is weakly fair to the steps of a request already made,
the same goroutine's; nothing obliges the run to make another. `BodyCorrection!Spec`
is weakly fair to `Next`: one goroutine, each of whose
requests is answered or times out, which `RequestsEnd` of RequestPacing is about.
The other modules state no liveness. DecisionGate states none because a failed job runs
again only if somebody asks for it: that an answer is recorded in the end is that
somebody's to see to, and `RefusalKept` that it can still be.

**Deadlock** is not checked in AuditRun and RequestPacing, whose process stops
after its last run or request, in DecisionGate, which comes to rest once every run
is done and every pull request answered, nor in SpecRevision, in which nothing is left
to do when the audits are used up and the document is revised. GeneratedTree
never stops: documents move.
BodyCorrection, EntityDerivation and ProviderGeneration stutter once they are
done, so a step stuck anywhere else is found.

## Disagreements

Two are runs. `derivation_circular`: buildAttributeTree follows properties for as
long as a schema has them, so a tag with a parent tag is derived until memory
ends. The loader takes such a document as an ordinary one (specmodel/load_test.go:9-10),
and audit/plan/synthesise.go:11-13 bounds the same descent "so a self-referencing
schema - a tag with a parent tag - produces a finite body instead of a loop".

`correction_claims`: adjust.go:227-229 records each field the grammar added as required
when a create is taken, since "the API took a body carrying every field the grammar
added". The field may have been removed for a later refusal: applyAdjustment takes it
out of the body and records the removal (adjust.go:580-585), while the pending add
stays; only a choice that is given up drops one (withoutAdd, adjust.go:415-417). The
inference reads each add as a requirement and looks at no removal (infer.go:296-312).
`FalseClaimsAreContradicted` is the weaker form that holds and is proved: such a claim
has its contradiction recorded beside it. Even that is of top-level fields: the removal
of a member under a dotted path is recorded nowhere (adjust.go:568-577), and members are
not modelled.

The quotations are in `PROJECT.json`, `findings`.

The rest were met while modelling. The models below do what the code does, and where
a property would not hold it has the weaker form that does, named here.

In the audit:

- ledger.go:20-21 says that the intent is durable before the request is sent. append
  (ledger.go:126) writes behind whatever the file ends in; where an earlier line was
  written in part and the process went on, the intent shares its physical line, and
  reading the file back skips both. `RecordedBeforeSent` is checked without torn lines and
  proved under `NoTear`.
- backoff.go:197 multiplies seconds into a Duration before it compares them with the
  cap. A product that wraps to less than was asked for is slept as it is.
  `PausesBounded` is the upper bound, which the wrapped product cannot pass; nothing
  here forbids a pause too short.
- run.go:63 calls `Budgets.Objects` a ceiling on live objects; createObject compares
  before it creates the parents it needs, so the ceiling is passed by as many objects
  as an entity is deep.
- cleanup.go:79 keeps a file that still names possible objects; an entry with a name
  and no id counts as settled before the prefix pass runs (cleanup.go:127). A kill between
  the two leaves its object on no file: `LevelledTenant` is of a process nobody kills.
- adjust.go:209 keeps what a parent's create needs from being recorded against the
  child; `record` is not looked at where a time is moved ahead (adjust.go:556), a
  value is tried (cycle.go:75 and 91) or a segment is taken (cycle.go:284).
- steps_update.go:34 takes every answer that is not a refusal for acceptance, a 5xx
  among them, and records the fields it had added. `ClaimsWereTaken` is therefore of
  creates, and `FalseClaimsAreContradicted` asks of an update only that it was answered.

In the generated trees:

- manifest.go:48 has the drift gate cover go.sum; neither gate looks at its origin.
- providergen.go:475 leaves a file that will not delete for `provider verify` to
  report; the manifest has forgotten it by then.

In the decision gate and the revision:

- 10-generate.yml has no concurrency group: the pushes of two runs to one branch and
  their edits of its pull request may interleave, and a merge then accepts a tree
  the body's ids do not describe. Publishing is modelled in its two halves for that
  reason.
- 20-corrections.yml:14-15 has the pipeline continue "exactly once, at the end". The
  continuation reads the default branch, so that of the last answer but one may find
  the last merge there already; the last answer then dispatches a second run.
- 20-corrections.yml:232-236 leaves a withdrawn pull request to the run that withdrew
  it, which "continues, or gates, under its own steam". If it gates, and everything it
  asked is answered before its job has withdrawn the rest, the continuation finds a
  pull request open and stops; the withdrawal that closes it starts none, and nothing
  regenerates until the next dispatch. `NoLostContinuation` therefore says nothing
  once a run has begun to withdraw.
- Where the pushes of two runs to one branch interleave as above, a merge takes the
  tree of the one under the body of the other. The continuation follows the body: it
  finds what that run proposed undecided and stops, while all that the run whose tree
  it was proposed is decided, with no pull request left to answer and nobody to
  regenerate. The proof of `NoLostContinuation` failed on this; the property now begins
  where what every run proposed is decided.
- A job that lists the markers before a rejection is recorded asks about the same
  observation once more.
- propose.go:4-8 calls proposing convergent. Two conditions of one kind on one property
  share the one key that holds a condition, and replace one another at every run;
  `AcceptingSettles` and `RevisionSettled` assume `OneConditionEach`.
- propose.go:483-490 writes an auto-accepted correction over its own earlier file when
  the value has moved. It was compiled on the document that earlier file had made, and
  in that file's place need not apply. `AcceptingSettles` begins where all that is
  accepted applies.
- report.go:44-46 makes a group "rejectable as a unit"; a correction of one group may
  rest on a property another group declares, and accepting the one and rejecting the other
  leaves a revision that does not apply.
- Files sort by a three-digit ordinal (propose.go:116, 303 and 306). Past 999 the order of
  application is no longer that of compilation, and a file so numbered is not known for
  a numbered one: it is not cleared, nor counted by highestOrdinal. `HandAssumption` has
  `LastOrdinal` at most 999, in the run and in the proofs.
- A lock that a kill has torn is refused by `spec import` itself (store.go:123-124): until
  somebody removes the file, nothing is imported. `Import` does the same.

In the derivation:

- A PUT or PATCH of an item beside a singleton is in no role and not among the extra
  ones, against classify.go:69-71 ("never silently dropped"). `EveryOperationCarried`
  excepts it.
- A singleton keeps references to Create and Delete, against classify.go:64-66.
- A component's body or response that is itself a reference loads, with no schema, and
  a path item's reference is not looked at (load.go:151-166 and 180-193);
  `additionalProperties` behind an alias reads as a bare `true` (load.go:559).
- A companion data source appends `items` whether or not the tree has one, and two
  wire spellings may share a snake case name. A listed object with a scalar property
  called `items`, or a path parameter of that name, gives the companion two attributes
  of one name (derive.go:498-502), and "two attributes of one name is not a schema"
  (attribute_addressing.go:59). The proof of `OneNameEach` needs both excluded, and the
  run's documents have neither.
- excludeReservedRootNames runs before ensureParentParameters, so a path parameter
  called `provider` reaches the schema's root.
- The identifier property is renamed for the resource alone, not for its list and
  data source; a list's addressing calls a parent's `id` "id" where the resource says
  `<parent>_id`.

In binding and generation:

- DropProblems deletes by key from all four maps and records the first kind it meets
  alone (verify.go:453-485): a data source that did verify goes with the resource of
  its name and is not listed, against services.go:29-31 and verify.go:447-449.
- A field kept with an object whose model is in neither direction has no nested model,
  and Verify drops the whole entity for it. checkParseFunc looks in models and the root alone.
  A map of named enums is recorded as one of a basic type. `SettledCallsVerify`
  therefore excepts these three sorts of problem.
- prune_fields.go:55-58 flips a setter back to the spelling the draft gave it and
  records that as reconciled; prune.go:109-111 says that no change is none.
- settleUpdateBody's failure is recorded under no attribute while the resource stays
  registered, and Verify never looks at the update's own fields.
- services.go:48-51 has an entity that cannot be rendered refuse itself and "every other
  error" abort. A conversion with no form, a dependency and a rule on an attribute the
  schema does not carry are facts about one entity, and are such other errors.
- groupByTag's `Produced` (emittance.go:182-193) lists the kinds that were derived,
  registered or not.

## Proofs

TLAPS checks these for every value of the constants that the modules'
assumptions (`PlanAssumption`, `PacingAssumption`, `CorrectionAssumption`,
`TreeAssumption`, `GateAssumption`, `HandAssumption`, `DocumentsAssumption`,
`NumeralsAssumption`) allow.
TLC evaluates the assumptions in each run and has checked each property on an
instance first.

**AuditRunProofs.** `TypeCorrect`: the invariant `Shape` is `TypeOK` with what it
needs of the program counter, such as that a run is under way whenever a step is
and that no log is longer than its bound; one lemma for each group of actions
proves that they keep it. `EveryObjectRecorded`: no object exists, or may still
appear, whose intent is not in its run's file. `RecordedBeforeSent` alone is not
inductive: that a create about to be sent has been recorded, and that the file
being written ends in a whole line, are what it rests on, and `Recorded` adds them.
The theorem assumes `NoTear`, that no ledger line is torn by a process that goes
on running. Without it the theorem is false of the code too: a torn resolution
takes the next intent with it. A kill may tear a line all the same. What each
step may do to the files and the objects is one predicate, `Keeps`, that each
group of actions is shown to satisfy.

`ChildrenFollowParents` and `RegisteredAreLive`, for all
faults, torn lines and any depth of nesting. Both rest on one invariant, `Ordered`.
`Frames` is the recursion of createObject as data: of the creates under way each
but the innermost waits for its parent's, none runs while a delete list is being
worked off, and one past resolving its item path has its parent registered. So
nothing changes which parent a path will name between the intent and the request;
`Slots` says that the number announced is above the parent's, settled by nothing
and registered nowhere; `Registered` that what is registered is an entity's own
unsettled number; `Rested` what the boundary cleanups leave to the program.

The last three are on what a run accounts for, each resting on
the one before. `KnownStaysRecorded` is for all faults, torn lines and kills among them.
`TraceableStaysRecorded` speaks of files and objects alone; `Lines` adds what the
entries of a log say of parents (`Lineage`: all that was learned lies under the object
now registered for its parent), and `Account` that an object exists or may still appear
but not both (`Apart`), that a listing's finds exist and lie at the root (`Gathered`), that
a file agrees with what exists (`Filed`), and that a replay gone well so far has its
traceable objects still before it (`Replayed`). What a step may do to all of these is
one predicate, `Accounts(K, S, N)`, of the ids it learns, the entries it settles and the
objects it makes. `NamesBalance` counts: until the prefix pass, each object has an
outstanding entry of its own (`Unsettled`, an injection), and in the pass each deletion
takes one object and one entry of one name. `NothingFindableLeft` assumes `Calm`, an API
without late creates, refused or unanswered deletes and blind listings, and no
kill, as `audit_levelled` does. `Level` says of each phase which of the run's objects
its cleanup is still to reach, by id (`Sheltered`, `Reached`) or by a listing (`Loose`).
`CleanupDescends` is the half of `CleanupEnds` that needs no fairness: in the passes
that begin and end a run every step of the program, a kill or the API takes a rank of
seven numbers (the phase, the ledgers left, the collections, the entries, the objects,
the creates in the air) down a lexicographic order, which is proved well-founded.

**RequestPacingProofs.** One inductive invariant, `IInv`, of five parts: `Stack`
(only the innermost request is past resolving), `Counters`, `Clock` (no time
stamp lies ahead, and the closing cleanup is within its limit), `Bucket` and
`Allowance`, the account that pacing rests on: what has been granted since the
present rate took effect, and the tokens in hand, are no more than a second's
burst and what that rate has earned. From it follow `PacingTypeCorrect`,
`EveryAttemptIsCharged`, `RunIsPaced` and `ClosingCleanupInTime`. `NoLongPause` is an
action property: `PauseStep` shows for each step that starts a sleep that it is no longer
than the cap or the draw's ceiling, whatever the product of the header and the unit
wraps to, and `Clock` that no step takes the closing cleanup past its limit.
`RequestsDescend` is the same half of `RequestsEnd`: what remains of each nested request
(`Remains`, its attempts and its references), the outermost first, goes down with every
step while one is being made. `TokenWithinASecond`: from `Bucket`, a request that waits
for a token has one within `Second` ticks. So the bound `now .. now + Second` on the
instants at which `RequestStep` may grant leaves nothing out.

**BodyCorrectionProofs.** `CorrectionTypeCorrect`: `TypeOK` is inductive as it
stands; what a correction may be is a type of its own (`CorrectionType`), proved
once for all the kinds of change. `RefusalStaysOfBody`: `RefusalIsOfBody` says
nothing while a trial is under way, so `RefusalInv` adds that the body, with the
tried field put back, is the one that was answered (`TrialUndone`), that no answer
is pending while one is dealt with, and that no trial is under way in the loop.
`ClaimsAreOfBodies`: `ClaimInv` adds that nothing is claimed before the end
(`UnclaimedYet`), that each field waiting to be claimed is in the body or its removal is
on record (`AddsWait`), and that what a trial puts in, or puts back, is never an
absence (`TrialPresent`). `CorrectionKeeps` is the lemma about the corrections:
only a removal takes a field out, and it leaves its fact. `Answered` is what the
step that ends in an answer owes the invariant; `LoopTakes`,
`SearchTakes` and `Unclaiming` are the three ways a step may write evidence.
`CombinationsAgree`: under `CombinationInv` no combination is recorded as taken
before the step is done (`NoneTaken`), every refused one is of a field already
marked as cycled (`OnceEach`), and the values a trial has left make combinations
not yet written down (`LeftAreNew`), so that the one taken at the end is new.
`CorrectionEnds`, the measure of `Terminates`: each step takes the attempts left, the
place in an attempt, the fields that bear no mark yet, and the values and candidates
untried, in that order, down. It is for this that the assumption has the fields, members
and segments finite. All five theorems hold for any set of answers, and so for any API.

**GeneratedTreeProofs.** `AuthoredFilesUntouched`: that a person's files are
never written is not inductive by itself. `Owned` adds why: their marks are still in the
manifest, no file waiting to be installed or removed is one of them, and the
document a provider run is installing emits none. The save and the refresh of the
manifest are shown to keep the marks in lemmas of their own.
`SwapImplementsReplacement`: `SwapInv` says that an SDK directory in place is
whole, that the parked one is part of one document's tree, and what the program
counter says of both; under it every step of `GeneratedTree` is a step of
`AtomicTree` or changes nothing there, one lemma for each step of the swap
(`ParkMaps`, `InstallMaps`, `InstallFailsMaps`, `RemovalMaps`, `BeginMaps`) and
one, `StillMaps`, for all the others. What is lost is lost in `RemovalMaps` alone.
`EditsAreCaught`, `SuccessLeavesClean` and
`EveryFileAccounted` rest on one invariant, `Books`. `Places` and `Origins` say
which paths each verb's tree, lists and records are of, and so that a save of one
verb keeps what the other recorded; `UnderWay` what of a run's files is already
written at each of its steps; `SdkOutcome` and `ProviderOutcome` what a run that
succeeded left and what has become of it since; `Accounts` which files the manifest
has yet to account for. `ModKept` is what `EditsAreCaught` needs of the one path
`provider verify` does not compare with its regeneration: its digest is never one
of an edit, since only a run that has just written the file records it. Each group
of steps has a lemma; `StopsBooks` is the one for every failure and kill.

**DecisionGateProofs.** `GateTypeCorrect`: `TypeOK` is inductive once `OpenNamed`
is added, that an open pull request names a run. `ContinuationsPass` rests on
`Settled`: what any run found was proposed by it or is decided, and what the
continuation at work took for decided still is. Both use that the workflows never take a
decision back, which a person can (SpecRevision's `Withdraw` and `Reconsider`).
`PeopleDecide`: under `Asked` (what an open pull request's branch and body hold has
been put to a person; what waits to be recorded as rejected was refused by one) each step
of the gate is a step of `Decisions` or changes nothing there. `ContinuationIsNotLost`: `Carried` says that where all that the runs proposed is
decided, the last run passed or somebody is still to act (`Owed`: a pull request is open,
an answer unrecorded, a continuation queued, or one at work that has seen all of it
decided). The queue of one may drop what waits because what replaces it has seen more.
`RefusalIsKept`: `RefusalKept` is inductive as it stands; `KeptStep` goes through the
steps, of which only a recording takes an answer out of what is closed, and writes it
where it counts. `GateAssumption` asks of the audits only that they find observations, and of `Fallible` that it holds sets of them.

**EntityDerivationProofs.** Five theorems on the derivation of any document that loads.
`LoadedInOrder`, by `InOrderOnce` (what is put in order by counting what comes no later
holds each member once and an earlier one first), is where the others have it from that
a document names a path once and a method once at a path.
`NoOperationIsDropped`: `Carrying` follows an operation from the paths not yet gathered
(`Unfiled`) into its entity (`Gathered`) and through the decision (`DecidedOnAll`);
`FiledOnce` is that filing one takes none out and puts it in once. `NoKeyIsShared`:
`Keyed` says that a kept entity holds the claim on its key and no two hold one,
`Annotated` what the notes hold; `OrdinalIsFree` and `Unclaimed` that a key that was told
apart is nobody's.
`NamesAreDeclaredOnce`: `Frontier` says that the objects still to be opened lie beneath
nothing of one another's nor of the tree's, so that what opening them adds is new at its
level (`FrontierMoves`), and one lemma for each thing a finished tree goes through
(`IdTidy`, `KeyTidy`, `ReservedTidy`, `ParentsTidy`, `FiltersTidy`, `CompanionTidy`) that it
keeps one attribute for a name. It assumes `[]SpelledApart`: that no object spells two
properties, and no union two branches, so that they are named alike, and that no argument
or filter of a companion is called `items`. Without it the theorem is false of
the code (see Disagreements); every document of the `derivation` run satisfies it.
`FilledInPlace`: `Poured` says that what is set at an attribute holds of each attribute
beneath it and of each object still to be opened there, which has no request beneath a
computed attribute and is marked beneath one the server may fill (`PouredMoves`,
`MadeFilled`). `Unset` says that a data source or a list block has no request anywhere.
Of the finished tree, `KeptRoot` says which changes at the root clear nothing below, and
one lemma for each of them that it is such a change. It assumes three things of the
document, which hold in every state of the `derivation` run. One is `[]SpelledApart`, for
`Frontier`. `[]BareIdentifier` is that nothing lies beneath what is made the id of a
resource: `ensureID` makes an object so named computed and leaves what lies beneath it
as it was. `[]ElementsCompose` is that what a collection is of is what the
recursive function for it says, two levels down: that a recursive function
has the value its definition gives is what the prover cannot be told here, and of a
collection of itself it has none.

**SpecRevisionProofs.** `NoDecisionIsLost` and `OneAutoFileEach`, for all documents,
findings, rules and automatic kinds: nothing is said of what compilation makes, only
of where it is put. `DecisionsKept` is not inductive. It rests on no name being both
accepted and proposed, or accepting would write over a decision, and that on the
next number being above every one in use for as long as corrections are written
(`Numbered`); that `highestOrdinal` starts there is `HighestAbove`. It assumes of what a
person proposed (`HandAssumption`) that its name carries no number. A correction made
automatically may be written over, by the next of its own evidence;
`AutoFilesApart` is that no second file can be meant.

**GenerationAccountProofs.** `LossesAreReported` and `NothingHeldIsWhole`, for any
blocks, paths and choices of the stages. `LostIsReported` and `WholeIsWhole` speak of
the end alone; `AccountInv` follows the losses to it. `LossesOnRecord` says of every
block at every stage that what it no longer has is on record, path by path while it has
a binding and whole once it has none; `FatesKnown` that each block emission has passed
is registered, excluded or without a binding, so that at the end each is (one lemma for
each stage: `BindAccounts`, `PruneAccounts`, `VerifyAccounts`, `RenderAccounts`,
`EndAccounts`). The report leaves out what was kept unbound, and would lose with it
whatever that record stood for below: `KeptAreLeaves` is why there is nothing below, and
`ReportedOrKept` uses it. That the generation takes only such steps is the refinement
`AccountIsKept`, which the run `generation` checks: it is about what recursive operators
compute, which is out of the prover's reach.

**Model-checked only.** Liveness (`CleanupEnds`, `RequestsEnd`, `Terminates`): fairness is
outside the prover's reach. The measures are proved, that no step prolongs what is to
end; that the steps are taken, and that one is always there to take, is TLC's. `ReplacedIfNotUpdatable`: it walks the
create's schema, the update's and the tree at once by recursive functions over the
document, whose recursion nothing in the document bounds; that such a function has
the value its definition gives cannot be told to the prover, and each further depth
of the claim is an induction over data. Of the
revision, `CompiledApplies`, `AcceptingSettles`, `TakenStayDeclared` and
`RevisionSettled` say what a fold over the observations, each compiled by recursive
functions over the document, comes to: inductions over data too. The generation:
`SdkTypes` and every module above it descend trees with recursive operators, which the
prover does not handle. `SettledCallsVerify`, `ReadsThroughParents` and
`RenderedResolves` are about what these compute, and so is that every step of a generation is one
of `GenerationAccount`; what follows from the account is proved.

The type invariants of AuditRun, RequestPacing, BodyCorrection and DecisionGate are
proved and are no part of a run.

## Plan

In the order of what a mistake would cost. Done: `AuditRun`, `RequestPacing`,
`BodyCorrection`, `GeneratedTree`, `DecisionGate`, the compiler and the revision,
the binding, the derivation and the generation. Left:

1. The rest of `BodyCorrection`: the maximal body's narrowing and dropping, the
   probes that omit a field, and an instance with two composites, in which the
   additive search passes over a candidate and leaves an added field unrecorded
   (steps_create.go:522-532).
2. Inference: the edges read out of the evidence, the confirmation of a pair, and
   the plan's dependency order, against reference definitions.
3. The audit's strategy (strategize.go) over what a run has learnt.
4. Proofs: `ReplacedIfNotUpdatable`, from a statement of its own of what composing a
   schema comes to at each depth, as `ElementsCompose` is for two, and from an update
   that nests its containers as the create does.

## Not modelled

- The text of what is emitted, its templates and the fixtures: their correctness is
  the text, which golden tests compare. What decides whether anything is emitted is
  `EntityEmission`.
- Evidence and observations, inference, plan and strategy: pure functions over
  records whose detail is their substance. The revision takes the observations as
  given, the audit model takes the plan as `Parent` and the next probe as a choice.
- Authentication: a token that is fetched once and refreshed when it has run out,
  within one goroutine.
- What is normalised of a document before a generator reads it
  (sdkgen/prenormalise.go): rewriting YAML nodes in one pass.
- Configuration and the command line: sequential, with table tests.
- What a revision takes out of the document as the API's own mechanics
  (spec/revise/api_mechanics.go): one walk over the document that is written.
- The test API server: AuditRun and BodyCorrection allow any API that could answer.

The reasons and the planned modules are also in `PROJECT.json`, `components`.

## Running

```
tlc -config AuditRun_nested.cfg MCAuditRun
tlapm RequestPacingProofs.tla
```
