----------------------------- MODULE DecisionGate ---------------------------
(***************************************************************************)
(* The decision gate between the audit and the generated provider: two     *)
(* workflows and a person.                                                 *)
(*                                                                         *)
(* A generation run compiles what its audit found and nobody has decided   *)
(* into proposals, puts each group of them to a person as a pull request,  *)
(* withdraws the pull requests it no longer stands behind, and stops while *)
(* anything is proposed.  Merging a pull request accepts its corrections;  *)
(* closing it is recorded by a second workflow as markers, which then      *)
(* starts another run once the decisions of this one are made.  Runs,      *)
(* recordings and the person proceed at once.                              *)
(***************************************************************************)
EXTENDS Naturals, FiniteSets

CONSTANTS
    Observations,  \* the observations audits make, by id
    GroupOf,       \* the (entity, kind) group of each
    Audits,        \* what an audit may find: sets of observations
    HasApp,        \* whether the App is installed, so that a dispatch starts a run
    MaxRuns,       \* bound: how many generation runs there are
    MaxFaults,     \* bound: how often a job fails at GitHub's hands
    Fallible       \* bound: what every audit so far has found when one fails

ASSUME GateAssumption ==
    /\ Audits \subseteq SUBSET Observations /\ Fallible \subseteq SUBSET Observations
    /\ HasApp \in BOOLEAN /\ MaxRuns \in Nat \ {0} /\ MaxFaults \in Nat

Groups    == {GroupOf[o] : o \in Observations}
Runs      == 1..MaxRuns
Of(g, obs) == {o \in obs : GroupOf[o] = g}
GroupsOf(obs) == {GroupOf[o] : o \in obs}

VARIABLES
    accepted,   \* observations whose corrections are on the default branch
    rejected,   \* observations with a marker on the default branch
    count,      \* how many runs were dispatched
    found,      \* run -> the observations it has, audited or reused
    proposals,  \* run -> what spec-propose proposed of them
    reused,     \* the runs the continuation dispatched
    opening,    \* run -> where its open-correction-prs job is
    decided,    \* run -> what that job took for decided
    todo,       \* run -> the groups it has still to put
    pushed,     \* run -> the group whose branch is pushed and not yet shown
    existing,   \* run -> the pull request it then saw open, by the run that opened it
    withdrawing,\* run -> where its withdraw-corrections job is
    branch,     \* group -> what the last push to its branch adds
    prs,        \* group -> its pull request
    closed,     \* pull requests answered, whose record job has not ended
    pending,    \* the continuation that waits: the run its body names, 0 if none
    running,    \* the continuation at work, with what it took for decided
    faults,
    asked,      \* history: the observations ever put to a person
    answered,   \* history: those a person said no to
    withdrawn   \* history: whether a run ever began to withdraw a pull request

base   == <<accepted, rejected>>
run    == <<count, found, proposals, reused>>
job    == <<opening, decided, todo, pushed, existing>>
queue  == <<closed, pending, running>>
past   == <<asked, answered, withdrawn>>
vars   == <<base, run, job, withdrawing, branch, prs, queue, faults, past>>

NoPR      == [open |-> FALSE, ids |-> {}, run |-> 0, born |-> 0, label |-> FALSE]
NoGroup   == "none"
Idle      == [run |-> 0, decided |-> {}]

TypeOK ==
    /\ accepted \subseteq Observations /\ rejected \subseteq Observations
    /\ count \in 0..MaxRuns /\ reused \subseteq Runs
    /\ found \in [Runs -> SUBSET Observations] /\ proposals \in [Runs -> SUBSET Observations]
    /\ opening \in [Runs -> {"none", "due", "open", "failed", "done"}]
    /\ decided \in [Runs -> SUBSET Observations] /\ todo \in [Runs -> SUBSET Groups]
    /\ pushed \in [Runs -> Groups \cup {NoGroup}] /\ existing \in [Runs -> 0..MaxRuns]
    /\ withdrawing \in [Runs -> {"none", "due", "done"}]
    /\ prs \in [Groups -> [open : BOOLEAN, ids : SUBSET Observations, run : 0..MaxRuns,
                           born : 0..MaxRuns, label : BOOLEAN]]
    /\ branch \in [Groups -> SUBSET Observations]
    /\ closed \subseteq [group : Groups, ids : SUBSET Observations, run : Runs, merged : BOOLEAN]
    /\ pending \in 0..MaxRuns
    /\ running \in [run : 0..MaxRuns, decided : SUBSET Observations]
    /\ faults \in 0..MaxFaults
    /\ asked \subseteq Observations /\ answered \subseteq Observations /\ withdrawn \in BOOLEAN

Init ==
    /\ accepted = {} /\ rejected = {}
    /\ count = 0 /\ reused = {}
    /\ found = [r \in Runs |-> {}] /\ proposals = [r \in Runs |-> {}]
    /\ opening = [r \in Runs |-> "none"] /\ withdrawing = [r \in Runs |-> "none"]
    /\ decided = [r \in Runs |-> {}] /\ todo = [r \in Runs |-> {}]
    /\ pushed = [r \in Runs |-> NoGroup] /\ existing = [r \in Runs |-> 0]
    /\ prs = [g \in Groups |-> NoPR] /\ branch = [g \in Groups |-> {}]
    /\ closed = {} /\ pending = 0 /\ running = Idle
    /\ faults = 0
    /\ asked = {} /\ answered = {} /\ withdrawn = FALSE

Decided == accepted \cup rejected

-----------------------------------------------------------------------------
(* A generation run, up to its gate.  spec-propose works on the checkout    *)
(* the run was dispatched at; the gate passes when it proposed nothing.     *)

Start(obs, byContinuation) ==
    LET r == count + 1 IN
    /\ count < MaxRuns /\ count' = r
    /\ found' = [found EXCEPT ![r] = obs]
    /\ proposals' = [proposals EXCEPT ![r] = obs \ Decided]
    /\ reused' = IF byContinuation THEN reused \cup {r} ELSE reused
    /\ opening' = [opening EXCEPT ![r] = IF obs \subseteq Decided THEN "done" ELSE "due"]
    /\ withdrawing' = [withdrawing EXCEPT ![r] = "due"]

Passed(r) == r <= count /\ proposals[r] = {}

\* A person dispatches a run, which audits or reuses an earlier audit.
Dispatch ==
    /\ \E obs \in Audits \cup {found[r] : r \in 1..count} : Start(obs, FALSE)
    /\ UNCHANGED <<base, decided, todo, pushed, existing, branch, prs, queue, faults, past>>

\* open-correction-prs checks out the default branch and keeps the groups
\* nobody has decided; a failed job is run again from here.
OpenStart(r) ==
    /\ opening[r] \in {"due", "failed"}
    /\ opening' = [opening EXCEPT ![r] = "open"]
    /\ decided' = [decided EXCEPT ![r] = Decided]
    /\ todo' = [todo EXCEPT ![r] = GroupsOf(proposals[r] \ Decided)]
    /\ UNCHANGED <<base, run, pushed, existing, withdrawing, branch, prs, queue, faults, past>>

Work(r, g) == Of(g, proposals[r] \ decided[r])

\* One group: see whether a pull request is open, then push the branch.
Push(r, g) ==
    /\ opening[r] = "open" /\ pushed[r] = NoGroup /\ g \in todo[r]
    /\ pushed' = [pushed EXCEPT ![r] = g]
    /\ existing' = [existing EXCEPT ![r] = IF prs[g].open THEN prs[g].born ELSE 0]
    /\ branch' = [branch EXCEPT ![g] = Work(r, g)]
    /\ asked' = IF prs[g].open THEN asked \cup Work(r, g) ELSE asked
    /\ UNCHANGED <<base, run, opening, decided, todo, withdrawing, prs, queue, faults,
                   answered, withdrawn>>

\* What the job read goes with its runner.
Ends(r, how) ==
    /\ opening' = [opening EXCEPT ![r] = how]
    /\ decided' = [decided EXCEPT ![r] = {}]
    /\ todo' = [todo EXCEPT ![r] = {}]

\* gh pr create is refused where one is open, or where the branch adds nothing.
Refused(r, g) == existing[r] = 0 /\ (prs[g].open \/ branch[g] \subseteq accepted)

\* Then show it: a new pull request, or the body of the one there was.
Publish(r) ==
    LET g == pushed[r] IN
    /\ opening[r] = "open" /\ g # NoGroup
    /\ pushed' = [pushed EXCEPT ![r] = NoGroup]
    /\ existing' = [existing EXCEPT ![r] = 0]
    /\ \/ /\ Refused(r, g)
          /\ Ends(r, "failed")
          /\ UNCHANGED <<prs, asked>>
       \/ /\ existing[r] = 0 /\ ~Refused(r, g)
          /\ prs' = [prs EXCEPT ![g] = [open |-> TRUE, ids |-> Work(r, g), run |-> r,
                                        born |-> r, label |-> FALSE]]
          /\ asked' = asked \cup Work(r, g) \cup branch[g]
          /\ todo' = [todo EXCEPT ![r] = @ \ {g}]
          /\ UNCHANGED <<opening, decided>>
       \/ /\ existing[r] # 0
          /\ prs' = IF prs[g].open /\ prs[g].born = existing[r]
                    THEN [prs EXCEPT ![g].ids = Work(r, g), ![g].run = r] ELSE prs
          /\ asked' = asked \cup prs'[g].ids
          /\ todo' = [todo EXCEPT ![r] = @ \ {g}]
          /\ UNCHANGED <<opening, decided>>
    /\ UNCHANGED <<base, run, withdrawing, branch, queue, faults, answered, withdrawn>>

OpenDone(r) ==
    /\ opening[r] = "open" /\ todo[r] = {} /\ pushed[r] = NoGroup
    /\ Ends(r, "done")
    /\ UNCHANGED <<base, run, pushed, existing, withdrawing, branch, prs, queue, faults, past>>

OpenFails(r) ==
    /\ opening[r] = "open"
    /\ faults < MaxFaults /\ \A q \in 1..count : found[q] \in Fallible
    /\ faults' = faults + 1
    /\ Ends(r, "failed")
    /\ pushed' = [pushed EXCEPT ![r] = NoGroup]
    /\ existing' = [existing EXCEPT ![r] = 0]
    /\ UNCHANGED <<base, run, withdrawing, branch, prs, queue, past>>

\* What closing a pull request leaves to the recording workflow, by the body
\* of the moment, where nobody told it that no person answered.
AnswerUnlabelled(g, merged) ==
    closed \cup {[group |-> g, ids |-> prs[g].ids, run |-> prs[g].run, merged |-> merged]}

Answer(g, merged) == IF prs[g].label THEN closed ELSE AnswerUnlabelled(g, merged)

\* withdraw-corrections, whatever became of the job before: a label, which
\* tells the recording workflow that nobody answered, and then the close.
Stale(r, g) == prs[g].open /\ g \notin GroupsOf(proposals[r])
Withdraws(r) == withdrawing[r] = "due" /\ opening[r] \in {"failed", "done"}

Label(r, g) ==
    /\ Withdraws(r) /\ Stale(r, g) /\ ~prs[g].label
    /\ prs' = [prs EXCEPT ![g].label = TRUE]
    /\ withdrawn' = TRUE
    /\ UNCHANGED <<base, run, job, withdrawing, branch, queue, faults, asked, answered>>

Withdraw(r, g) ==
    /\ Withdraws(r) /\ Stale(r, g) /\ prs[g].label
    /\ closed' = Answer(g, FALSE)
    /\ prs' = [prs EXCEPT ![g] = NoPR]
    /\ branch' = [branch EXCEPT ![g] = {}]
    /\ UNCHANGED <<base, run, job, withdrawing, pending, running, faults, past>>

WithdrawDone(r) ==
    /\ Withdraws(r) /\ \A g \in Groups : ~Stale(r, g)
    /\ withdrawing' = [withdrawing EXCEPT ![r] = "done"]
    /\ UNCHANGED <<base, run, job, branch, prs, queue, faults, past>>

-----------------------------------------------------------------------------
(* The person, and the workflow that reads the answer back.                 *)

Merge(g) ==
    /\ prs[g].open
    /\ accepted' = accepted \cup branch[g]
    /\ closed' = Answer(g, TRUE)
    /\ prs' = [prs EXCEPT ![g] = NoPR]
    /\ UNCHANGED <<rejected, run, job, withdrawing, branch, pending, running, faults, past>>

Close(g) ==
    /\ prs[g].open
    /\ closed' = Answer(g, FALSE)
    /\ answered' = IF prs[g].label THEN answered ELSE answered \cup prs[g].ids
    /\ prs' = [prs EXCEPT ![g] = NoPR]
    /\ UNCHANGED <<base, run, job, withdrawing, branch, pending, running, faults, asked, withdrawn>>

RecordMerged(e) ==
    /\ e \in closed
    /\ closed' = closed \ {e}
    /\ rejected' = IF e.merged THEN rejected ELSE rejected \cup e.ids
    /\ pending' = IF e.merged THEN pending ELSE e.run
    /\ UNCHANGED <<accepted, run, job, withdrawing, branch, prs, running, faults, past>>

RecordLatest(e) ==
    /\ e \in closed
    /\ closed' = {}
    /\ rejected' = IF e.merged THEN rejected ELSE rejected \cup e.ids
    /\ pending' = e.run
    /\ UNCHANGED <<accepted, run, job, withdrawing, branch, prs, running, faults, past>>

\* The markers, on whatever the branch holds by then; the continuation then
\* queues, in place of one that waits.
Record(e) ==
    /\ e \in closed
    /\ closed' = closed \ {e}
    /\ rejected' = IF e.merged THEN rejected ELSE rejected \cup e.ids
    /\ pending' = e.run
    /\ UNCHANGED <<accepted, run, job, withdrawing, branch, prs, running, faults, past>>

ContinueStart ==
    /\ pending # 0 /\ running.run = 0
    /\ running' = [run |-> pending, decided |-> Decided]
    /\ pending' = 0
    /\ UNCHANGED <<base, run, job, withdrawing, branch, prs, closed, faults, past>>

MayContinueUnopened ==
    /\ \A g \in Groups : ~prs[g].open
    /\ HasApp

\* The manifest in the body lists every group of the run that wrote it.
MayContinue ==
    /\ proposals[running.run] \subseteq running.decided
    /\ \A g \in Groups : ~prs[g].open
    /\ HasApp

Continue ==
    /\ running.run # 0
    /\ IF MayContinue
       THEN Start(found[running.run], TRUE)
       ELSE UNCHANGED <<run, opening, withdrawing>>
    /\ running' = Idle
    /\ UNCHANGED <<base, decided, todo, pushed, existing, branch, prs, closed, pending, faults, past>>

Next ==
    \/ Dispatch
    \/ \E r \in Runs : OpenStart(r) \/ Publish(r) \/ OpenDone(r) \/ OpenFails(r) \/ WithdrawDone(r)
    \/ \E r \in Runs, g \in Groups : Push(r, g) \/ Label(r, g) \/ Withdraw(r, g)
    \/ \E g \in Groups : Merge(g) \/ Close(g)
    \/ \E e \in closed : Record(e)
    \/ ContinueStart
    \/ Continue

Spec == Init /\ [][Next]_vars

-----------------------------------------------------------------------------
(* Properties. *)

\* Nothing is decided that no person was asked, and nothing is rejected that
\* no person said no to: a withdrawn pull request records nothing.
Promise == INSTANCE Decisions
OnlyPeopleDecide == Promise!Spec

\* A run the continuation starts is not stopped by the gate it was started
\* to pass.
ContinuationPasses == \A r \in reused : Passed(r)

\* Nobody has anything to answer, and nothing is left to record or to continue.
Quiet ==
    /\ closed = {} /\ pending = 0 /\ running = Idle
    /\ \A g \in Groups : ~prs[g].open

\* When all is quiet and all that the runs proposed is decided, the last run passed
\* its gate: no continuation is lost among the ones the queue dropped, the ones
\* that found a pull request open and the ones that read the branch too early.  A
\* withdrawal may lose it, and so may two runs that push to one branch (README).
NoLostContinuation ==
    /\ Quiet /\ HasApp /\ ~withdrawn
    /\ count # 0 /\ \A r \in 1..count : proposals[r] \subseteq Decided
    => Passed(count)

\* A person's no is recorded, or its recording is still to come: no answer that
\* comes meanwhile, and no edit of the body it was an answer to, takes its place
\* (20-corrections.yml:56-71, 151-158).
RefusalKept ==
    \A o \in answered : o \in rejected \/ \E e \in closed : ~e.merged /\ o \in e.ids

=============================================================================
