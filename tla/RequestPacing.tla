---------------------------- MODULE RequestPacing ----------------------------
(***************************************************************************)
(* How the audit spends and paces its requests: the budgets charged before *)
(* every attempt (client.go), the token bucket every attempt waits for     *)
(* (ratelimit.go), and the answer to a rate-limit refusal - wait, try      *)
(* again, and from every third refusal on slow the rest of the run down    *)
(* (backoff.go).                                                           *)
(*                                                                         *)
(* Requests are made one at a time, but they nest: resolving the path of   *)
(* one may have to create a parent object first, with requests of its own. *)
(* Time is counted in ticks and passes while something sleeps or answers;  *)
(* tokens are counted in ticks too, so that the arithmetic is exact: one   *)
(* token is Second of them, and every tick earns rps.                      *)
(***************************************************************************)
EXTENDS Integers, Sequences

CONSTANTS
  Rate,         \* The configured requests per second.
  Second,       \* Ticks in a second.
  RunBudget,    \* Budgets.Requests.
  EntityBudget, \* EntityPlan.Budget.Requests.
  Deadline,     \* Budgets.Duration, in ticks from the start.
  Attempts,     \* backoffAttempts.
  Base,         \* backoffBase, in ticks.
  Ceiling,      \* backoffCeiling, in ticks.
  Cap,          \* backoffRetryAfterCap, in ticks.
  SlowdownEvery,\* slowdownEvery.
  RetryAfters,  \* The seconds a Retry-After header may name.
  Word,         \* One more than the greatest time.Duration, in ticks.
  MaxLatency,   \* Bound: ticks a response takes; no answer within them is an error.
  CleanupLimit, \* cleanupTimeLimit, in ticks.
  MaxDepth,     \* Bound: how deep requests nest, the entities' nesting in the plan.
  MaxRefs,      \* Bound: the references one request has to resolve.
  MaxCleanups   \* Bound: requests made by each of the two boundary cleanups.

ASSUME PacingAssumption ==
  /\ Rate \in Nat \ {0}
  /\ Second \in Nat \ {0}
  /\ RunBudget \in Nat /\ EntityBudget \in Nat /\ Deadline \in Nat
  /\ Attempts \in Nat \ {0}
  /\ Base \in Nat \ {0} /\ Ceiling \in Nat /\ Cap \in Nat
  /\ SlowdownEvery \in Nat \ {0}
  /\ RetryAfters \subseteq Nat
  /\ Word \in Nat /\ Cap < Word
  /\ MaxLatency \in Nat /\ CleanupLimit \in Nat
  /\ MaxDepth \in Nat \ {0}
  /\ MaxRefs \in Nat
  /\ MaxCleanups \in Nat

VARIABLES
  phase,     \* "before": the starting cleanup; "run"; "after": the closing one.
  cleanups,  \* Requests the current cleanup has made.
  calls,     \* The requests being made, innermost first; borrow: a borrow's read.
  runOut,    \* Whether a run-wide budget has been found exhausted.
  reqTotal,  \* Requests charged to the run.
  requests,  \* Requests charged to the current entity.
  now,       \* The clock.
  began,     \* When the present phase began.
  rps,       \* The bucket's rate.
  tokens,    \* The bucket's tokens, in ticks.
  last,      \* When the bucket was last asked.
  seen,      \* Rate-limit refusals met.
  sent,      \* Attempts the run's own requests have put on the wire.
  since,     \* When the present rate took effect ...
  burst      \* ... and the attempts granted a token since.

budgetVars == <<runOut, reqTotal, requests>>
paceVars   == <<rps, tokens, last, since, burst>>
vars == <<phase, cleanups, calls, budgetVars, now, began, paceVars, seen, sent>>

Phases == {"before", "run", "after"}
Steps  == {"charge", "resolve", "bucket", "wire", "refused"}
Call   == [step : Steps, attempt : 1 .. Attempts, borrow : BOOLEAN,
           refs : 0 .. MaxRefs]

inCleanup == phase # "run"

Lesser(a, b)  == IF a < b THEN a ELSE b
Greater(a, b) == IF a > b THEN a ELSE b

Init ==
  /\ phase = "before"
  /\ cleanups = 0
  /\ calls = <<>>
  /\ runOut = FALSE
  /\ reqTotal = 0
  /\ requests = 0
  /\ now = 0
  /\ began = 0
  /\ rps = Rate
  /\ tokens = Rate * Second
  /\ last = 0
  /\ seen = 0
  /\ sent = 0
  /\ since = 0
  /\ burst = 0

-----------------------------------------------------------------------------
(***************************************************************************)
(* Between requests.                                                       *)
(***************************************************************************)
Idle == calls = <<>>

\* A request about to be charged, with refs references it may have to resolve.
Request(borrow, refs) ==
  <<[step |-> "charge", attempt |-> 1, borrow |-> borrow, refs |-> refs]>>

\* Each boundary cleanup makes some requests; the run makes any number.
Ask ==
  /\ Idle
  /\ calls' = Request(FALSE, IF inCleanup THEN 0 ELSE MaxRefs)
  /\ IF inCleanup
     THEN cleanups < MaxCleanups /\ cleanups' = cleanups + 1
     ELSE UNCHANGED cleanups
  /\ UNCHANGED <<phase, budgetVars, now, began, paceVars, seen, sent>>

NextEntity ==
  /\ Idle
  /\ phase = "run"
  /\ requests # 0
  /\ requests' = 0
  /\ UNCHANGED <<phase, cleanups, calls, runOut, reqTotal, now, began, paceVars, seen, sent>>

NextPhase ==
  /\ Idle
  /\ phase # "after"
  /\ phase' = IF phase = "before" THEN "run" ELSE "after"
  /\ cleanups' = 0
  /\ began' = now
  /\ UNCHANGED <<calls, budgetVars, now, paceVars, seen, sent>>

-----------------------------------------------------------------------------
(***************************************************************************)
(* One attempt of the innermost request.                                   *)
(***************************************************************************)
At(step) == calls # <<>> /\ Head(calls).step = step

Goes(step) == calls' = [calls EXCEPT ![1].step = step]

\* A response: the request that needed this one's object goes on from it.
Answered == calls' = Tail(calls)

\* An error, or the refusal handed back, is an error of every request it was made
\* for - but a borrow that cannot read its collection only leaves a field
\* unsatisfied, which the body may do without.
Fails ==
  \/ calls' = <<>>
  \/ Head(calls).borrow /\ calls' = Tail(calls)

Exhausted ==
  \/ runOut
  \/ now > Deadline
  \/ reqTotal >= RunBudget

\* Mutant: only a request's first attempt is charged.
ChargeOnce ==
  /\ At("charge")
  /\ inCleanup \/ (~Exhausted /\ requests < EntityBudget)
  /\ Goes(IF Head(calls).attempt = 1 THEN "resolve" ELSE "bucket")
  /\ IF inCleanup \/ Head(calls).attempt > 1
     THEN UNCHANGED <<reqTotal, requests>>
     ELSE /\ reqTotal' = reqTotal + 1
          /\ requests' = requests + 1
  /\ UNCHANGED <<phase, cleanups, runOut, now, began, paceVars, seen, sent>>

\* spend.  The path is resolved once, before the first attempt.
Charge ==
  /\ At("charge")
  /\ inCleanup \/ (~Exhausted /\ requests < EntityBudget)
  /\ Goes(IF Head(calls).attempt = 1 THEN "resolve" ELSE "bucket")
  /\ IF inCleanup
     THEN UNCHANGED <<reqTotal, requests>>
     ELSE /\ reqTotal' = reqTotal + 1
          /\ requests' = requests + 1
  /\ UNCHANGED <<phase, cleanups, runOut, now, began, paceVars, seen, sent>>

\* The first attempt fails with the budget's reason and a later one hands back
\* the refusal, which no caller can use either; an entity's own budget says
\* nothing of the run.
Overspent ==
  /\ At("charge")
  /\ ~inCleanup
  /\ Exhausted \/ requests >= EntityBudget
  /\ runOut' = Exhausted
  /\ Fails
  /\ UNCHANGED <<phase, cleanups, reqTotal, requests, now, began, paceVars, seen, sent>>

\* resolvePath meets a $created token whose object is not alive, or resolveBody a
\* borrow token; the path borrowed from holds no token itself, nor does any a cleanup asks for.
Nest(borrow) ==
  /\ At("resolve")
  /\ Head(calls).refs > 0
  /\ Len(calls) < MaxDepth
  /\ calls' = Request(borrow, IF borrow THEN 0 ELSE MaxRefs)
              \o [calls EXCEPT ![1].refs = @ - 1]
  /\ UNCHANGED <<phase, cleanups, budgetVars, now, began, paceVars, seen, sent>>

Resolve ==
  /\ At("resolve")
  /\ Goes("bucket")
  /\ UNCHANGED <<phase, cleanups, budgetVars, now, began, paceVars, seen, sent>>

\* A path parameter without a value, a foreign host, a reference left unsatisfied.
CannotResolve ==
  /\ At("resolve")
  /\ Fails
  /\ UNCHANGED <<phase, cleanups, budgetVars, now, began, paceVars, seen, sent>>

\* The closing cleanup has a context of its own, dead after CleanupLimit: no sleep
\* and no response outlasts it.
InTime(t) == phase = "after" => t <= began + CleanupLimit

\* The context dies in a sleep or under way.
TimeUp ==
  /\ phase = "after"
  /\ At("bucket") \/ At("wire") \/ At("refused")
  /\ now' = began + CleanupLimit
  /\ Fails
  /\ UNCHANGED <<phase, cleanups, budgetVars, began, paceVars, seen, sent>>

\* Mutant: the clock is moved before the elapsed time is taken.
TokensUnearned(t) == Lesser(tokens + (t - t) * rps, rps * Second)

\* The tokens there are at time t, never more than one second's worth.
TokensAt(t) == Lesser(tokens + (t - last) * rps, rps * Second)

\* Mutant: a token is waited for and not taken.
GrantUntaken(t, jitter) ==
  /\ At("bucket")
  /\ t >= now
  /\ InTime(t + jitter)
  /\ TokensAt(t) >= Second
  /\ t = now \/ TokensAt(t - 1) < Second
  /\ tokens' = TokensAt(t)
  /\ last' = t
  /\ now' = t + jitter
  /\ burst' = burst + 1
  /\ Goes("wire")
  /\ UNCHANGED <<phase, cleanups, budgetVars, began, rps, since, seen, sent>>

\* bucket.wait returns at the first tick a token is there or later, and jitter
\* adds at most a quarter of the pacing interval.
Grant(t, jitter) ==
  /\ At("bucket")
  /\ t >= now
  /\ InTime(t + jitter)
  /\ TokensAt(t) >= Second
  /\ t = now \/ TokensAt(t - 1) < Second
  /\ tokens' = TokensAt(t) - Second
  /\ last' = t
  /\ now' = t + jitter
  /\ burst' = burst + 1
  /\ Goes("wire")
  /\ UNCHANGED <<phase, cleanups, budgetVars, began, rps, since, seen, sent>>

Jitters == 0 .. (Second \div (4 * rps))

\* The rate a refusal leaves: halved on every SlowdownEvery-th, never below one.
RateAfter(count) ==
  IF count % SlowdownEvery = 0 THEN Greater(rps \div 2, 1) ELSE rps

OnTheWire(latency) ==
  /\ At("wire")
  /\ InTime(now + latency)
  /\ now' = now + latency
  /\ sent' = IF inCleanup THEN sent ELSE sent + 1

\* A 2xx or any status but 429.
Respond(latency) ==
  /\ OnTheWire(latency)
  /\ Answered
  /\ UNCHANGED <<phase, cleanups, budgetVars, began, paceVars, seen>>

\* A status the enclosing request cannot use, or no response at all.
RespondBadly(latency) ==
  /\ OnTheWire(latency)
  /\ Fails
  /\ UNCHANGED <<phase, cleanups, budgetVars, began, paceVars, seen>>

\* 429: bucket.slow drops the tokens earned at the old rate with it.
RespondRateLimited(latency) ==
  /\ OnTheWire(latency)
  /\ seen' = seen + 1
  /\ Goes("refused")
  /\ rps' = RateAfter(seen + 1)
  /\ IF rps' < rps
     THEN /\ tokens' = Lesser(tokens, rps' * Second)
          /\ since' = now'
          /\ burst' = 0
     ELSE UNCHANGED <<tokens, since, burst>>
  /\ UNCHANGED <<phase, cleanups, budgetVars, began, last>>

\* time.Duration(secs) * time.Second in a 64-bit word.
Wrapped(d) == ((d + Word) % (2 * Word)) - Word

\* Mutant: a Retry-After is taken at its word.
SleptAsAsked(secs) == Greater(Wrapped(secs * Second), 0)

\* capWait, and a sleep of no more than nothing returns at once.
Slept(secs) == Greater(Lesser(Wrapped(secs * Second), Cap), 0)

\* The ceiling of the draw after the given attempt.
DrawCeiling(attempt) == Lesser(Base * 2 ^ (attempt - 1), Ceiling)

TriesAgain(ticks) ==
  /\ At("refused")
  /\ Head(calls).attempt < Attempts
  /\ calls' = [calls EXCEPT ![1].step = "charge", ![1].attempt = @ + 1]
  /\ InTime(now + ticks)
  /\ now' = now + ticks
  /\ UNCHANGED <<phase, cleanups, budgetVars, began, paceVars, seen, sent>>

PauseAsAsked(secs) == TriesAgain(Slept(secs))

PauseAtRandom(ticks) ==
  /\ At("refused")
  /\ ticks <= DrawCeiling(Head(calls).attempt)
  /\ TriesAgain(ticks)

GiveUp ==
  /\ At("refused")
  /\ Head(calls).attempt >= Attempts
  /\ Fails
  /\ UNCHANGED <<phase, cleanups, budgetVars, now, began, paceVars, seen, sent>>

-----------------------------------------------------------------------------
RequestStep ==
  \/ Charge \/ Overspent
  \/ (\E borrow \in BOOLEAN : Nest(borrow))
  \/ Resolve \/ CannotResolve
  \/ \E t \in now .. now + Second, jitter \in Jitters : Grant(t, jitter)
  \/ \E latency \in 0 .. MaxLatency :
       Respond(latency) \/ RespondBadly(latency) \/ RespondRateLimited(latency)
  \/ \E secs \in RetryAfters : PauseAsAsked(secs)
  \/ \E ticks \in 0 .. Ceiling : PauseAtRandom(ticks)
  \/ GiveUp \/ TimeUp

Next == Ask \/ NextEntity \/ NextPhase \/ RequestStep

Spec == Init /\ [][Next]_vars

\* A request once made is pursued by its own goroutine; nothing obliges the run
\* to make another.
FairSpec == Spec /\ WF_vars(RequestStep)

-----------------------------------------------------------------------------
(***************************************************************************)
(* Properties.                                                             *)
(***************************************************************************)
TypeOK ==
  /\ phase \in Phases
  /\ cleanups \in 0 .. MaxCleanups
  /\ calls \in Seq(Call)
  /\ Len(calls) <= MaxDepth
  /\ \A i \in 2 .. Len(calls) : calls[i].step = "resolve"
  /\ runOut \in BOOLEAN
  /\ reqTotal \in 0 .. RunBudget
  /\ requests \in 0 .. EntityBudget
  /\ now \in Nat
  /\ began \in 0 .. now
  /\ rps \in 1 .. Rate
  /\ tokens \in 0 .. rps * Second
  /\ last \in 0 .. now
  /\ seen \in Nat
  /\ sent \in Nat
  /\ since \in 0 .. now
  /\ burst \in Nat

\* "Every attempt is charged to the budget": the attempts the run has put on the
\* wire, and those of the nested requests that have yet to go out, were each
\* charged, and no more were charged than the budget holds.
Uncharged == IF At("charge") \/ At("refused") THEN 1 ELSE 0
EveryAttemptCharged ==
  /\ reqTotal <= RunBudget
  /\ sent + (IF inCleanup THEN 0 ELSE Len(calls) - Uncharged) <= reqTotal

\* "The capacity equals the rate, so a run may burst one second's allowance and
\* then settles": counted from the moment a rate took effect, never more attempts
\* are granted than one burst and that rate allow, across slowdowns.
Paced == burst * Second <= rps * Second + rps * (now - since)

\* The closing cleanup keeps to its own time limit.
ClosingCleanupBounded == phase = "after" => now <= began + CleanupLimit

\* "backoffRetryAfterCap bounds what a Retry-After header may ask for" and
\* backoffCeiling what a draw may: no pause is longer, whatever the header says,
\* and the closing cleanup is never past its own limit.
PausesBounded ==
  [][ /\ At("refused") /\ phase # "after" => now' - now <= Greater(Cap, Ceiling)
      /\ ClosingCleanupBounded' ]_vars

\* Every request comes to an answer or an error, however often it is refused.
RequestsEnd == calls # <<>> ~> calls = <<>>

=============================================================================
