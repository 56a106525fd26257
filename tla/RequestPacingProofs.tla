------------------------ MODULE RequestPacingProofs ------------------------
(***************************************************************************)
(* What holds of the audit's requests whatever the rate, the budgets, the  *)
(* limits and the server's answers.                                        *)
(***************************************************************************)
EXTENDS RequestPacing, SequenceTheorems, WellFoundedInduction, TLAPS

\* The requests being made: only the innermost is past resolving.
Stack(s) ==
  /\ s \in Seq(Call)
  /\ Len(s) <= MaxDepth
  /\ \A i \in 2 .. Len(s) : s[i].step = "resolve"

Counters ==
  /\ phase \in Phases
  /\ cleanups \in 0 .. MaxCleanups
  /\ reqTotal \in 0 .. RunBudget
  /\ requests \in 0 .. EntityBudget
  /\ seen \in Nat
  /\ sent \in Nat

Clock ==
  /\ now \in Nat
  /\ began \in 0 .. now
  /\ last \in 0 .. now
  /\ since \in 0 .. now
  /\ ClosingCleanupBounded

Bucket ==
  /\ rps \in 1 .. Rate
  /\ tokens \in 0 .. rps * Second
  /\ burst \in Nat

\* A request with one of its fields set is a request.
LEMMA CallSet ==
  ASSUME NEW c \in Call
  PROVE  /\ \A step \in Steps : [c EXCEPT !.step = step] \in Call
         /\ c.refs > 0 => [c EXCEPT !.refs = @ - 1] \in Call
         /\ c.attempt < Attempts => [c EXCEPT !.step = "charge", !.attempt = @ + 1] \in Call
<1>1. Attempts \in Nat /\ MaxRefs \in Nat
  BY PacingAssumption
<1>2. c.attempt < Attempts => c.attempt + 1 \in 1 .. Attempts
  BY <1>1 DEF Call
<1>3. c.refs > 0 => c.refs - 1 \in 0 .. MaxRefs
  BY <1>1 DEF Call
<1>4. "charge" \in Steps
  BY DEF Steps
<1>5. \A step \in Steps : [c EXCEPT !.step = step] \in Call
  BY Zenon DEF Call
<1> QED
  BY <1>2, <1>3, <1>4, <1>5 DEF Call

\* Changing the innermost request leaves a stack.
LEMMA StackSet ==
  ASSUME NEW s, Stack(s), s # <<>>, NEW c \in Call
  PROVE  Stack([s EXCEPT ![1] = c]) /\ Len([s EXCEPT ![1] = c]) = Len(s)
<1>1. s \in Seq(Call) /\ 1 \in DOMAIN s
  BY DEF Stack
<1>2. [s EXCEPT ![1] = c] \in Seq(Call) /\ Len([s EXCEPT ![1] = c]) = Len(s)
  BY <1>1
<1>3. \A i \in 2 .. Len(s) : [s EXCEPT ![1] = c][i] = s[i]
  BY <1>1
<1> QED
  BY <1>2, <1>3 DEF Stack

\* So does answering it or giving up all of them.
LEMMA StackTail ==
  ASSUME NEW s, Stack(s), s # <<>>
  PROVE  /\ Stack(Tail(s)) /\ Len(Tail(s)) = Len(s) - 1
         /\ Tail(s) # <<>> => Head(Tail(s)).step = "resolve"
<1>1. s \in Seq(Call) /\ Len(s) \in Nat /\ Len(s) > 0
  BY DEF Stack
<1>2. Tail(s) \in Seq(Call) /\ Len(Tail(s)) = Len(s) - 1
  BY <1>1
<1>3. \A i \in 1 .. Len(Tail(s)) : Tail(s)[i] = s[i + 1]
  BY <1>1, <1>2
<1>4. \A i \in 1 .. Len(Tail(s)) : Tail(s)[i].step = "resolve"
  BY <1>1, <1>2, <1>3 DEF Stack
<1>5. Tail(s) # <<>> => Head(Tail(s)) = Tail(s)[1] /\ 1 \in 1 .. Len(Tail(s))
  BY <1>2
<1>6. MaxDepth \in Nat /\ Len(s) <= MaxDepth
  BY PacingAssumption DEF Stack
<1> QED
  BY <1>1, <1>2, <1>4, <1>5, <1>6 DEF Stack

\* The empty stack is one.
LEMMA StackEmpty == Stack(<<>>) /\ Len(<<>>) = 0
BY PacingAssumption DEF Stack

\* A new request is put on top of one that is resolving, or of none.
LEMMA StackPush ==
  ASSUME NEW s, Stack(s), Len(s) < MaxDepth, NEW b \in BOOLEAN, NEW r \in 0 .. MaxRefs,
         s # <<>> => Head(s).step = "resolve"
  PROVE  /\ Stack(Request(b, r) \o s)
         /\ Len(Request(b, r) \o s) = Len(s) + 1
         /\ Head(Request(b, r) \o s).step = "charge"
<1> DEFINE c == [step |-> "charge", attempt |-> 1, borrow |-> b, refs |-> r]
<1>1. s \in Seq(Call) /\ Len(s) \in Nat
  BY DEF Stack
<1>2. c \in Call
  <2>1. "charge" \in Steps /\ 1 \in 1 .. Attempts
    BY PacingAssumption DEF Steps
  <2> QED
    BY <2>1, Zenon DEF Call
<1>3. Request(b, r) = <<c>> /\ c.step = "charge"
  BY DEF Request
<1> HIDE DEF c
<1>4. <<c>> \o s \in Seq(Call) /\ Len(<<c>> \o s) = Len(s) + 1
  BY <1>1, <1>2
<1>5. \A i \in 2 .. Len(s) + 1 : (<<c>> \o s)[i] = s[i - 1]
  BY <1>1, <1>2
<1>6. \A i \in 1 .. Len(s) : s[i].step = "resolve"
  <2> SUFFICES ASSUME NEW i \in 1 .. Len(s) PROVE s[i].step = "resolve"
    OBVIOUS
  <2>1. CASE i = 1
    BY <1>1, <2>1
  <2>2. CASE i # 1
    BY <1>1, <2>2 DEF Stack
  <2> QED
    BY <2>1, <2>2
<1>7. Head(<<c>> \o s) = c
  BY <1>1, <1>2
<1>8. \A i \in 2 .. Len(s) + 1 : i - 1 \in 1 .. Len(s)
  BY <1>1
<1>9. MaxDepth \in Nat
  BY PacingAssumption
<1> QED
  BY <1>1, <1>3, <1>4, <1>5, <1>6, <1>7, <1>8, <1>9 DEF Stack

-----------------------------------------------------------------------------
(***************************************************************************)
(* What each way of moving a request does to the stack, and to the number  *)
(* of requests charged and not yet on the wire.                            *)
(***************************************************************************)
Unsent(s) ==
  Len(s) - (IF s # <<>> /\ Head(s).step \in {"charge", "refused"} THEN 1 ELSE 0)

\* Unsent counts the calls that are charged and not sent.
LEMMA UnsentIs == Len(calls) - Uncharged = Unsent(calls)
BY DEF Unsent, Uncharged, At

\* A step of the top call leaves a stack of the same height.
LEMMA Going ==
  ASSUME Stack(calls), calls # <<>>, NEW step \in Steps, Goes(step)
  PROVE  /\ Stack(calls')
         /\ Unsent(calls') = Len(calls) - (IF step \in {"charge", "refused"} THEN 1 ELSE 0)
<1> DEFINE c == [calls[1] EXCEPT !.step = step]
<1>1. calls[1] \in Call /\ calls \in Seq(Call) /\ 1 \in DOMAIN calls
  BY DEF Stack
<1>2. c \in Call
  BY <1>1, CallSet
<1>3. calls' = [calls EXCEPT ![1] = c]
  BY <1>1 DEF Goes
<1>4. c.step = step
  BY <1>1 DEF Call
<1> HIDE DEF c
<1>5. Stack(calls') /\ Len(calls') = Len(calls)
  BY <1>2, <1>3, StackSet
<1>6. calls' # <<>> /\ Head(calls') = c
  BY <1>1, <1>2, <1>3, <1>5
<1> QED
  BY <1>4, <1>5, <1>6 DEF Unsent

\* A retried call leaves a stack of the same height.
LEMMA Trying ==
  ASSUME Stack(calls), NEW ticks, TriesAgain(ticks)
  PROVE  Stack(calls') /\ Unsent(calls') = Unsent(calls)
<1> DEFINE c == [calls[1] EXCEPT !.step = "charge", !.attempt = @ + 1]
<1>0. calls # <<>>
  BY DEF At, TriesAgain
<1>1. calls[1] \in Call /\ calls \in Seq(Call) /\ 1 \in DOMAIN calls
  BY <1>0 DEF Stack
<1>2. Head(calls) = calls[1]
  BY <1>1
<1>3. c \in Call
  BY <1>1, <1>2, CallSet DEF TriesAgain
<1>4. calls' = [calls EXCEPT ![1] = c]
  BY <1>1 DEF Call, TriesAgain
<1>5. c.step = "charge"
  BY <1>1 DEF Call
<1> HIDE DEF c
<1>6. Stack(calls') /\ Len(calls') = Len(calls)
  BY <1>0, <1>3, <1>4, StackSet
<1>7. calls' # <<>> /\ Head(calls') = c
  BY <1>1, <1>3, <1>4, <1>6
<1> QED
  BY <1>0, <1>5, <1>6, <1>7 DEF Unsent, At, TriesAgain

\* A nested call makes the stack one higher.
LEMMA Nesting ==
  ASSUME Stack(calls), NEW b \in BOOLEAN, Nest(b)
  PROVE  Stack(calls') /\ Unsent(calls') = Unsent(calls)
<1> DEFINE c == [calls[1] EXCEPT !.refs = @ - 1]
           s == [calls EXCEPT ![1] = c]
           r == IF b THEN 0 ELSE MaxRefs
<1>1. calls[1] \in Call /\ calls \in Seq(Call) /\ 1 \in DOMAIN calls /\ calls # <<>>
  BY DEF Stack, Nest, At
<1>2. Head(calls) = calls[1] /\ calls[1].step = "resolve"
  BY <1>1 DEF Nest, At
<1>3. c \in Call
  BY <1>1, <1>2, CallSet DEF Nest
<1>4. calls' = Request(b, r) \o s
  BY <1>1 DEF Nest
<1>5. c.step = "resolve"
  BY <1>1, <1>2 DEF Call
<1>6. r \in 0 .. MaxRefs
  BY PacingAssumption
<1> HIDE DEF c, r
<1>7. Stack(s) /\ Len(s) = Len(calls)
  BY <1>1, <1>3, StackSet
<1>8. s # <<>> /\ Head(s) = c
  BY <1>1, <1>3, <1>7
<1>9. Len(s) < MaxDepth
  BY <1>7 DEF Nest
<1> HIDE DEF s
<1>10. /\ Stack(calls')
       /\ Len(calls') = Len(s) + 1
       /\ Head(calls').step = "charge"
  BY <1>4, <1>5, <1>6, <1>7, <1>8, <1>9, StackPush
<1>11. calls' # <<>> /\ Len(calls) \in Nat
  BY <1>1, <1>7, <1>10
<1> QED
  BY <1>2, <1>7, <1>10, <1>11 DEF Unsent

\* A call from the steps makes a stack of one.
LEMMA Asking ==
  ASSUME Stack(calls), Ask
  PROVE  Stack(calls') /\ Unsent(calls') = 0 /\ Unsent(calls) = 0
<1> DEFINE r == IF inCleanup THEN 0 ELSE MaxRefs
<1>1. calls = <<>> /\ Len(calls) = 0
  BY DEF Ask, Idle
<1>2. calls' = Request(FALSE, r) \o calls
  <2>1. Request(FALSE, r) \in Seq({Request(FALSE, r)[1]})
    BY DEF Request
  <2> QED
    BY <1>1, <2>1 DEF Ask
<1>3. r \in 0 .. MaxRefs /\ 0 < MaxDepth /\ FALSE \in BOOLEAN
  BY PacingAssumption
<1>4. Len(calls) < MaxDepth /\ (calls # <<>> => Head(calls).step = "resolve")
  BY <1>1, <1>3
<1> HIDE DEF r
<1>5. Stack(calls') /\ Len(calls') = 1 /\ Head(calls').step = "charge"
  <2>1. /\ Stack(Request(FALSE, r) \o calls)
        /\ Len(Request(FALSE, r) \o calls) = Len(calls) + 1
        /\ Head(Request(FALSE, r) \o calls).step = "charge"
    BY <1>3, <1>4, StackPush
  <2>2. Len(calls) + 1 = 1
    BY <1>1
  <2> QED
    BY <1>2, <2>1, <2>2
<1>6. calls' # <<>>
  BY <1>5
<1> QED
  BY <1>1, <1>5, <1>6 DEF Unsent

\* An answered call leaves the stack below it.
LEMMA Finishing ==
  ASSUME Stack(calls), calls # <<>>, Fails \/ Answered
  PROVE  Stack(calls') /\ Unsent(calls') <= Len(calls) - 1
<1>1. calls' = <<>> \/ calls' = Tail(calls)
  BY DEF Fails, Answered
<1>2. Len(calls) \in Nat /\ Len(calls) > 0
  BY DEF Stack
<1>3. CASE calls' = <<>>
  BY <1>2, <1>3, StackEmpty DEF Unsent
<1>4. CASE calls' = Tail(calls)
  <2>1. Stack(calls') /\ Len(calls') = Len(calls) - 1
    BY <1>4, StackTail
  <2> QED
    BY <1>2, <2>1 DEF Unsent
<1> QED
  BY <1>1, <1>3, <1>4

-----------------------------------------------------------------------------
(***************************************************************************)
(* One step.                                                               *)
(***************************************************************************)
LEMMA StackStep ==
  ASSUME Stack(calls), Counters, EveryAttemptCharged, [Next]_vars
  PROVE  Stack(calls') /\ EveryAttemptCharged'
<1> USE DEF Counters
<1>0. /\ Len(calls) \in Nat /\ reqTotal \in Nat /\ sent \in Nat /\ RunBudget \in Nat
      /\ {"charge", "resolve", "bucket", "wire", "refused"} = Steps
  BY PacingAssumption DEF Stack, Steps
<1>1. /\ reqTotal <= RunBudget
      /\ sent + (IF inCleanup THEN 0 ELSE Unsent(calls)) <= reqTotal
  BY UnsentIs DEF EveryAttemptCharged
<1> DEFINE Kept ==
      /\ reqTotal' <= RunBudget
      /\ sent' + (IF inCleanup' THEN 0 ELSE Unsent(calls')) <= reqTotal'
<1>2. Kept => EveryAttemptCharged'
  <2>1. (Len(calls) - Uncharged)' = Unsent(calls')
    BY DEF Unsent, Uncharged, At
  <2> QED
    BY <2>1 DEF EveryAttemptCharged
<1>3. \A step \in Steps : At(step) =>
        /\ calls # <<>>
        /\ Unsent(calls) = Len(calls) - (IF step \in {"charge", "refused"} THEN 1 ELSE 0)
  BY DEF At, Unsent
<1> SUFFICES Stack(calls') /\ Kept
  BY <1>2
<1>4. CASE Ask
  <2>1. Stack(calls') /\ Unsent(calls') = 0 /\ Unsent(calls) = 0
    BY <1>4, Asking
  <2> QED
    BY <1>0, <1>1, <1>4, <2>1 DEF Ask, budgetVars, inCleanup
<1>5. CASE NextEntity
  BY <1>0, <1>1, <1>5 DEF NextEntity, inCleanup
<1>6. CASE NextPhase
  <2>1. Unsent(calls) = 0
    BY <1>6 DEF NextPhase, Idle, Unsent
  <2> QED
    BY <1>0, <1>1, <1>6, <2>1 DEF NextPhase, budgetVars, inCleanup
<1>7. CASE Charge
  <2>1. Unsent(calls) = Len(calls) - 1
    BY <1>0, <1>3, <1>7 DEF Charge
  <2>2. Stack(calls') /\ Unsent(calls') = Len(calls)
    BY <1>0, <1>3, <1>7, Going DEF Charge
  <2>3. ~inCleanup => reqTotal < RunBudget
    BY <1>0, <1>7 DEF Charge, Exhausted
  <2> QED
    BY <1>0, <1>1, <1>7, <2>1, <2>2, <2>3 DEF Charge, inCleanup
<1>8. CASE Overspent
  <2>1. Unsent(calls) = Len(calls) - 1
    BY <1>0, <1>3, <1>8 DEF Overspent
  <2>2. Stack(calls') /\ Unsent(calls') <= Len(calls) - 1
    BY <1>0, <1>3, <1>8, Finishing DEF Overspent
  <2>3. Unsent(calls') \in Int
    BY <2>2 DEF Unsent, Stack
  <2> QED
    BY <1>0, <1>1, <1>8, <2>1, <2>2, <2>3 DEF Overspent, inCleanup
<1>9. ASSUME NEW borrow \in BOOLEAN, Nest(borrow)
      PROVE  Stack(calls') /\ Kept
  <2>1. Stack(calls') /\ Unsent(calls') = Unsent(calls)
    BY <1>9, Nesting
  <2> QED
    BY <1>0, <1>1, <1>9, <2>1 DEF Nest, budgetVars, inCleanup
<1>10. CASE Resolve
  <2>1. Unsent(calls) = Len(calls)
    BY <1>0, <1>3, <1>10 DEF Resolve
  <2>2. Stack(calls') /\ Unsent(calls') = Len(calls)
    BY <1>0, <1>3, <1>10, Going DEF Resolve
  <2> QED
    BY <1>0, <1>1, <1>10, <2>1, <2>2 DEF Resolve, budgetVars, inCleanup
<1>11. CASE CannotResolve
  <2>1. Unsent(calls) = Len(calls)
    BY <1>0, <1>3, <1>11 DEF CannotResolve
  <2>2. Stack(calls') /\ Unsent(calls') <= Len(calls) - 1
    BY <1>0, <1>3, <1>11, Finishing DEF CannotResolve
  <2>3. Unsent(calls') \in Int
    BY <2>2 DEF Unsent, Stack
  <2> QED
    BY <1>0, <1>1, <1>11, <2>1, <2>2, <2>3 DEF CannotResolve, budgetVars, inCleanup
<1>12. ASSUME NEW t, NEW jitter, Grant(t, jitter)
       PROVE  Stack(calls') /\ Kept
  <2>1. Unsent(calls) = Len(calls)
    BY <1>0, <1>3, <1>12 DEF Grant
  <2>2. Stack(calls') /\ Unsent(calls') = Len(calls)
    BY <1>0, <1>3, <1>12, Going DEF Grant
  <2> QED
    BY <1>0, <1>1, <1>12, <2>1, <2>2 DEF Grant, budgetVars, inCleanup
<1>13. ASSUME NEW latency, Respond(latency) \/ RespondBadly(latency)
       PROVE  Stack(calls') /\ Kept
  <2>0. OnTheWire(latency) /\ (Fails \/ Answered)
    BY <1>13 DEF Respond, RespondBadly
  <2>1. Unsent(calls) = Len(calls)
    BY <1>0, <1>3, <2>0 DEF OnTheWire
  <2>2. Stack(calls') /\ Unsent(calls') <= Len(calls) - 1
    BY <1>0, <1>3, <2>0, Finishing DEF OnTheWire
  <2>3. Unsent(calls') \in Int
    BY <2>2 DEF Unsent, Stack
  <2>4. UNCHANGED <<phase, reqTotal>> /\ sent' = IF inCleanup THEN sent ELSE sent + 1
    BY <1>13, <2>0 DEF Respond, RespondBadly, OnTheWire, budgetVars
  <2> QED
    BY <1>0, <1>1, <2>1, <2>2, <2>3, <2>4 DEF inCleanup
<1>14. ASSUME NEW latency, RespondRateLimited(latency)
       PROVE  Stack(calls') /\ Kept
  <2>0. OnTheWire(latency) /\ Goes("refused")
    BY <1>14 DEF RespondRateLimited
  <2>1. Unsent(calls) = Len(calls)
    BY <1>0, <1>3, <2>0 DEF OnTheWire
  <2>2. Stack(calls') /\ Unsent(calls') = Len(calls) - 1
    BY <1>0, <1>3, <2>0, Going DEF OnTheWire
  <2>3. UNCHANGED <<phase, reqTotal>> /\ sent' = IF inCleanup THEN sent ELSE sent + 1
    BY <1>14, <2>0 DEF RespondRateLimited, OnTheWire, budgetVars
  <2> QED
    BY <1>0, <1>1, <2>1, <2>2, <2>3 DEF inCleanup
<1>15. ASSUME NEW ticks, TriesAgain(ticks)
       PROVE  Stack(calls') /\ Kept
  <2>1. Stack(calls') /\ Unsent(calls') = Unsent(calls)
    BY <1>15, Trying
  <2> QED
    BY <1>0, <1>1, <1>15, <2>1 DEF TriesAgain, budgetVars, inCleanup
<1>16. CASE GiveUp
  <2>1. Unsent(calls) = Len(calls) - 1
    BY <1>0, <1>3, <1>16 DEF GiveUp
  <2>2. Stack(calls') /\ Unsent(calls') <= Len(calls) - 1
    BY <1>0, <1>3, <1>16, Finishing DEF GiveUp
  <2>3. Unsent(calls') \in Int
    BY <2>2 DEF Unsent, Stack
  <2> QED
    BY <1>0, <1>1, <1>16, <2>1, <2>2, <2>3 DEF GiveUp, budgetVars, inCleanup
<1>17. CASE TimeUp
  <2>1. Stack(calls')
    BY <1>0, <1>3, <1>17, Finishing DEF TimeUp
  <2> QED
    BY <1>0, <1>1, <1>17, <2>1 DEF TimeUp, budgetVars, inCleanup
<1>18. CASE UNCHANGED vars
  BY <1>0, <1>1, <1>18 DEF vars, budgetVars, inCleanup
<1> QED
  <2> HIDE DEF Kept
  <2> QED
    BY <1>4, <1>5, <1>6, <1>7, <1>8, <1>9, <1>10, <1>11, <1>12, <1>13, <1>14, <1>15,
       <1>16, <1>17, <1>18
    DEF Next, RequestStep, PauseAsAsked, PauseAtRandom

\* No sleep is negative.
LEMMA SleptNat == \A secs \in RetryAfters : Slept(secs) \in Nat
<1> SUFFICES ASSUME NEW secs \in RetryAfters PROVE Slept(secs) \in Nat
  OBVIOUS
<1>1. secs * Second \in Nat /\ Word \in Nat /\ Cap \in Nat /\ 2 * Word \in Nat \ {0}
  BY PacingAssumption
<1>2. (secs * Second + Word) % (2 * Word) \in Int
  BY <1>1
<1>3. Wrapped(secs * Second) \in Int
  BY <1>1, <1>2 DEF Wrapped
<1> QED
  BY <1>1, <1>3 DEF Slept, Lesser, Greater

\* A jitter is a number of ticks.
LEMMA JittersNat == rps \in 1 .. Rate => Jitters \subseteq Nat
<1> SUFFICES ASSUME rps \in 1 .. Rate PROVE Jitters \subseteq Nat
  OBVIOUS
<1>1. 4 * rps \in Nat /\ 4 * rps > 0 /\ Second \in Nat
  BY PacingAssumption
<1>2. Second \div (4 * rps) \in Int
  BY <1>1
<1> QED
  BY <1>2 DEF Jitters

\* No step turns the clock back.
LEMMA ClockStep ==
  ASSUME Counters, Clock, rps \in 1 .. Rate, [Next]_vars
  PROVE  Clock'
<1> USE DEF Clock, ClosingCleanupBounded
<1>0. CleanupLimit \in Nat /\ MaxLatency \in Nat
  BY PacingAssumption
<1>1. CASE Ask
  BY <1>1 DEF Ask, paceVars
<1>2. CASE NextEntity
  BY <1>2 DEF NextEntity, paceVars
<1>3. CASE NextPhase
  BY <1>0, <1>3 DEF NextPhase, paceVars
<1>4. CASE Charge \/ Overspent \/ Resolve \/ CannotResolve \/ GiveUp
  BY <1>4 DEF Charge, Overspent, Resolve, CannotResolve, GiveUp, paceVars
<1>5. ASSUME NEW borrow \in BOOLEAN, Nest(borrow)
      PROVE  Clock'
  BY <1>5 DEF Nest, paceVars
<1>6. ASSUME NEW t \in now .. now + Second, NEW jitter \in Jitters, Grant(t, jitter)
      PROVE  Clock'
  <2>1. t \in Nat /\ jitter \in Nat
    BY JittersNat, PacingAssumption
  <2> QED
    BY <1>0, <1>6, <2>1 DEF Grant, InTime
<1>7. ASSUME NEW latency \in 0 .. MaxLatency,
             Respond(latency) \/ RespondBadly(latency) \/ RespondRateLimited(latency)
      PROVE  Clock'
  <2>1. latency \in Nat /\ OnTheWire(latency)
    BY <1>0, <1>7 DEF Respond, RespondBadly, RespondRateLimited
  <2>2. UNCHANGED <<phase, began, last>> /\ since' \in {since, now'}
    BY <1>7 DEF Respond, RespondBadly, RespondRateLimited, paceVars
  <2> QED
    BY <1>0, <2>1, <2>2 DEF OnTheWire, InTime
<1>8. ASSUME NEW ticks \in Nat, TriesAgain(ticks)
      PROVE  Clock'
  BY <1>0, <1>8 DEF TriesAgain, InTime, paceVars
<1>9. CASE TimeUp
  BY <1>0, <1>9 DEF TimeUp, paceVars
<1>10. CASE UNCHANGED vars
  BY <1>10 DEF vars, paceVars
<1>11. \A ticks \in 0 .. Ceiling : ticks \in Nat
  BY PacingAssumption
<1> QED
  BY <1>1, <1>2, <1>3, <1>4, <1>5, <1>6, <1>7, <1>8, <1>9, <1>10, <1>11, SleptNat
  DEF Next, RequestStep, PauseAsAsked, PauseAtRandom

\* The counters stay natural numbers.
LEMMA CountersStep ==
  ASSUME Counters, runOut \in BOOLEAN, [Next]_vars
  PROVE  Counters' /\ runOut' \in BOOLEAN
<1> USE DEF Counters
<1>0. MaxCleanups \in Nat /\ RunBudget \in Nat /\ EntityBudget \in Nat
  BY PacingAssumption
<1>1. runOut' \in BOOLEAN
  <2>1. CASE Overspent
    BY <2>1 DEF Overspent, Exhausted
  <2>2. CASE ~Overspent
    <3>1. runOut' = runOut
      BY <2>2, Zenon
      DEF Next, RequestStep, vars, budgetVars, Ask, NextEntity, NextPhase, Charge, Nest, Resolve,
          CannotResolve, Grant, Respond, RespondBadly, RespondRateLimited, PauseAsAsked,
          PauseAtRandom, TriesAgain, GiveUp, TimeUp
    <3> QED
      BY <3>1
  <2> QED
    BY <2>1, <2>2
<1>2. CASE Ask
  BY <1>0, <1>2 DEF Ask, budgetVars
<1>3. CASE NextEntity
  BY <1>0, <1>3 DEF NextEntity
<1>4. CASE NextPhase
  BY <1>0, <1>4 DEF NextPhase, Phases, budgetVars
<1>5. CASE Charge
  BY <1>0, <1>5 DEF Charge, Exhausted, Phases, inCleanup
<1>6. CASE Overspent
  <2>1. UNCHANGED <<phase, cleanups, reqTotal, requests, seen, sent>>
    BY <1>6, Zenon DEF Overspent
  <2> QED
    BY <1>1, <2>1
<1>7. ASSUME NEW borrow \in BOOLEAN, Nest(borrow)
      PROVE  Counters'
  BY <1>7 DEF Nest, budgetVars
<1>8. CASE Resolve \/ CannotResolve \/ GiveUp \/ TimeUp
  BY <1>8 DEF Resolve, CannotResolve, GiveUp, TimeUp, budgetVars
<1>9. ASSUME NEW t, NEW jitter, Grant(t, jitter)
      PROVE  Counters'
  BY <1>9 DEF Grant, budgetVars
<1>10. ASSUME NEW latency,
              Respond(latency) \/ RespondBadly(latency) \/ RespondRateLimited(latency)
       PROVE  Counters'
  <2>1. OnTheWire(latency) /\ seen' \in {seen, seen + 1}
    BY <1>10 DEF Respond, RespondBadly, RespondRateLimited
  <2>2. UNCHANGED <<phase, cleanups, reqTotal, requests>>
    BY <1>10 DEF Respond, RespondBadly, RespondRateLimited, budgetVars
  <2> QED
    BY <2>1, <2>2 DEF OnTheWire
<1>11. ASSUME NEW ticks, TriesAgain(ticks)
       PROVE  Counters'
  BY <1>11 DEF TriesAgain, budgetVars
<1>12. CASE UNCHANGED vars
  BY <1>12 DEF vars, budgetVars
<1> QED
  BY <1>1, <1>2, <1>3, <1>4, <1>5, <1>6, <1>7, <1>8, <1>9, <1>10, <1>11, <1>12
  DEF Next, RequestStep, PauseAsAsked, PauseAtRandom

\* What the bucket has granted and still holds is within the allowance; before
\* it is asked again after a slowdown, nothing is granted.
Allowance ==
  /\ burst * Second + tokens <= rps * Second + rps * (Greater(last, since) - since)
  /\ last < since => burst = 0

\* Multiplying by a natural number keeps an order.
LEMMA Monotone ==
  \A k, a, b \in Int : k >= 0 /\ a <= b => k * a <= k * b
OBVIOUS

\* A product distributes over a sum and a difference.
LEMMA Distributes ==
  \A k, a, b \in Int : k * (a + b) = k * a + k * b /\ k * (a - b) = k * a - k * b
OBVIOUS

\* A granted token keeps the account of the bucket.
LEMMA GrantKeeps ==
  ASSUME Clock, Bucket, Allowance, NEW t \in now .. now + Second, NEW jitter, Grant(t, jitter)
  PROVE  Bucket' /\ Allowance'
<1>0. /\ Second \in Nat /\ rps \in Nat /\ tokens \in Int /\ burst \in Nat /\ t \in Nat
      /\ last \in Nat /\ since \in Nat /\ last <= t /\ since <= t
  BY PacingAssumption DEF Clock, Bucket
<1> DEFINE full == rps * Second
           earned == rps * (t - last)
           since0 == rps * (Greater(last, since) - since)
           since1 == rps * (t - since)
<1>1. full \in Nat /\ earned \in Int /\ since0 \in Int /\ since1 \in Int /\ burst * Second \in Nat
  BY <1>0 DEF Greater
<1>2. earned >= 0 /\ since1 >= 0
  <2>1. rps * 0 <= rps * (t - last) /\ rps * 0 <= rps * (t - since)
    BY <1>0, Monotone
  <2> QED
    BY <1>0, <2>1
<1>3. last >= since => since0 + earned = since1
  <2> SUFFICES ASSUME last >= since PROVE since0 + earned = since1
    OBVIOUS
  <2>1. Greater(last, since) = last
    BY <1>0 DEF Greater
  <2>2. rps * ((last - since) + (t - last)) = rps * (last - since) + rps * (t - last)
    BY <1>0, Distributes
  <2>3. (last - since) + (t - last) = t - since
    BY <1>0
  <2> QED
    BY <2>1, <2>2, <2>3
<1>4. TokensAt(t) = Lesser(tokens + earned, full)
  <2>1. (t - last) * rps = rps * (t - last)
    BY <1>0
  <2> QED
    BY <2>1 DEF TokensAt
<1>5. /\ tokens' = TokensAt(t) - Second /\ last' = t /\ burst' = burst + 1
      /\ TokensAt(t) >= Second /\ UNCHANGED <<rps, since>>
  BY DEF Grant
<1>6. burst' * Second = burst * Second + Second
  <2>1. Second * (burst + 1) = Second * burst + Second * 1
    BY <1>0, Distributes
  <2>2. Second * (burst + 1) = burst' * Second /\ Second * burst = burst * Second
    BY <1>0, <1>5
  <2> QED
    BY <1>0, <2>1, <2>2
<1>7. Greater(last', since') = t
  BY <1>0, <1>5 DEF Greater
<1>8. /\ burst * Second + tokens <= full + since0
      /\ last < since => burst = 0
  BY DEF Allowance
<1>9. last < since => burst * Second = 0
  BY <1>0, <1>8
<1>10. tokens' \in 0 .. full
  BY <1>0, <1>1, <1>4, <1>5 DEF Lesser
<1>11. burst' * Second + tokens' <= full + since1
  <2> HIDE DEF full, earned, since0, since1
  <2>1. burst' * Second + tokens' = burst * Second + Lesser(tokens + earned, full)
    BY <1>0, <1>1, <1>4, <1>5, <1>6 DEF Lesser
  <2>2. Lesser(tokens + earned, full) <= full /\ Lesser(tokens + earned, full) <= tokens + earned
    BY <1>0, <1>1 DEF Lesser
  <2>3. Lesser(tokens + earned, full) \in Int
    BY <1>0, <1>1 DEF Lesser
  <2> QED
    BY <1>0, <1>1, <1>2, <1>3, <1>8, <1>9, <2>1, <2>2, <2>3
<1> QED
  BY <1>0, <1>5, <1>7, <1>10, <1>11 DEF Bucket, Allowance

\* A slowdown keeps the account of the bucket.
LEMMA SlowKeeps ==
  ASSUME Clock, Bucket, Allowance, NEW latency \in 0 .. MaxLatency, RespondRateLimited(latency)
  PROVE  Bucket' /\ Allowance'
<1>0. /\ Second \in Nat /\ rps \in Nat /\ rps > 0 /\ tokens \in Nat /\ burst \in Nat
      /\ latency \in Nat /\ last \in Nat /\ now \in Nat /\ last <= now
  BY PacingAssumption DEF Clock, Bucket
<1>1. rps' = RateAfter(seen + 1) /\ UNCHANGED last /\ now' = now + latency
  BY DEF RespondRateLimited, OnTheWire
<1>2. rps' \in 1 .. Rate /\ rps' <= rps
  <2>1. rps \div 2 \in Int /\ rps \div 2 <= rps
    BY <1>0
  <2>2. RateAfter(seen + 1) \in {rps, Greater(rps \div 2, 1)}
    BY DEF RateAfter
  <2> QED
    BY <1>0, <1>1, <2>1, <2>2, PacingAssumption DEF Bucket, Greater
<1>3. CASE rps' < rps
  <2>1. tokens' = Lesser(tokens, rps' * Second) /\ since' = now' /\ burst' = 0
    BY <1>3 DEF RespondRateLimited
  <2>2. rps' * Second \in Nat
    <3>1. rps' \in Nat /\ \A a, b \in Nat : a * b \in Nat
      BY <1>2, PacingAssumption
    <3> QED
      BY <1>0, <3>1
  <2>3. tokens' \in 0 .. rps' * Second
    BY <1>0, <2>1, <2>2 DEF Lesser
  <2>4. Greater(last', since') = since' /\ since' - since' = 0 /\ rps' * 0 = 0 /\ burst' * Second = 0
    BY <1>0, <1>1, <1>2, <2>1 DEF Greater
  <2> QED
    BY <1>2, <2>1, <2>2, <2>3, <2>4 DEF Bucket, Allowance
<1>4. CASE ~(rps' < rps)
  <2>1. UNCHANGED <<rps, tokens, since, burst, last>>
    BY <1>0, <1>1, <1>2, <1>4 DEF RespondRateLimited
  <2> QED
    BY <2>1 DEF Bucket, Allowance
<1> QED
  BY <1>3, <1>4

\* Every step keeps the account of the bucket.
LEMMA BucketStep ==
  ASSUME Clock, Bucket, Allowance, [Next]_vars
  PROVE  Bucket' /\ Allowance'
<1>1. ASSUME UNCHANGED paceVars PROVE Bucket' /\ Allowance'
  BY <1>1 DEF Bucket, Allowance, paceVars
<1>2. CASE \E t \in now .. now + Second, jitter \in Jitters : Grant(t, jitter)
  BY <1>2, GrantKeeps
<1>3. CASE \E latency \in 0 .. MaxLatency : RespondRateLimited(latency)
  BY <1>3, SlowKeeps
<1>4. CASE \E latency \in 0 .. MaxLatency : Respond(latency) \/ RespondBadly(latency)
  BY <1>1, <1>4 DEF Respond, RespondBadly
<1>5. CASE \/ Ask \/ NextEntity \/ NextPhase
           \/ Charge \/ Overspent \/ Resolve \/ CannotResolve \/ GiveUp \/ TimeUp
           \/ \E borrow \in BOOLEAN : Nest(borrow)
           \/ UNCHANGED vars
  BY <1>1, <1>5
  DEF Ask, NextEntity, NextPhase, Charge, Overspent, Resolve, CannotResolve, GiveUp, TimeUp,
      Nest, vars
<1>6. CASE \E ticks \in 0 .. Ceiling : PauseAtRandom(ticks)
  BY <1>1, <1>6 DEF PauseAtRandom, TriesAgain
<1>7. CASE \E secs \in RetryAfters : PauseAsAsked(secs)
  BY <1>1, <1>7 DEF PauseAsAsked, TriesAgain
<1> QED
  BY <1>2, <1>3, <1>4, <1>5, <1>6, <1>7 DEF Next, RequestStep

-----------------------------------------------------------------------------
(***************************************************************************)
(* Every step of every run.                                                *)
(***************************************************************************)
IInv ==
  /\ Stack(calls)
  /\ Counters
  /\ runOut \in BOOLEAN
  /\ Clock
  /\ Bucket
  /\ Allowance
  /\ EveryAttemptCharged

\* The inductive invariant holds of the first state.
LEMMA IInvInit == Init => IInv
<1> SUFFICES ASSUME Init PROVE IInv
  OBVIOUS
<1> USE DEF Init
<1>1. Stack(calls)
  BY StackEmpty
<1>2. Counters
  BY PacingAssumption DEF Counters, Phases
<1>3. runOut \in BOOLEAN
  OBVIOUS
<1>4. Clock
  BY DEF Clock, ClosingCleanupBounded
<1>5. Rate * Second \in Nat /\ Rate \in Nat /\ Rate > 0 /\ 0 * Second = 0 /\ Rate * 0 = 0
  BY PacingAssumption
<1>6. Bucket
  BY <1>5 DEF Bucket
<1>7. Allowance
  BY <1>5 DEF Allowance, Greater
<1>8. EveryAttemptCharged
  BY PacingAssumption DEF EveryAttemptCharged, inCleanup
<1> QED
  BY <1>1, <1>2, <1>3, <1>4, <1>6, <1>7, <1>8 DEF IInv

\* The inductive invariant is kept by every step.
LEMMA IInvStep == IInv /\ [Next]_vars => IInv'
<1> SUFFICES ASSUME IInv, [Next]_vars PROVE IInv'
  OBVIOUS
<1>1. Stack(calls') /\ EveryAttemptCharged'
  BY StackStep DEF IInv
<1>2. Counters' /\ runOut' \in BOOLEAN
  BY CountersStep DEF IInv
<1>3. Clock'
  BY ClockStep DEF IInv, Bucket
<1>4. Bucket' /\ Allowance'
  BY BucketStep DEF IInv
<1> QED
  <2>1. Stack(calls)'
    BY <1>1 DEF Stack
  <2> QED
    BY <1>1, <1>2, <1>3, <1>4, <2>1 DEF IInv

\* What the invariant says of one state.
LEMMA IInvTypes == IInv => TypeOK
BY Zenon DEF IInv, Stack, Counters, Clock, Bucket, TypeOK

\* The account of the bucket bounds what has been granted.
LEMMA IInvPaces == IInv => Paced
<1> SUFFICES ASSUME IInv PROVE Paced
  OBVIOUS
<1>1. /\ rps \in Nat /\ tokens \in Nat /\ now \in Nat /\ last \in Nat /\ since \in Nat
      /\ burst \in Nat /\ last <= now /\ since <= now /\ Second \in Nat
  BY PacingAssumption DEF IInv, Clock, Bucket
<1>2. Greater(last, since) - since \in Int /\ Greater(last, since) - since <= now - since
  BY <1>1 DEF Greater
<1>3. rps * (Greater(last, since) - since) <= rps * (now - since)
  BY <1>1, <1>2, Monotone
<1>4. burst * Second + tokens <= rps * Second + rps * (Greater(last, since) - since)
  BY DEF IInv, Allowance
<1>5. /\ burst * Second \in Int /\ rps * Second \in Int /\ rps * (now - since) \in Int
      /\ rps * (Greater(last, since) - since) \in Int
  BY <1>1, <1>2
<1> QED
  BY <1>1, <1>3, <1>4, <1>5 DEF Paced

\* The inductive invariant holds of every reachable state.
LEMMA Always == Spec => []IInv
BY IInvInit, IInvStep, PTL DEF Spec

\* The pacing never leaves its types: no budget is overcharged, the rate stays
\* between one and the configured rate, no token is owed, and only the innermost
\* of the nested requests is past resolving its path.
THEOREM PacingTypeCorrect == Spec => []TypeOK
BY Always, IInvTypes, PTL

\* "Every attempt is charged to the budget", for every budget, every nesting and
\* every number of retries.
THEOREM EveryAttemptIsCharged == Spec => []EveryAttemptCharged
<1>1. IInv => EveryAttemptCharged
  BY DEF IInv
<1> QED
  BY <1>1, Always, PTL

\* From the moment a rate takes effect, never more attempts are granted than one
\* second's burst and that rate allow, whatever slowdowns came before.
THEOREM RunIsPaced == Spec => []Paced
BY Always, IInvPaces, PTL

\* The closing cleanup keeps to its time limit, however often it is refused.
THEOREM ClosingCleanupInTime == Spec => []ClosingCleanupBounded
<1>1. IInv => ClosingCleanupBounded
  BY DEF IInv, Clock
<1> QED
  BY <1>1, Always, PTL

\* What a header asks for is capped before it is slept.
LEMMA SleptBounded == \A secs \in RetryAfters : Slept(secs) <= Cap
<1> SUFFICES ASSUME NEW secs \in RetryAfters PROVE Slept(secs) <= Cap
  OBVIOUS
<1>1. Wrapped(secs * Second) \in Int
  <2>1. secs * Second + Word \in Int /\ 2 * Word \in Nat \ {0}
    BY PacingAssumption
  <2> QED
    BY <2>1, PacingAssumption DEF Wrapped
<1> QED
  BY <1>1, PacingAssumption DEF Slept, Greater, Lesser

\* Where a refusal has to be answered, one step sleeps at most as long as the longer
\* of the two bounds.
LEMMA PauseStep ==
  IInv /\ [Next]_vars =>
    [At("refused") /\ phase # "after" => now' - now <= Greater(Cap, Ceiling)]_vars
<1> SUFFICES ASSUME IInv, Next, At("refused"), phase # "after"
             PROVE  now' - now <= Greater(Cap, Ceiling)
  OBVIOUS
<1>1. now \in Nat
  BY DEF IInv, Clock
<1>2. Cap \in Nat /\ Ceiling \in Nat
  BY PacingAssumption
<1>3. 0 <= Greater(Cap, Ceiling) /\ Cap <= Greater(Cap, Ceiling) /\ Ceiling <= Greater(Cap, Ceiling)
  BY <1>2 DEF Greater
<1>4. Greater(Cap, Ceiling) \in Nat
  BY <1>2 DEF Greater
<1>5. ASSUME now' = now PROVE now' - now <= Greater(Cap, Ceiling)
  BY <1>1, <1>3, <1>4, <1>5
<1>6. calls # <<>> /\ Head(calls).step = "refused"
  BY DEF At
<1>7. ASSUME NEW secs \in RetryAfters, PauseAsAsked(secs)
      PROVE  now' - now <= Greater(Cap, Ceiling)
  <2>1. Slept(secs) \in Nat /\ Slept(secs) <= Cap /\ now' = now + Slept(secs)
    BY <1>7, SleptNat, SleptBounded DEF PauseAsAsked, TriesAgain
  <2> QED
    BY <1>1, <1>2, <1>3, <1>4, <2>1
<1>8. ASSUME NEW ticks \in 0 .. Ceiling, PauseAtRandom(ticks)
      PROVE  now' - now <= Greater(Cap, Ceiling)
  <2>1. ticks \in Nat /\ ticks <= Ceiling /\ now' = now + ticks
    BY <1>2, <1>8 DEF PauseAtRandom, TriesAgain
  <2> QED
    BY <1>1, <1>2, <1>3, <1>4, <2>1
<1>9. CASE GiveUp
  BY <1>5, <1>9 DEF GiveUp
<1>10. ~Ask /\ ~NextEntity /\ ~NextPhase
  BY <1>6 DEF Ask, NextEntity, NextPhase, Idle
<1>11. ~Charge /\ ~Overspent /\ ~Resolve /\ ~CannotResolve /\ ~TimeUp
       /\ \A borrow \in BOOLEAN : ~Nest(borrow)
  BY <1>6 DEF Charge, Overspent, Resolve, CannotResolve, TimeUp, Nest, At
<1>12. \A t, jitter : ~Grant(t, jitter)
  BY <1>6 DEF Grant, At
<1>13. \A latency : ~Respond(latency) /\ ~RespondBadly(latency) /\ ~RespondRateLimited(latency)
  BY <1>6 DEF Respond, RespondBadly, RespondRateLimited, OnTheWire, At
<1> QED
  BY <1>7, <1>8, <1>9, <1>10, <1>11, <1>12, <1>13 DEF Next, RequestStep

\* Outside the closing cleanup no refusal makes the run sleep longer than
\* backoffRetryAfterCap or the draw's ceiling, whatever the header asks for, products
\* that wrap the 64-bit duration included.
THEOREM NoLongPause == Spec => PausesBounded
<1>1. IInv /\ [Next]_vars =>
        [ /\ At("refused") /\ phase # "after" => now' - now <= Greater(Cap, Ceiling)
          /\ ClosingCleanupBounded' ]_vars
  <2> SUFFICES ASSUME IInv, [Next]_vars
               PROVE  [ /\ At("refused") /\ phase # "after" => now' - now <= Greater(Cap, Ceiling)
                        /\ ClosingCleanupBounded' ]_vars
    OBVIOUS
  <2>1. ClosingCleanupBounded'
    BY IInvStep DEF IInv, Clock
  <2>2. [At("refused") /\ phase # "after" => now' - now <= Greater(Cap, Ceiling)]_vars
    BY PauseStep
  <2> QED
    BY <2>1, <2>2
<1> QED
  BY <1>1, Always, PTL DEF Spec, PausesBounded

-----------------------------------------------------------------------------
(***************************************************************************)
(* That every step of a request brings the requests being made nearer an   *)
(* answer: what is left of each is a number, and a step takes one of them  *)
(* down and touches none of those it was made for.                         *)
(***************************************************************************)
\* How far an attempt still has to go.
Ahead(step) ==
  CASE step = "charge"  -> 4
    [] step = "resolve" -> 3
    [] step = "bucket"  -> 2
    [] step = "wire"    -> 1
    [] OTHER            -> 0

\* What is left of a request: its attempts, the rest of this one, its references.
Remains(c) == 5 * (Attempts - c.attempt) + Ahead(c.step) + c.refs + 1

\* What is left of the k-th request, counted from the one the run itself makes.
Level(s, k) == IF k <= Len(s) THEN Remains(s[Len(s) + 1 - k]) ELSE 0
Rank(s)     == [k \in 1 .. MaxDepth |-> Level(s, k)]

Ranks    == [1 .. MaxDepth -> Nat]
Descent  == LexProductOrdering(OpToRel(<, Nat), Nat, MaxDepth)
Descends == calls # <<>> => <<Rank(calls'), Rank(calls)>> \in Descent

\* There is no going down for ever.
LEMMA DescentEnds == IsWellFoundedOn(Descent, Ranks)
<1>1. IsWellFoundedOn(OpToRel(<, Nat), Nat) /\ MaxDepth \in Nat
  BY NatLessThanWellFounded, PacingAssumption
<1> QED
  BY <1>1, WFLexProductOrdering DEF Descent, Ranks

LEMMA RemainsNat == \A c \in Call : Remains(c) \in Nat \ {0}
<1> SUFFICES ASSUME NEW c \in Call PROVE Remains(c) \in Nat \ {0}
  OBVIOUS
<1>1. Attempts - c.attempt \in Nat /\ c.refs \in Nat
  BY PacingAssumption DEF Call
<1>2. Ahead(c.step) \in Nat
  BY DEF Ahead
<1> QED
  BY <1>1, <1>2 DEF Remains

LEMMA LevelNat == ASSUME NEW s, Stack(s), NEW k \in Nat \ {0} PROVE Level(s, k) \in Nat
<1>1. s \in Seq(Call) /\ Len(s) \in Nat
  BY DEF Stack
<1>2. CASE k <= Len(s)
  <2>1. Len(s) + 1 - k \in 1 .. Len(s)
    BY <1>1, <1>2
  <2>2. s[Len(s) + 1 - k] \in Call
    BY <1>1, <2>1
  <2> QED
    BY <1>2, <2>2, RemainsNat DEF Level
<1> QED
  BY <1>2 DEF Level

\* A level that falls while those below it stay is a descent.
LEMMA FallIsDescent ==
  ASSUME NEW s, Stack(s), NEW t, Stack(t), NEW j \in 1 .. MaxDepth,
         \A k \in 1 .. j - 1 : Level(t, k) = Level(s, k),
         Level(t, j) < Level(s, j)
  PROVE  <<Rank(t), Rank(s)>> \in Descent
<1>0. MaxDepth \in Nat
  BY PacingAssumption
<1>1. Rank(s) \in Ranks /\ Rank(t) \in Ranks
  BY <1>0, LevelNat DEF Rank, Ranks
<1>2. \A k \in 1 .. MaxDepth : Rank(t)[k] = Level(t, k) /\ Rank(s)[k] = Level(s, k)
  BY DEF Rank
<1>3. \A k \in 1 .. j - 1 : k \in 1 .. MaxDepth
  BY <1>0
<1>4. \A k \in 1 .. j - 1 : Rank(t)[k] = Rank(s)[k]
  BY <1>2, <1>3
<1>5. Level(t, j) \in Nat /\ Level(s, j) \in Nat
  BY LevelNat, <1>0
<1>6. <<Rank(t)[j], Rank(s)[j]>> \in OpToRel(<, Nat)
  BY <1>2, <1>5 DEF OpToRel
<1> HIDE DEF Rank
<1> QED
  BY <1>1, <1>4, <1>6 DEF Descent, LexProductOrdering, Ranks

\* The innermost request has less left and the others the same.
LEMMA TopFalls ==
  ASSUME NEW s, Stack(s), s # <<>>, NEW c \in Call, Remains(c) < Remains(s[1])
  PROVE  LET t == [s EXCEPT ![1] = c]
         IN /\ \A k \in 1 .. Len(s) - 1 : Level(t, k) = Level(s, k)
            /\ Level(t, Len(s)) < Level(s, Len(s))
<1> DEFINE t == [s EXCEPT ![1] = c]
<1>1. s \in Seq(Call) /\ Len(s) \in Nat /\ Len(s) > 0 /\ 1 \in DOMAIN s
  BY DEF Stack
<1>2. Len(t) = Len(s) /\ t[1] = c /\ \A i \in 2 .. Len(s) : t[i] = s[i]
  BY <1>1
<1> HIDE DEF t
<1>3. \A k \in 1 .. Len(s) - 1 : Len(s) + 1 - k \in 2 .. Len(s) /\ k <= Len(s)
  BY <1>1
<1>4. \A k \in 1 .. Len(s) - 1 : Level(t, k) = Level(s, k)
  BY <1>2, <1>3 DEF Level
<1>5. Len(s) + 1 - Len(s) = 1 /\ Len(s) <= Len(s)
  BY <1>1
<1>6. Level(t, Len(s)) = Remains(c) /\ Level(s, Len(s)) = Remains(s[1])
  BY <1>2, <1>5 DEF Level
<1>7. Level(t, Len(s)) < Level(s, Len(s))
  BY <1>6
<1> QED
  BY <1>4, <1>7 DEF t

\* A step of the innermost request.
LEMMA GoingDescends ==
  ASSUME Stack(calls), NEW step \in Steps, Goes(step), calls # <<>>,
         Ahead(step) < Ahead(Head(calls).step)
  PROVE  <<Rank(calls'), Rank(calls)>> \in Descent
<1> DEFINE c == [calls[1] EXCEPT !.step = step]
<1>1. calls[1] \in Call /\ calls \in Seq(Call) /\ 1 \in DOMAIN calls /\ Head(calls) = calls[1]
  BY DEF Stack
<1>2. c \in Call
  BY <1>1, CallSet
<1>3. calls' = [calls EXCEPT ![1] = c]
  BY <1>1 DEF Goes
<1>4. c.step = step /\ c.attempt = calls[1].attempt /\ c.refs = calls[1].refs
  BY <1>1 DEF Call
<1> HIDE DEF c
<1>5. Remains(c) < Remains(calls[1])
  <2>1. Attempts \in Nat /\ calls[1].attempt \in Nat /\ calls[1].refs \in Nat
    BY <1>1, PacingAssumption DEF Call
  <2>2. Ahead(step) \in Nat /\ Ahead(calls[1].step) \in Nat
    BY DEF Ahead
  <2>3. Ahead(step) < Ahead(calls[1].step)
    BY <1>1
  <2> HIDE DEF Ahead
  <2> QED
    BY <1>4, <2>1, <2>2, <2>3 DEF Remains
<1>6. Stack(calls') /\ Len(calls) \in 1 .. MaxDepth
  <2>1. Stack(calls')
    BY <1>2, <1>3, StackSet
  <2> QED
    BY <1>1, <2>1, PacingAssumption DEF Stack
<1>7. /\ \A k \in 1 .. Len(calls) - 1 : Level(calls', k) = Level(calls, k)
      /\ Level(calls', Len(calls)) < Level(calls, Len(calls))
  BY <1>2, <1>3, <1>5, TopFalls
<1> QED
  BY <1>6, <1>7, FallIsDescent

\* Another attempt of it.
LEMMA TryingDescends ==
  ASSUME Stack(calls), NEW ticks, TriesAgain(ticks)
  PROVE  <<Rank(calls'), Rank(calls)>> \in Descent
<1> DEFINE c == [calls[1] EXCEPT !.step = "charge", !.attempt = @ + 1]
<1>0. calls # <<>> /\ Head(calls).step = "refused"
  BY DEF At, TriesAgain
<1>1. calls[1] \in Call /\ calls \in Seq(Call) /\ 1 \in DOMAIN calls /\ Head(calls) = calls[1]
  BY <1>0 DEF Stack
<1>2. c \in Call
  BY <1>1, CallSet DEF TriesAgain
<1>3. calls' = [calls EXCEPT ![1] = c]
  BY <1>1 DEF Call, TriesAgain
<1>4. c.step = "charge" /\ c.attempt = calls[1].attempt + 1 /\ c.refs = calls[1].refs
  BY <1>1 DEF Call
<1> HIDE DEF c
<1>5. Remains(c) < Remains(calls[1])
  <2>1. Attempts \in Nat /\ calls[1].attempt \in Nat /\ calls[1].refs \in Nat
    BY <1>1, PacingAssumption DEF Call
  <2>2. Ahead(c.step) = 4 /\ Ahead(calls[1].step) = 0
    BY <1>0, <1>1, <1>4 DEF Ahead
  <2> QED
    BY <1>4, <2>1, <2>2 DEF Remains
<1>6. Stack(calls') /\ Len(calls) \in 1 .. MaxDepth
  <2>1. Stack(calls')
    BY <1>0, <1>2, <1>3, StackSet
  <2> QED
    BY <1>0, <1>1, <2>1, PacingAssumption DEF Stack
<1>7. /\ \A k \in 1 .. Len(calls) - 1 : Level(calls', k) = Level(calls, k)
      /\ Level(calls', Len(calls)) < Level(calls, Len(calls))
  BY <1>0, <1>2, <1>3, <1>5, TopFalls
<1> QED
  BY <1>6, <1>7, FallIsDescent

\* A request for one of its references: that reference is no longer to be resolved.
LEMMA NestingDescends ==
  ASSUME Stack(calls), NEW b \in BOOLEAN, Nest(b)
  PROVE  <<Rank(calls'), Rank(calls)>> \in Descent
<1> DEFINE c == [calls[1] EXCEPT !.refs = @ - 1]
           s == [calls EXCEPT ![1] = c]
           d == [step |-> "charge", attempt |-> 1, borrow |-> b, refs |-> IF b THEN 0 ELSE MaxRefs]
<1>1. calls[1] \in Call /\ calls \in Seq(Call) /\ 1 \in DOMAIN calls /\ calls # <<>>
      /\ Head(calls) = calls[1]
  BY DEF Stack, Nest, At
<1>2. c \in Call
  BY <1>1, CallSet DEF Nest
<1>3. calls' = <<d>> \o s
  BY <1>1 DEF Nest, Request
<1>4. c.step = calls[1].step /\ c.attempt = calls[1].attempt /\ c.refs = calls[1].refs - 1
  BY <1>1 DEF Call
<1> HIDE DEF c, d
<1>5. Remains(c) < Remains(calls[1])
  <2>1. Attempts \in Nat /\ calls[1].attempt \in Nat /\ calls[1].refs \in Nat
    BY <1>1, PacingAssumption DEF Call
  <2>2. Ahead(calls[1].step) \in Nat
    BY DEF Ahead
  <2> HIDE DEF Ahead
  <2> QED
    BY <1>4, <2>1, <2>2 DEF Remains
<1>6. Stack(s) /\ Len(s) = Len(calls) /\ s \in Seq(Call)
  <2>1. Stack(s) /\ Len(s) = Len(calls)
    BY <1>1, <1>2, StackSet
  <2> QED
    BY <2>1 DEF Stack
<1>7. /\ \A k \in 1 .. Len(calls) - 1 : Level(s, k) = Level(calls, k)
      /\ Level(s, Len(calls)) < Level(calls, Len(calls))
  BY <1>1, <1>2, <1>5, TopFalls
<1>8. Len(calls) \in 1 .. MaxDepth
  BY <1>1, PacingAssumption DEF Stack
<1> HIDE DEF s
<1>9. \A k \in 1 .. Len(s) : Level(<<d>> \o s, k) = Level(s, k)
  <2> SUFFICES ASSUME NEW k \in 1 .. Len(s) PROVE Level(<<d>> \o s, k) = Level(s, k)
    OBVIOUS
  <2>1. Len(<<d>> \o s) = Len(s) + 1 /\ Len(s) \in Nat
    BY <1>6
  <2>2. \A i \in 2 .. Len(s) + 1 : (<<d>> \o s)[i] = s[i - 1]
    BY <1>6
  <2>3. Len(s) + 1 + 1 - k \in 2 .. Len(s) + 1 /\ (Len(s) + 1 + 1 - k) - 1 = Len(s) + 1 - k
        /\ k <= Len(s) + 1 /\ k <= Len(s)
    BY <2>1
  <2>4. (<<d>> \o s)[Len(s) + 1 + 1 - k] = s[Len(s) + 1 - k]
    BY <2>2, <2>3
  <2> QED
    BY <2>1, <2>3, <2>4 DEF Level
<1>10. Stack(calls')
  BY Nesting
<1>11. /\ \A k \in 1 .. Len(calls) - 1 : Level(calls', k) = Level(calls, k)
       /\ Level(calls', Len(calls)) < Level(calls, Len(calls))
  BY <1>3, <1>6, <1>7, <1>8, <1>9
<1> QED
  BY <1>8, <1>10, <1>11, FallIsDescent

\* An answer, or an error of one request or of all.
LEMMA FinishingDescends ==
  ASSUME Stack(calls), calls # <<>>, Fails \/ Answered
  PROVE  <<Rank(calls'), Rank(calls)>> \in Descent
<1>1. calls' = <<>> \/ calls' = Tail(calls)
  BY DEF Fails, Answered
<1>2. calls \in Seq(Call) /\ Len(calls) \in 1 .. MaxDepth /\ 1 \in 1 .. MaxDepth
  BY PacingAssumption DEF Stack
<1>3. Stack(calls')
  BY Finishing
<1>4. \A k \in 1 .. Len(calls) : Level(calls, k) \in Nat /\ Level(calls, k) > 0
  <2> SUFFICES ASSUME NEW k \in 1 .. Len(calls)
               PROVE  Level(calls, k) \in Nat /\ Level(calls, k) > 0
    OBVIOUS
  <2>1. Len(calls) + 1 - k \in 1 .. Len(calls) /\ k <= Len(calls)
    BY <1>2
  <2>2. calls[Len(calls) + 1 - k] \in Call
    BY <1>2, <2>1
  <2> QED
    BY <2>1, <2>2, RemainsNat DEF Level
<1>5. CASE calls' = <<>>
  <2>1. Level(calls', 1) = 0
    BY <1>5 DEF Level
  <2>2. Level(calls', 1) < Level(calls, 1)
    BY <1>2, <1>4, <2>1
  <2> QED
    BY <1>2, <1>3, <2>2, FallIsDescent
<1>6. CASE calls' = Tail(calls)
  <2>1. Len(calls') = Len(calls) - 1 /\ \A i \in 1 .. Len(calls) - 1 : calls'[i] = calls[i + 1]
    BY <1>2, <1>6
  <2>2. \A k \in 1 .. Len(calls) - 1 : Level(calls', k) = Level(calls, k)
    <3> SUFFICES ASSUME NEW k \in 1 .. Len(calls) - 1 PROVE Level(calls', k) = Level(calls, k)
      OBVIOUS
    <3>1. Len(calls) - 1 + 1 - k \in 1 .. Len(calls) - 1
          /\ (Len(calls) - 1 + 1 - k) + 1 = Len(calls) + 1 - k /\ k <= Len(calls)
      BY <1>2
    <3>2. calls'[Len(calls) - 1 + 1 - k] = calls[Len(calls) + 1 - k]
      BY <2>1, <3>1
    <3> QED
      BY <2>1, <3>1, <3>2 DEF Level
  <2>3. Level(calls', Len(calls)) = 0
    BY <1>2, <2>1 DEF Level
  <2>4. Level(calls', Len(calls)) < Level(calls, Len(calls))
    BY <1>2, <1>4, <2>3
  <2> QED
    BY <1>2, <1>3, <2>2, <2>4, FallIsDescent
<1> QED
  BY <1>1, <1>5, <1>6

LEMMA DescentStep == ASSUME Stack(calls), Next PROVE Descends
<1> SUFFICES ASSUME calls # <<>> PROVE <<Rank(calls'), Rank(calls)>> \in Descent
  BY DEF Descends
<1>0. {"charge", "resolve", "bucket", "wire", "refused"} = Steps
  BY DEF Steps
<1>1. CASE Ask \/ NextEntity \/ NextPhase
  BY <1>1 DEF Ask, NextEntity, NextPhase, Idle
<1>2. CASE Charge
  <2>1. CASE Goes("resolve")
    BY <1>0, <1>2, <2>1, GoingDescends DEF Charge, At, Ahead
  <2>2. CASE Goes("bucket")
    BY <1>0, <1>2, <2>2, GoingDescends DEF Charge, At, Ahead
  <2> QED
    BY <1>2, <2>1, <2>2 DEF Charge
<1>3. CASE Resolve
  BY <1>0, <1>3, GoingDescends DEF Resolve, At, Ahead
<1>4. CASE \E borrow \in BOOLEAN : Nest(borrow)
  BY <1>4, NestingDescends
<1>5. CASE \E t \in now .. now + Second, jitter \in Jitters : Grant(t, jitter)
  BY <1>0, <1>5, GoingDescends DEF Grant, At, Ahead
<1>6. CASE \E latency \in 0 .. MaxLatency : RespondRateLimited(latency)
  BY <1>0, <1>6, GoingDescends DEF RespondRateLimited, OnTheWire, At, Ahead
<1>7. CASE \E latency \in 0 .. MaxLatency : Respond(latency) \/ RespondBadly(latency)
  BY <1>7, FinishingDescends DEF Respond, RespondBadly
<1>8. CASE Overspent \/ CannotResolve \/ GiveUp \/ TimeUp
  BY <1>8, FinishingDescends DEF Overspent, CannotResolve, GiveUp, TimeUp
<1>9. CASE \E secs \in RetryAfters : PauseAsAsked(secs)
  BY <1>9, TryingDescends DEF PauseAsAsked
<1>10. CASE \E ticks \in 0 .. Ceiling : PauseAtRandom(ticks)
  BY <1>10, TryingDescends DEF PauseAtRandom
<1> QED
  BY <1>1, <1>2, <1>3, <1>4, <1>5, <1>6, <1>7, <1>8, <1>9, <1>10 DEF Next, RequestStep

\* However requests nest and however often they are refused, every step while
\* one is being made brings it nearer an answer or an error (do's attempts, the
\* references resolvePath and resolveBody follow): it takes a rank down an order
\* in which nothing goes down for ever, so no request is pursued without end.
THEOREM RequestsDescend ==
  /\ IsWellFoundedOn(Descent, Ranks)
  /\ Spec => [][Descends]_vars
<1>1. IInv /\ [Next]_vars => [Descends]_vars
  BY DescentStep DEF IInv
<1>2. Spec => [][Descends]_vars
  BY <1>1, Always, PTL DEF Spec
<1> QED
  BY <1>2, DescentEnds

\* Every set of numbers that has a member has a least one.
LEMMA LeastNumber ==
  ASSUME NEW T, T \subseteq Nat, T # {}
  PROVE  \E m \in T : \A k \in T : m <= k
<1>1. PICK m \in T : \A k \in T : ~(<<k, m>> \in OpToRel(<, Nat))
  BY NatLessThanWellFounded, WFMin
<1>2. ASSUME NEW k \in T PROVE m <= k
  <2>1. k \in Nat /\ m \in Nat
    OBVIOUS
  <2>2. k < m => <<k, m>> \in OpToRel(<, Nat)
    BY <2>1 DEF OpToRel
  <2>3. ~(<<k, m>> \in OpToRel(<, Nat))
    BY <1>1, Zenon
  <2>4. ~(k < m)
    BY <2>2, <2>3, Zenon
  <2> QED
    BY <2>1, <2>4
<1> QED
  BY <1>2

\* The tick at which a request asking now is granted a token.
Due(t) ==
  /\ TokensAt(t) >= Second
  /\ t = now \/ TokensAt(t - 1) < Second
TokenIsDue == \E t \in now .. now + Second : Due(t)

LEMMA TokenDue == ASSUME Clock, Bucket PROVE TokenIsDue
<1> DEFINE T == {t \in now .. now + Second : TokensAt(t) >= Second}
<1>1. /\ Second \in Nat \ {0} /\ now \in Nat /\ last \in Nat /\ last <= now
      /\ rps \in Nat /\ rps >= 1 /\ tokens \in Nat
  BY PacingAssumption DEF Clock, Bucket
<1>2. TokensAt(now + Second) >= Second
  <2> DEFINE earned == ((now + Second) - last) * rps
             full   == rps * Second
  <2>1. Second * 1 <= Second * rps
    BY <1>1, Monotone
  <2>2. rps * Second <= rps * ((now + Second) - last)
    BY <1>1, Monotone
  <2>3. Second * rps = full /\ rps * ((now + Second) - last) = earned /\ Second * 1 = Second
    BY <1>1
  <2>4. full \in Int /\ earned \in Int
    BY <1>1
  <2>5. TokensAt(now + Second) = Lesser(tokens + earned, full)
    BY DEF TokensAt
  <2>6. Second <= full /\ full <= earned
    BY <2>1, <2>2, <2>3
  <2> HIDE DEF earned, full
  <2> QED
    BY <1>1, <2>4, <2>5, <2>6 DEF Lesser
<1>3. T \subseteq Nat /\ now + Second \in T
  BY <1>1, <1>2
<1>4. PICK m \in T : \A k \in T : m <= k
  BY <1>3, LeastNumber
<1>5. m \in now .. now + Second /\ m \in Nat /\ TokensAt(m) >= Second
  BY <1>3
<1>6. m = now \/ TokensAt(m - 1) < Second
  <2> SUFFICES ASSUME m # now PROVE TokensAt(m - 1) < Second
    OBVIOUS
  <2>1. m - 1 \in now .. now + Second /\ ~(m <= m - 1)
    BY <1>1, <1>5
  <2>2. m - 1 \notin T
    BY <1>4, <2>1
  <2>3. TokensAt(m - 1) \in Int
    BY <1>1, <1>5 DEF TokensAt, Lesser
  <2>4. ~(TokensAt(m - 1) >= Second)
    BY <2>1, <2>2
  <2> QED
    BY <1>1, <2>3, <2>4
<1> QED
  BY <1>5, <1>6 DEF TokenIsDue, Due

\* Whatever the slowdowns have left of the rate, and whatever they took of the
\* tokens, a request that asks the bucket is granted one within a second
\* (bucket.wait, and slow never below one a second): the pacing holds nobody up.
THEOREM TokenWithinASecond == Spec => []TokenIsDue
<1>1. IInv => TokenIsDue
  BY TokenDue DEF IInv
<1> QED
  BY <1>1, Always, PTL

=============================================================================
