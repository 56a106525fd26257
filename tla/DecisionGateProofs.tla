------------------------- MODULE DecisionGateProofs -------------------------
(***************************************************************************)
(* What holds of the decision gate whatever the audits find, however many  *)
(* runs are dispatched and whenever a person answers.                      *)
(***************************************************************************)
EXTENDS DecisionGate, TLAPS

\* The groups of observations, and the work of a group, are what they seem.
LEMMA GroupFacts ==
  ASSUME NEW obs \in SUBSET Observations
  PROVE  /\ GroupsOf(obs) \subseteq Groups
         /\ \A g : Of(g, obs) \subseteq obs
BY DEF GroupsOf, Groups, Of

LEMMA WorkFacts ==
  ASSUME TypeOK, NEW r \in Runs, NEW g
  PROVE  Work(r, g) \in SUBSET Observations
<1>1. proposals[r] \in SUBSET Observations
  BY DEF TypeOK
<1> QED
  BY <1>1 DEF Work, Of

PRType == [open : BOOLEAN, ids : SUBSET Observations, run : 0..MaxRuns, born : 0..MaxRuns,
           label : BOOLEAN]

Records == [group : Groups, ids : SUBSET Observations, run : Runs, merged : BOOLEAN]

LEMMA InitType == Init => TypeOK
<1> SUFFICES ASSUME Init PROVE TypeOK
  OBVIOUS
<1>1. NoPR \in PRType
  BY GateAssumption DEF NoPR, PRType
<1>2. Idle \in [run : 0..MaxRuns, decided : SUBSET Observations]
  BY GateAssumption DEF Idle
<1>3. prs \in [Groups -> PRType]
  BY <1>1 DEF Init
<1>4. running \in [run : 0..MaxRuns, decided : SUBSET Observations]
  BY <1>2 DEF Init
<1>5. closed \subseteq Records
  BY DEF Init
<1>6. /\ accepted \subseteq Observations /\ rejected \subseteq Observations
      /\ count \in 0..MaxRuns /\ reused \subseteq Runs
      /\ found \in [Runs -> SUBSET Observations] /\ proposals \in [Runs -> SUBSET Observations]
  BY GateAssumption DEF Init
<1>7. /\ opening \in [Runs -> {"none", "due", "open", "failed", "done"}]
      /\ withdrawing \in [Runs -> {"none", "due", "done"}]
      /\ decided \in [Runs -> SUBSET Observations] /\ todo \in [Runs -> SUBSET Groups]
      /\ branch \in [Groups -> SUBSET Observations]
  BY DEF Init
<1>8. /\ pushed \in [Runs -> Groups \cup {NoGroup}] /\ existing \in [Runs -> 0..MaxRuns]
      /\ pending \in 0..MaxRuns /\ faults \in 0..MaxFaults
      /\ asked \subseteq Observations /\ answered \subseteq Observations
  BY GateAssumption DEF Init
<1>9. withdrawn \in BOOLEAN
  BY DEF Init
<1> QED
  BY <1>3, <1>4, <1>5, <1>6, <1>7, <1>8, <1>9 DEF TypeOK, PRType, Records

\* An open pull request names the run that wrote its body.
OpenNamed == \A g \in Groups : prs[g].open => prs[g].run # 0

\* Dispatching a run, by whomever.
LEMMA StartType ==
  ASSUME TypeOK, NEW obs \in SUBSET Observations, NEW by \in BOOLEAN, Start(obs, by)
  PROVE  /\ count' \in 0..MaxRuns /\ reused' \subseteq Runs
         /\ found' \in [Runs -> SUBSET Observations]
         /\ proposals' \in [Runs -> SUBSET Observations]
         /\ opening' \in [Runs -> {"none", "due", "open", "failed", "done"}]
         /\ withdrawing' \in [Runs -> {"none", "due", "done"}]
<1>1. count + 1 \in Runs /\ count' = count + 1
  BY GateAssumption DEF TypeOK, Start, Runs
<1>2. count' \in 0..MaxRuns /\ reused' \subseteq Runs
  BY <1>1, GateAssumption DEF TypeOK, Start, Runs
<1>3. found' \in [Runs -> SUBSET Observations] /\ proposals' \in [Runs -> SUBSET Observations]
  BY <1>1 DEF TypeOK, Start
<1>4. opening' \in [Runs -> {"none", "due", "open", "failed", "done"}]
  BY <1>1 DEF TypeOK, Start
<1>5. withdrawing' \in [Runs -> {"none", "due", "done"}]
  BY <1>1 DEF TypeOK, Start
<1> QED
  BY <1>2, <1>3, <1>4, <1>5

\* What showing a pull request asks.
LEMMA PublishAsks ==
  ASSUME TypeOK, NEW r \in Runs, Publish(r)
  PROVE  asked' \subseteq Observations
<1> DEFINE g == pushed[r]
<1>1. g \in Groups /\ Work(r, g) \in SUBSET Observations
  BY WorkFacts DEF Publish, TypeOK
<1>2. branch[g] \in SUBSET Observations /\ prs \in [Groups -> PRType]
  BY <1>1 DEF TypeOK, PRType
<1>3. prs'[g].ids \subseteq Observations
  <2>1. prs[g].ids \in SUBSET Observations /\ prs[g] \in PRType
    BY <1>1, <1>2 DEF PRType
  <2>2. prs'[g].ids \in {prs[g].ids, Work(r, g)}
    BY <1>1, <1>2, <2>1 DEF Publish, PRType
  <2> QED
    BY <1>1, <2>1, <2>2
<1>4. asked' \subseteq asked \cup Work(r, g) \cup branch[g] \cup prs'[g].ids
  BY DEF Publish
<1> QED
  BY <1>1, <1>2, <1>3, <1>4 DEF TypeOK

LEMMA TypeStep == TypeOK /\ OpenNamed /\ [Next]_vars => TypeOK'
<1> SUFFICES ASSUME TypeOK, OpenNamed, [Next]_vars PROVE TypeOK'
  OBVIOUS
<1> USE DEF base, run, job, queue, past
<1>1. CASE Dispatch
  <2>1. PICK obs \in Audits \cup {found[r] : r \in 1..count} : Start(obs, FALSE)
    BY <1>1 DEF Dispatch
  <2>2. obs \in SUBSET Observations
    BY GateAssumption DEF TypeOK, Runs
  <2> QED
    BY <1>1, <2>1, <2>2, StartType DEF TypeOK, Dispatch
<1>2. ASSUME NEW r \in Runs, OpenStart(r) PROVE TypeOK'
  <2>1. Decided \in SUBSET Observations
    BY DEF Decided, TypeOK
  <2>2. GroupsOf(proposals[r] \ Decided) \subseteq Groups
    <3>1. proposals[r] \ Decided \in SUBSET Observations
      BY DEF TypeOK
    <3> QED
      BY <3>1, GroupFacts
  <2> QED
    BY <1>2, <2>1, <2>2 DEF OpenStart, TypeOK
<1>3. ASSUME NEW r \in Runs, NEW g \in Groups, Push(r, g) PROVE TypeOK'
  <2>1. Work(r, g) \in SUBSET Observations
    BY WorkFacts
  <2>2. prs[g].born \in 0..MaxRuns
    BY DEF TypeOK
  <2>3. branch' \in [Groups -> SUBSET Observations]
    BY <1>3, <2>1 DEF Push, TypeOK
  <2>4. existing' \in [Runs -> 0..MaxRuns] /\ pushed' \in [Runs -> Groups \cup {NoGroup}]
    BY <1>3, <2>2, GateAssumption DEF Push, TypeOK
  <2>5. asked' \subseteq Observations
    BY <1>3, <2>1 DEF Push, TypeOK
  <2> QED
    BY <1>3, <2>3, <2>4, <2>5 DEF Push, TypeOK
<1>4. ASSUME NEW r \in Runs, Publish(r) PROVE TypeOK'
  <2> DEFINE g == pushed[r]
  <2>1. g \in Groups /\ Work(r, g) \in SUBSET Observations
    BY <1>4, WorkFacts DEF Publish, TypeOK
  <2>2. prs[g] \in PRType /\ r \in 0..MaxRuns
    BY <2>1, GateAssumption DEF TypeOK, PRType, Runs
  <2>3. prs' \in [Groups -> PRType]
    <3>1. [open |-> TRUE, ids |-> Work(r, g), run |-> r,
           born |-> r, label |-> FALSE] \in PRType
      BY <2>1, <2>2 DEF PRType
    <3>2. [prs[g] EXCEPT !.ids = Work(r, g), !.run = r] \in PRType
      BY <2>1, <2>2 DEF PRType
    <3>3. prs \in [Groups -> PRType]
      BY DEF TypeOK, PRType
    <3>4. CASE prs' = prs
      BY <3>3, <3>4
    <3>5. CASE prs' = [prs EXCEPT ![g] = [open |-> TRUE, ids |-> Work(r, g), run |-> r,
           born |-> r, label |-> FALSE]]
      BY <2>1, <3>1, <3>3, <3>5
    <3>6. CASE prs' = [prs EXCEPT ![g].ids = Work(r, g), ![g].run = r]
      BY <2>1, <3>2, <3>3, <3>6
    <3> QED
      BY <1>4, <3>4, <3>5, <3>6 DEF Publish
  <2>4. asked' \subseteq Observations
    BY <1>4, PublishAsks
  <2>5. /\ pushed' \in [Runs -> Groups \cup {NoGroup}] /\ existing' \in [Runs -> 0..MaxRuns]
        /\ todo' \in [Runs -> SUBSET Groups]
    <3>1. /\ pushed' = [pushed EXCEPT ![r] = NoGroup] /\ existing' = [existing EXCEPT ![r] = 0]
          /\ todo' \in {[todo EXCEPT ![r] = {}], [todo EXCEPT ![r] = @ \ {g}]}
      BY <1>4 DEF Publish, Ends
    <3>2. pushed' \in [Runs -> Groups \cup {NoGroup}] /\ existing' \in [Runs -> 0..MaxRuns]
      BY <3>1, GateAssumption DEF TypeOK
    <3>3. todo' \in [Runs -> SUBSET Groups]
      BY <3>1 DEF TypeOK
    <3> QED
      BY <3>2, <3>3
  <2>6. /\ decided' \in [Runs -> SUBSET Observations]
        /\ opening' \in [Runs -> {"none", "due", "open", "failed", "done"}]
    BY <1>4 DEF Publish, Ends, TypeOK
  <2> QED
    BY <1>4, <2>3, <2>4, <2>5, <2>6 DEF Publish, TypeOK, PRType
<1>5. ASSUME NEW r \in Runs, OpenDone(r) PROVE TypeOK'
  BY <1>5 DEF OpenDone, Ends, TypeOK
<1>6. ASSUME NEW r \in Runs, OpenFails(r) PROVE TypeOK'
  BY <1>6, GateAssumption DEF OpenFails, Ends, TypeOK
<1>7. ASSUME NEW r \in Runs, WithdrawDone(r) PROVE TypeOK'
  BY <1>7 DEF WithdrawDone, TypeOK
<1>8. ASSUME NEW r \in Runs, NEW g \in Groups, Label(r, g) PROVE TypeOK'
  <2>1. prs' \in [Groups -> PRType]
    BY <1>8 DEF Label, TypeOK, PRType
  <2> QED
    BY <1>8, <2>1 DEF Label, TypeOK, PRType
<1>9. ASSUME NEW r \in Runs, NEW g \in Groups, Withdraw(r, g) PROVE TypeOK'
  <2>1. prs' \in [Groups -> PRType]
    BY <1>9, GateAssumption DEF Withdraw, NoPR, TypeOK, PRType
  <2>2. closed' = closed /\ withdrawn' \in BOOLEAN
    BY <1>9 DEF Withdraw, Answer, TypeOK
  <2>3. branch' \in [Groups -> SUBSET Observations]
    <3>1. branch \in [Groups -> SUBSET Observations] /\ {} \in SUBSET Observations
      BY DEF TypeOK
    <3> QED
      BY <1>9, <3>1 DEF Withdraw
  <2> QED
    BY <1>9, <2>1, <2>2, <2>3 DEF Withdraw, TypeOK, PRType
<1>10. ASSUME NEW g \in Groups, NEW merged \in BOOLEAN, prs[g].open
       PROVE  Answer(g, merged) \subseteq Records
  <2>1. prs[g] \in PRType
    BY DEF TypeOK, PRType
  <2>2. prs[g].run \in Runs /\ prs[g].ids \in SUBSET Observations
    BY <1>10, <2>1, GateAssumption DEF PRType, Runs, OpenNamed
  <2>3. closed \subseteq Records
    BY DEF TypeOK, Records
  <2> QED
    BY <2>2, <2>3 DEF Answer, AnswerUnlabelled, Records
<1>11. ASSUME NEW g \in Groups PROVE [prs EXCEPT ![g] = NoPR] \in [Groups -> PRType]
  BY GateAssumption DEF NoPR, TypeOK, PRType
<1>12. ASSUME NEW g \in Groups, prs[g].open
       PROVE  branch[g] \subseteq Observations /\ prs[g].ids \subseteq Observations
  BY DEF TypeOK
<1>13. ASSUME NEW g \in Groups, Merge(g) PROVE TypeOK'
  <2>1. closed' \subseteq Records /\ prs' \in [Groups -> PRType] /\ accepted' \subseteq Observations
    BY <1>13, <1>10, <1>11, <1>12 DEF Merge, TypeOK
  <2> QED
    BY <1>13, <2>1 DEF Merge, TypeOK, PRType, Records
<1>14. ASSUME NEW g \in Groups, Close(g) PROVE TypeOK'
  <2>1. closed' \subseteq Records /\ prs' \in [Groups -> PRType] /\ answered' \subseteq Observations
    BY <1>14, <1>10, <1>11, <1>12 DEF Close, TypeOK
  <2> QED
    BY <1>14, <2>1 DEF Close, TypeOK, PRType, Records
<1>15. ASSUME NEW e \in closed, Record(e) PROVE TypeOK'
  <2>1. e \in Records
    BY DEF TypeOK, Records
  <2>2. e.run \in 0..MaxRuns /\ e.ids \subseteq Observations
    BY <2>1, GateAssumption DEF Records, Runs
  <2> QED
    BY <1>15, <2>2 DEF Record, TypeOK
<1>16. CASE ContinueStart
  <2>1. Decided \in SUBSET Observations
    BY DEF Decided, TypeOK
  <2> QED
    BY <1>16, <2>1, GateAssumption DEF ContinueStart, TypeOK
<1>17. CASE Continue
  <2>1. running' \in [run : 0..MaxRuns, decided : SUBSET Observations]
    BY <1>17, GateAssumption DEF Continue, Idle
  <2>2. CASE MayContinue
    <3>1. Start(found[running.run], TRUE) /\ found[running.run] \in SUBSET Observations
      <4>1. running.run \in Runs
        BY <1>17, GateAssumption DEF Continue, TypeOK, Runs
      <4> QED
        BY <1>17, <2>2, <4>1 DEF Continue, TypeOK
    <3> QED
      BY <1>17, <2>1, <3>1, StartType DEF Continue, TypeOK
  <2>3. CASE ~MayContinue
    BY <1>17, <2>1, <2>3 DEF Continue, TypeOK
  <2> QED
    BY <2>2, <2>3
<1>18. CASE UNCHANGED vars
  BY <1>18 DEF vars, TypeOK
<1> QED
  BY <1>1, <1>2, <1>3, <1>4, <1>5, <1>6, <1>7, <1>8, <1>9, <1>13, <1>14, <1>15, <1>16,
     <1>17, <1>18 DEF Next

LEMMA NamedStep == TypeOK /\ OpenNamed /\ [Next]_vars => OpenNamed'
<1> SUFFICES ASSUME TypeOK, OpenNamed, [Next]_vars PROVE OpenNamed'
  OBVIOUS
<1> USE DEF base, run, job, queue, past
<1>1. CASE UNCHANGED prs
  BY <1>1 DEF OpenNamed
<1>2. ASSUME NEW r \in Runs, NEW g \in Groups, Push(r, g) PROVE OpenNamed'
  BY <1>2 DEF Push, OpenNamed, TypeOK
<1>3. ASSUME NEW r \in Runs, Publish(r) PROVE OpenNamed'
  <2>1. r # 0
    BY GateAssumption DEF Runs
  <2>2. pushed[r] \in Groups /\ prs \in [Groups -> PRType]
    BY <1>3 DEF Publish, TypeOK, PRType
  <2>3. ASSUME NEW g \in Groups, prs'[g].open PROVE prs'[g].run # 0
    <3>1. prs[g] \in PRType
      BY <2>2
    <3>2. CASE prs'[g] = prs[g]
      BY <2>3, <3>2 DEF OpenNamed
    <3>3. CASE prs'[g] = [prs[g] EXCEPT !.ids = Work(r, g), !.run = r]
      BY <2>1, <3>1, <3>3 DEF PRType
    <3>4. CASE prs'[g] = [open |-> TRUE, ids |-> Work(r, g), run |-> r,
           born |-> r, label |-> FALSE]
      BY <2>1, <3>4
    <3> QED
      BY <1>3, <2>2, <3>2, <3>3, <3>4 DEF Publish
  <2> QED
    BY <2>3 DEF OpenNamed
<1>4. ASSUME NEW r \in Runs, NEW g \in Groups, Label(r, g) PROVE OpenNamed'
  BY <1>4 DEF Label, OpenNamed, TypeOK
<1>5. ASSUME NEW g \in Groups, prs' = [prs EXCEPT ![g] = NoPR] PROVE OpenNamed'
  BY <1>5 DEF NoPR, OpenNamed, TypeOK
<1>6. ASSUME NEW r \in Runs, NEW g \in Groups, Withdraw(r, g) PROVE OpenNamed'
  BY <1>5, <1>6 DEF Withdraw
<1>7. ASSUME NEW g \in Groups, Merge(g) \/ Close(g) PROVE OpenNamed'
  BY <1>5, <1>7 DEF Merge, Close
<1> QED
  BY <1>1, <1>2, <1>3, <1>4, <1>6, <1>7
  DEF Next, vars, Dispatch, OpenStart, OpenDone, OpenFails, WithdrawDone, Record,
      ContinueStart, Continue, Start

\* TypeOK: every variable of the gate has its type in every reachable state.
THEOREM GateTypeCorrect == Spec => []TypeOK
<1>1. Init => OpenNamed
  BY DEF Init, NoPR, OpenNamed
<1>2. TypeOK /\ OpenNamed /\ [Next]_vars => (TypeOK /\ OpenNamed)'
  BY TypeStep, NamedStep
<1> QED
  BY InitType, <1>1, <1>2, PTL DEF Spec

-----------------------------------------------------------------------------
(***************************************************************************)
(* A run the continuation starts.  Decisions are never taken back, so what *)
(* the run it continues found and did not propose stays decided, and what  *)
(* the continuation took for decided is.                                   *)
(***************************************************************************)
Settled ==
  /\ \A r \in 1..count : found[r] \subseteq proposals[r] \cup Decided
  /\ running.decided \subseteq Decided
  /\ running.run \in 0..count /\ pending \in 0..count
  /\ \A g \in Groups : prs[g].run \in 0..count
  /\ \A e \in closed : e.run \in 0..count
  /\ \A r \in Runs : opening[r] # "none" => r \in 1..count

\* What a run finds is either proposed by it or decided already.
LEMMA StartSettles ==
  ASSUME TypeOK, Settled, NEW obs \in SUBSET Observations, NEW by \in BOOLEAN,
         Start(obs, by), Decided \subseteq Decided'
  PROVE  \A r \in 1..count' : found'[r] \subseteq proposals'[r] \cup Decided'
<1> SUFFICES ASSUME NEW r \in 1..count'
             PROVE  found'[r] \subseteq proposals'[r] \cup Decided'
  OBVIOUS
<1>1. count + 1 \in Runs /\ count' = count + 1 /\ count \in Nat /\ r \in Runs
  BY GateAssumption DEF TypeOK, Start, Runs
<1>2. CASE r = count'
  BY <1>1, <1>2 DEF Start, TypeOK
<1>3. CASE r # count'
  <2>1. r \in 1..count /\ r # count + 1
    BY <1>1, <1>3
  <2>2. found'[r] = found[r] /\ proposals'[r] = proposals[r]
    BY <1>1, <2>1 DEF Start, TypeOK
  <2> QED
    BY <2>1, <2>2 DEF Settled
<1> QED
  BY <1>2, <1>3

\* Decisions are never taken back.
LEMMA DecidedGrows ==
  ASSUME [Next]_vars
  PROVE  Decided \subseteq Decided'
BY DEF Next, vars, base, Decided, Dispatch, OpenStart, Publish, OpenDone, OpenFails,
       WithdrawDone, Push, Label, Withdraw, Merge, Close, Record, ContinueStart, Continue

\* Dispatching leaves the rest in place.
LEMMA StartKeeps ==
  ASSUME TypeOK, Settled, NEW obs \in SUBSET Observations, NEW by \in BOOLEAN,
         Start(obs, by), UNCHANGED <<prs, closed, pending>>
  PROVE  /\ pending' \in 0..count'
         /\ \A g \in Groups : prs'[g].run \in 0..count'
         /\ \A e \in closed' : e.run \in 0..count'
         /\ \A r \in Runs : opening'[r] # "none" => r \in 1..count'
<1>1. count \in Nat /\ count' = count + 1 /\ count + 1 \in Runs
  BY GateAssumption DEF TypeOK, Start, Runs
<1>2. \A n : n \in 0..count => n \in 0..count'
  BY <1>1
<1>3. ASSUME NEW r \in Runs, opening'[r] # "none" PROVE r \in 1..count'
  <2>1. CASE r = count + 1
    BY <1>1, <2>1
  <2>2. CASE r # count + 1
    <3>1. opening'[r] = opening[r]
      BY <2>2 DEF Start, TypeOK
    <3> QED
      BY <1>1, <1>3, <3>1 DEF Settled
  <2> QED
    BY <2>1, <2>2
<1> QED
  BY <1>2, <1>3 DEF Settled

LEMMA SettledStep == TypeOK /\ Settled /\ [Next]_vars => Settled'
<1> SUFFICES ASSUME TypeOK, Settled, [Next]_vars PROVE Settled'
  OBVIOUS
<1> USE DEF base, run, job, queue, past
<1>1. Decided \subseteq Decided'
  BY DecidedGrows
<1>2. CASE Dispatch
  <2>1. PICK obs \in Audits \cup {found[r] : r \in 1..count} : Start(obs, FALSE)
    BY <1>2 DEF Dispatch
  <2>2. obs \in SUBSET Observations
    BY GateAssumption DEF TypeOK, Runs
  <2>3. \A r \in 1..count' : found'[r] \subseteq proposals'[r] \cup Decided'
    BY <1>1, <2>1, <2>2, StartSettles
  <2>4. /\ pending' \in 0..count' /\ \A g \in Groups : prs'[g].run \in 0..count'
        /\ \A e \in closed' : e.run \in 0..count'
        /\ \A r \in Runs : opening'[r] # "none" => r \in 1..count'
    BY <1>2, <2>1, <2>2, StartKeeps DEF Dispatch
  <2>5. running' = running /\ running.run \in 0..count'
    BY <1>2, <2>1 DEF Dispatch, Start, Settled, TypeOK
  <2>6. running'.decided \subseteq Decided'
    BY <1>1, <2>5 DEF Settled
  <2> QED
    BY <2>3, <2>4, <2>5, <2>6 DEF Settled
<1>3. CASE UNCHANGED <<run, pending, running, prs, closed, opening>>
  BY <1>1, <1>3 DEF Settled
<1>4. ASSUME NEW r \in Runs, OpenStart(r) \/ OpenDone(r) \/ OpenFails(r) PROVE Settled'
  <2>1. opening[r] # "none"
    BY <1>4 DEF OpenStart, OpenDone, OpenFails
  <2>2. \A s \in Runs : s # r => opening'[s] = opening[s]
    BY <1>4 DEF OpenStart, OpenDone, OpenFails, Ends, TypeOK
  <2>3. UNCHANGED <<count, found, proposals, pending, running, prs, closed>>
    BY <1>4 DEF OpenStart, OpenDone, OpenFails
  <2> QED
    BY <1>1, <2>1, <2>2, <2>3 DEF Settled
<1>5. ASSUME NEW r \in Runs, Publish(r) PROVE Settled'
  <2>1. opening[r] # "none" /\ r \in 0..count
    BY <1>5 DEF Publish, Settled
  <2>2. \A s \in Runs : s # r => opening'[s] = opening[s]
    BY <1>5 DEF Publish, Ends, TypeOK
  <2>3. UNCHANGED <<count, found, proposals, pending, running, closed>>
    BY <1>5 DEF Publish
  <2>4. pushed[r] \in Groups /\ prs \in [Groups -> PRType]
    BY <1>5 DEF Publish, TypeOK, PRType
  <2>5. ASSUME NEW g \in Groups PROVE prs'[g].run \in 0..count
    <3>1. prs[g] \in PRType
      BY <2>4
    <3>2. CASE prs'[g] = prs[g]
      BY <3>2 DEF Settled
    <3>3. CASE prs'[g] = [prs[g] EXCEPT !.ids = Work(r, g), !.run = r]
      BY <2>1, <3>1, <3>3 DEF PRType
    <3>4. CASE prs'[g] = [open |-> TRUE, ids |-> Work(r, g), run |-> r,
           born |-> r, label |-> FALSE]
      BY <2>1, <3>4
    <3> QED
      BY <1>5, <2>4, <3>2, <3>3, <3>4 DEF Publish
  <2> QED
    BY <1>1, <2>1, <2>2, <2>3, <2>5 DEF Settled
<1>6. ASSUME NEW r \in Runs, NEW g \in Groups, Push(r, g) \/ Label(r, g) PROVE Settled'
  <2>1. \A h \in Groups : prs'[h].run = prs[h].run
    <3>1. CASE Push(r, g)
      BY <3>1 DEF Push
    <3>2. CASE Label(r, g)
      BY <3>2 DEF Label, TypeOK
    <3> QED
      BY <1>6, <3>1, <3>2
  <2>2. UNCHANGED <<count, found, proposals, pending, running, closed, opening>>
    BY <1>6 DEF Push, Label
  <2> QED
    BY <1>1, <2>1, <2>2 DEF Settled
<1>7. ASSUME NEW g \in Groups, NEW merged \in BOOLEAN,
             prs' = [prs EXCEPT ![g] = NoPR], closed' = Answer(g, merged),
             UNCHANGED <<run, pending, running, opening>>
      PROVE  Settled'
  <2>1. \A h \in Groups : prs'[h].run \in 0..count
    BY <1>7 DEF NoPR, Settled, TypeOK
  <2>2. \A e \in closed' : e.run \in 0..count
    BY <1>7 DEF Answer, AnswerUnlabelled, Settled
  <2> QED
    BY <1>1, <1>7, <2>1, <2>2 DEF Settled
<1>8. ASSUME NEW r \in Runs, NEW g \in Groups, Withdraw(r, g) PROVE Settled'
  BY <1>7, <1>8 DEF Withdraw
<1>9. ASSUME NEW g \in Groups, Merge(g) PROVE Settled'
  BY <1>7, <1>9 DEF Merge
<1>10. ASSUME NEW g \in Groups, Close(g) PROVE Settled'
  BY <1>7, <1>10 DEF Close
<1>11. ASSUME NEW e \in closed, Record(e) PROVE Settled'
  BY <1>1, <1>11 DEF Record, Settled
<1>12. CASE ContinueStart
  BY <1>1, <1>12 DEF ContinueStart, Settled, TypeOK
<1>13. CASE Continue
  <2>1. running'.decided = {} /\ running'.run = 0
    BY <1>13 DEF Continue, Idle
  <2>2. UNCHANGED <<prs, closed, pending>>
    BY <1>13 DEF Continue
  <2>3. CASE MayContinue
    <3>1. Start(found[running.run], TRUE) /\ found[running.run] \in SUBSET Observations
      <4>1. running.run \in Runs
        BY <1>13, GateAssumption DEF Continue, TypeOK, Runs
      <4> QED
        BY <1>13, <2>3, <4>1 DEF Continue, TypeOK
    <3>2. \A r \in 1..count' : found'[r] \subseteq proposals'[r] \cup Decided'
      BY <1>1, <3>1, StartSettles
    <3>3. /\ pending' \in 0..count' /\ \A g \in Groups : prs'[g].run \in 0..count'
          /\ \A e \in closed' : e.run \in 0..count'
          /\ \A r \in Runs : opening'[r] # "none" => r \in 1..count'
      BY <2>2, <3>1, StartKeeps
    <3>4. 0 \in 0..count'
      BY <3>1 DEF Start, TypeOK
    <3> QED
      BY <2>1, <3>2, <3>3, <3>4 DEF Settled
  <2>4. CASE ~MayContinue
    <3>1. 0 \in 0..count
      BY DEF TypeOK
    <3>2. UNCHANGED <<count, found, proposals, opening>>
      BY <1>13, <2>4 DEF Continue
    <3> QED
      BY <1>1, <2>1, <2>2, <3>1, <3>2 DEF Settled
  <2> QED
    BY <2>3, <2>4
<1>14. ASSUME NEW r \in Runs, WithdrawDone(r) PROVE Settled'
  BY <1>3, <1>14 DEF WithdrawDone
<1>15. CASE UNCHANGED vars
  BY <1>3, <1>15 DEF vars
<1> QED
  BY <1>2, <1>4, <1>5, <1>6, <1>8, <1>9, <1>10, <1>11, <1>12, <1>13, <1>14, <1>15 DEF Next

\* A step that starts no run from the continuation keeps what passed.
LEMMA PassesStep ==
  TypeOK /\ Settled /\ ContinuationPasses /\ [Next]_vars => ContinuationPasses'
<1> SUFFICES ASSUME TypeOK, Settled, ContinuationPasses, [Next]_vars PROVE ContinuationPasses'
  OBVIOUS
<1> USE DEF base, run, job, queue, past
<1>1. CASE UNCHANGED run
  BY <1>1 DEF ContinuationPasses, Passed
<1>2. ASSUME NEW obs \in SUBSET Observations, NEW by \in BOOLEAN, Start(obs, by),
             by => obs \subseteq Decided
      PROVE  ContinuationPasses'
  <2>1. count \in Nat /\ count' = count + 1 /\ count + 1 \in Runs
    BY <1>2, GateAssumption DEF TypeOK, Start, Runs
  <2>2. ASSUME NEW r \in reused' PROVE r <= count' /\ proposals'[r] = {}
    <3>1. CASE r = count + 1 /\ by
      BY <1>2, <2>1, <3>1 DEF Start, TypeOK
    <3>2. CASE r \in reused
      <4>1. r \in Runs /\ r <= count /\ proposals[r] = {}
        BY <3>2 DEF TypeOK, ContinuationPasses, Passed
      <4>2. proposals'[r] = proposals[r] /\ r <= count'
        BY <1>2, <2>1, <4>1 DEF Start, TypeOK, Runs
      <4> QED
        BY <4>1, <4>2
    <3> QED
      BY <1>2, <2>1, <2>2, <3>1, <3>2 DEF Start
  <2> QED
    BY <2>2 DEF ContinuationPasses, Passed
<1>3. CASE Dispatch
  <2>1. PICK obs \in Audits \cup {found[r] : r \in 1..count} : Start(obs, FALSE)
    BY <1>3 DEF Dispatch
  <2>2. obs \in SUBSET Observations
    BY GateAssumption DEF TypeOK, Runs
  <2> QED
    BY <1>2, <2>1, <2>2
<1>4. CASE Continue /\ MayContinue
  <2>1. running.run \in 1..count /\ running.run \in Runs
    BY <1>4, GateAssumption DEF Continue, Settled, TypeOK, Runs
  <2>2. found[running.run] \subseteq Decided
    BY <1>4, <2>1 DEF MayContinue, Settled
  <2>3. Start(found[running.run], TRUE) /\ found[running.run] \in SUBSET Observations
    BY <1>4, <2>1 DEF Continue, TypeOK
  <2> QED
    BY <1>2, <2>2, <2>3
<1> QED
  BY <1>1, <1>3, <1>4
  DEF Next, vars, OpenStart, Push, Publish, OpenDone, OpenFails, Label, Withdraw, WithdrawDone,
      Merge, Close, Record, ContinueStart, Continue

\* ContinuationPasses: whatever is found, however the answers, the recordings
\* and other runs interleave with it, a run that the continuation starts is
\* not stopped by the gate.
THEOREM ContinuationsPass == Spec => []ContinuationPasses
<1>1. Init => Settled /\ ContinuationPasses
  <2> SUFFICES ASSUME Init PROVE Settled /\ ContinuationPasses
    OBVIOUS
  <2>1. 1..count = {} /\ reused = {} /\ closed = {} /\ 0 \in 0..count
    BY DEF Init
  <2>2. \A g \in Groups : prs[g].run = 0
    BY DEF Init, NoPR
  <2>3. running.run = 0 /\ running.decided = {} /\ pending = 0
    BY DEF Init, Idle
  <2>4. \A r \in Runs : opening[r] = "none"
    BY DEF Init
  <2> QED
    BY <2>1, <2>2, <2>3, <2>4 DEF Settled, ContinuationPasses
<1>2. Settled /\ ContinuationPasses /\ TypeOK /\ [Next]_vars => (Settled /\ ContinuationPasses)'
  BY SettledStep, PassesStep
<1> QED
  BY <1>1, <1>2, GateTypeCorrect, PTL DEF Spec

-----------------------------------------------------------------------------
(***************************************************************************)
(* Who decides.  What an open pull request holds has been put to a person, *)
(* and what waits to be recorded as rejected has been refused by one.      *)
(***************************************************************************)
Asked ==
  /\ \A g \in Groups : prs[g].open => branch[g] \subseteq asked /\ prs[g].ids \subseteq asked
  /\ \A e \in closed : e.merged \/ e.ids \subseteq answered

LEMMA AskedStep == TypeOK /\ Asked /\ [Next]_vars => Asked'
<1> SUFFICES ASSUME TypeOK, Asked, [Next]_vars PROVE Asked'
  OBVIOUS
<1> USE DEF base, run, job, queue, past
<1>1. CASE UNCHANGED <<branch, prs, closed, asked, answered>>
  BY <1>1 DEF Asked
<1>2. ASSUME NEW r \in Runs, NEW g \in Groups, Push(r, g) PROVE Asked'
  <2>1. UNCHANGED <<prs, closed, answered>> /\ asked \subseteq asked'
    BY <1>2 DEF Push
  <2>2. ASSUME NEW h \in Groups, prs[h].open PROVE branch'[h] \subseteq asked'
    <3>1. CASE h = g
      BY <1>2, <2>2, <3>1 DEF Push, TypeOK
    <3>2. CASE h # g
      BY <1>2, <2>1, <2>2, <3>2 DEF Push, TypeOK, Asked
    <3> QED
      BY <3>1, <3>2
  <2> QED
    BY <2>1, <2>2 DEF Asked
<1>3. ASSUME NEW r \in Runs, Publish(r) PROVE Asked'
  <2> DEFINE g == pushed[r]
  <2>1. g \in Groups /\ prs \in [Groups -> PRType]
    BY <1>3 DEF Publish, TypeOK, PRType
  <2>2. UNCHANGED <<branch, closed, answered>> /\ asked \subseteq asked'
    BY <1>3 DEF Publish
  <2>3. \A h \in Groups : h # g => prs'[h] = prs[h]
    BY <1>3, <2>1 DEF Publish
  <2>4. prs'[g].open => branch[g] \subseteq asked' /\ prs'[g].ids \subseteq asked'
    <3>1. CASE UNCHANGED prs /\ UNCHANGED asked
      BY <2>1, <3>1 DEF Asked
    <3>2. CASE /\ prs' = [prs EXCEPT ![g] = [open |-> TRUE, ids |-> Work(r, g), run |-> r,
                                             born |-> r, label |-> FALSE]]
               /\ asked' = asked \cup Work(r, g) \cup branch[g]
      BY <2>1, <3>2
    <3>3. CASE /\ prs' = IF prs[g].open /\ prs[g].born = existing[r]
                        THEN [prs EXCEPT ![g].ids = Work(r, g), ![g].run = r] ELSE prs
               /\ asked' = asked \cup prs'[g].ids
      <4>1. CASE prs' = prs
        BY <2>1, <3>3, <4>1 DEF Asked
      <4>2. CASE prs[g].open
        BY <2>1, <3>3, <4>2 DEF Asked
      <4> QED
        BY <3>3, <4>1, <4>2
    <3> QED
      BY <1>3, <3>1, <3>2, <3>3 DEF Publish
  <2> QED
    BY <2>2, <2>3, <2>4 DEF Asked
<1>4. ASSUME NEW r \in Runs, NEW g \in Groups, Label(r, g) PROVE Asked'
  <2>1. \A h \in Groups : prs'[h].open = prs[h].open /\ prs'[h].ids = prs[h].ids
    BY <1>4 DEF Label, TypeOK
  <2> QED
    BY <1>4, <2>1 DEF Label, Asked
<1>5. ASSUME NEW g \in Groups, prs' = [prs EXCEPT ![g] = NoPR], UNCHANGED asked,
             \A h \in Groups : h # g => branch'[h] = branch[h]
      PROVE  \A h \in Groups : prs'[h].open =>
                branch'[h] \subseteq asked' /\ prs'[h].ids \subseteq asked'
  BY <1>5 DEF NoPR, Asked, TypeOK
<1>6. ASSUME NEW r \in Runs, NEW g \in Groups, Withdraw(r, g) PROVE Asked'
  <2>1. closed' = closed /\ UNCHANGED <<asked, answered>>
    BY <1>6 DEF Withdraw, Answer
  <2>2. \A h \in Groups : h # g => branch'[h] = branch[h]
    BY <1>6 DEF Withdraw, TypeOK
  <2>3. prs' = [prs EXCEPT ![g] = NoPR]
    BY <1>6 DEF Withdraw
  <2> QED
    BY <1>5, <2>1, <2>2, <2>3 DEF Asked
<1>7. ASSUME NEW g \in Groups, Merge(g) PROVE Asked'
  <2>1. \A e \in closed' : e.merged \/ e.ids \subseteq answered'
    BY <1>7 DEF Merge, Answer, AnswerUnlabelled, Asked
  <2>2. prs' = [prs EXCEPT ![g] = NoPR] /\ UNCHANGED <<asked, branch>>
    BY <1>7 DEF Merge
  <2> QED
    BY <1>5, <2>1, <2>2 DEF Asked
<1>8. ASSUME NEW g \in Groups, Close(g) PROVE Asked'
  <2>1. \A e \in closed' : e.merged \/ e.ids \subseteq answered'
    BY <1>8 DEF Close, Answer, AnswerUnlabelled, Asked
  <2>2. prs' = [prs EXCEPT ![g] = NoPR] /\ UNCHANGED <<asked, branch>>
    BY <1>8 DEF Close
  <2> QED
    BY <1>5, <2>1, <2>2 DEF Asked
<1>9. ASSUME NEW e \in closed, Record(e) PROVE Asked'
  BY <1>9 DEF Record, Asked
<1> QED
  BY <1>1, <1>2, <1>3, <1>4, <1>6, <1>7, <1>8, <1>9
  DEF Next, vars, Dispatch, OpenStart, OpenDone, OpenFails, WithdrawDone, ContinueStart, Continue

\* Each step is one of what the gate promises, or none of it.
LEMMA PromiseStep == TypeOK /\ Asked /\ [Next]_vars => [Promise!Next]_(Promise!vars)
<1> SUFFICES ASSUME TypeOK, Asked, [Next]_vars PROVE [Promise!Next]_(Promise!vars)
  OBVIOUS
<1> USE DEF base, run, job, queue, past, Promise!vars, Promise!Next
<1>1. CASE UNCHANGED <<accepted, rejected, asked, answered>>
  BY <1>1
<1>2. ASSUME UNCHANGED <<accepted, rejected, answered>>,
             asked \subseteq asked', asked' \subseteq Observations
      PROVE  Promise!Ask
  <2>1. asked' = asked \cup asked' /\ asked' \in SUBSET Observations
    BY <1>2
  <2> QED
    BY <1>2, <2>1 DEF Promise!Ask
<1>3. asked' \subseteq Observations
  <2>1. CASE asked' = asked
    BY <2>1 DEF TypeOK
  <2>2. ASSUME NEW r \in Runs, NEW g \in Groups, Push(r, g) PROVE asked' \subseteq Observations
    BY <2>2, WorkFacts DEF Push, TypeOK
  <2>3. ASSUME NEW r \in Runs, Publish(r) PROVE asked' \subseteq Observations
    BY <2>3, PublishAsks
  <2> QED
    BY <2>1, <2>2, <2>3
    DEF Next, vars, Dispatch, OpenStart, OpenDone, OpenFails, WithdrawDone, Label, Withdraw,
        Merge, Close, Record, ContinueStart, Continue
<1>4. ASSUME NEW r \in Runs, NEW g \in Groups, Push(r, g) PROVE Promise!Ask
  BY <1>2, <1>3, <1>4 DEF Push
<1>5. ASSUME NEW r \in Runs, Publish(r) PROVE Promise!Ask
  BY <1>2, <1>3, <1>5 DEF Publish
<1>6. ASSUME NEW g \in Groups, Merge(g) PROVE Promise!Merge
  <2>1. branch[g] \in SUBSET asked /\ accepted' = accepted \cup branch[g]
    BY <1>6 DEF Merge, Asked
  <2> QED
    BY <1>6, <2>1 DEF Merge, Promise!Merge
<1>7. ASSUME NEW g \in Groups, Close(g) PROVE Promise!Next \/ UNCHANGED Promise!vars
  <2>1. CASE prs[g].label
    BY <1>1, <1>7, <2>1 DEF Close
  <2>2. CASE ~prs[g].label
    <3>1. prs[g].ids \in SUBSET asked /\ answered' = answered \cup prs[g].ids
      BY <1>7, <2>2 DEF Close, Asked
    <3>2. Promise!Close
      BY <1>7, <3>1 DEF Close, Promise!Close
    <3> QED
      BY <3>2
  <2> QED
    BY <2>1, <2>2
<1>8. ASSUME NEW e \in closed, Record(e) PROVE Promise!Next \/ UNCHANGED Promise!vars
  <2>1. CASE e.merged
    BY <1>1, <1>8, <2>1 DEF Record
  <2>2. CASE ~e.merged
    <3>1. e.ids \in SUBSET answered /\ rejected' = rejected \cup e.ids
      BY <1>8, <2>2 DEF Record, Asked
    <3>2. Promise!Record
      BY <1>8, <3>1 DEF Record, Promise!Record
    <3> QED
      BY <3>2
  <2> QED
    BY <2>1, <2>2
<1> QED
  BY <1>1, <1>4, <1>5, <1>6, <1>7, <1>8
  DEF Next, vars, Dispatch, OpenStart, OpenDone, OpenFails, WithdrawDone, Label, Withdraw,
      ContinueStart, Continue

\* OnlyPeopleDecide: for any audits, any number of runs at once and answers at
\* any moment, nothing is accepted or rejected but by a person's answer to
\* what was put to one.  What is withdrawn records nothing.
THEOREM PeopleDecide == Spec => OnlyPeopleDecide
<1>1. Init => Promise!Init
  BY DEF Init, Promise!Init
<1>2. Init => Asked
  <2> SUFFICES ASSUME Init PROVE Asked
    OBVIOUS
  <2>1. closed = {} /\ \A g \in Groups : ~prs[g].open
    BY DEF Init, NoPR
  <2> QED
    BY <2>1 DEF Asked
<1>3. Asked /\ TypeOK /\ [Next]_vars => Asked'
  BY AskedStep
<1> QED
  BY <1>1, <1>2, <1>3, PromiseStep, GateTypeCorrect, PTL DEF Spec, OnlyPeopleDecide, Promise!Spec

-----------------------------------------------------------------------------
(***************************************************************************)
(* A person's no.  What closing a pull request leaves to the recording is  *)
(* of the body as it was then, and only a recording of its own takes it.   *)
(***************************************************************************)
LEMMA KeptStep == TypeOK /\ RefusalKept /\ [Next]_vars => RefusalKept'
<1> SUFFICES ASSUME TypeOK, RefusalKept, [Next]_vars PROVE RefusalKept'
  OBVIOUS
<1> USE DEF base, run, job, queue, past
<1>1. ASSUME answered' = answered, rejected \subseteq rejected', closed \subseteq closed'
      PROVE  RefusalKept'
  BY <1>1 DEF RefusalKept
<1>2. ASSUME NEW g, NEW merged PROVE closed \subseteq Answer(g, merged)
  BY DEF Answer, AnswerUnlabelled
<1>3. ASSUME NEW r \in Runs, NEW g \in Groups, Withdraw(r, g) PROVE RefusalKept'
  BY <1>1, <1>2, <1>3 DEF Withdraw
<1>4. ASSUME NEW g \in Groups, Merge(g) PROVE RefusalKept'
  BY <1>1, <1>2, <1>4 DEF Merge
<1>5. ASSUME NEW g \in Groups, Close(g) PROVE RefusalKept'
  <2>1. closed \subseteq closed' /\ rejected' = rejected
    BY <1>2, <1>5 DEF Close
  <2>2. CASE prs[g].label
    BY <1>1, <1>5, <2>1, <2>2 DEF Close
  <2>3. CASE ~prs[g].label
    <3>1. answered' = answered \cup prs[g].ids
      BY <1>5, <2>3 DEF Close
    <3>2. \E e \in closed' : ~e.merged /\ e.ids = prs[g].ids
      <4> DEFINE mine == [group |-> g, ids |-> prs[g].ids, run |-> prs[g].run, merged |-> FALSE]
      <4>1. mine \in closed'
        BY <1>5, <2>3 DEF Close, Answer, AnswerUnlabelled
      <4>2. ~mine.merged /\ mine.ids = prs[g].ids
        OBVIOUS
      <4> QED
        BY <4>1, <4>2
    <3> QED
      BY <2>1, <3>1, <3>2 DEF RefusalKept
  <2> QED
    BY <2>2, <2>3
<1>6. ASSUME NEW e \in closed, Record(e) PROVE RefusalKept'
  <2>1. answered' = answered /\ closed' = closed \ {e}
    BY <1>6 DEF Record
  <2>2. CASE e.merged
    <3>1. rejected' = rejected
      BY <1>6, <2>2 DEF Record
    <3> QED
      BY <2>1, <2>2, <3>1 DEF RefusalKept
  <2>3. CASE ~e.merged
    <3>1. rejected' = rejected \cup e.ids
      BY <1>6, <2>3 DEF Record
    <3> QED
      BY <2>1, <3>1 DEF RefusalKept
  <2> QED
    BY <2>2, <2>3
<1> QED
  BY <1>1, <1>3, <1>4, <1>5, <1>6
  DEF Next, vars, Dispatch, OpenStart, Push, Publish, OpenDone, OpenFails, Label, WithdrawDone,
      ContinueStart, Continue

\* RefusalKept: for any audits, any number of runs at once and answers in any
\* order, a person's no to a pull request is recorded or still waits to be.
THEOREM RefusalIsKept == Spec => []RefusalKept
<1>1. Init => RefusalKept
  BY DEF Init, RefusalKept
<1>2. TypeOK /\ RefusalKept /\ [Next]_vars => RefusalKept'
  BY KeptStep
<1> QED
  BY <1>1, <1>2, GateTypeCorrect, PTL DEF Spec

-----------------------------------------------------------------------------
(***************************************************************************)
(* Who continues.  Where a run has something to propose and all that the   *)
(* runs propose is decided, somebody is still to answer, to record or to   *)
(* continue; and a continuation that took all of it for decided starts a   *)
(* run, which passes.                                                      *)
(***************************************************************************)
AllProposed == UNION {proposals[r] : r \in 1..count}

Owed ==
  \/ \E g \in Groups : prs[g].open
  \/ closed # {} \/ pending # 0
  \/ running.run # 0 /\ AllProposed \subseteq running.decided

Carried ==
  /\ ~withdrawn => \A g \in Groups : ~prs[g].label
  /\ HasApp /\ ~withdrawn /\ count # 0 /\ AllProposed \subseteq Decided
       => Passed(count) \/ Owed

\* A run that proposes something leaves that undecided.
LEMMA StartCarries ==
  ASSUME TypeOK, NEW obs \in SUBSET Observations, NEW by \in BOOLEAN, Start(obs, by),
         Decided' = Decided, AllProposed' \subseteq Decided'
  PROVE  Passed(count)'
<1>1. count \in Nat /\ count' = count + 1 /\ count + 1 \in Runs /\ count' \in 1..count'
  BY GateAssumption DEF TypeOK, Start, Runs
<1>2. proposals'[count'] = obs \ Decided
  BY <1>1 DEF Start, TypeOK
<1>3. proposals'[count'] \subseteq Decided'
  BY <1>1 DEF AllProposed
<1>4. proposals'[count'] = {}
  BY <1>2, <1>3
<1>5. count' <= count'
  BY <1>1
<1> QED
  BY <1>4, <1>5 DEF Passed

\* A step of any job, person or workflow that dispatches no run and ends no
\* continuation leaves somebody to go on.
LEMMA OwedStays ==
  ASSUME TypeOK, Carried, UNCHANGED run, withdrawn' = withdrawn,
         Decided \subseteq Decided', ~withdrawn => (Owed => Owed'),
         ~withdrawn => Decided' = Decided \/ Owed',
         \A g \in Groups : prs'[g].label => prs[g].label
  PROVE  Carried'
<1>1. AllProposed' = AllProposed /\ (Passed(count)' <=> Passed(count)) /\ count' = count
  BY DEF run, AllProposed, Passed
<1> QED
  BY <1>1 DEF Carried

LEMMA CarriedStep == TypeOK /\ Settled /\ Carried /\ [Next]_vars => Carried'
<1> SUFFICES ASSUME TypeOK, Settled, Carried, [Next]_vars PROVE Carried'
  OBVIOUS
<1> USE DEF base, run, job, queue, past
<1>1. Decided \subseteq Decided'
  BY DecidedGrows
<1>2. CASE Dispatch
  <2>1. PICK obs \in Audits \cup {found[r] : r \in 1..count} : Start(obs, FALSE)
    BY <1>2 DEF Dispatch
  <2>2. obs \in SUBSET Observations
    BY GateAssumption DEF TypeOK, Runs
  <2>3. Decided' = Decided /\ UNCHANGED <<prs, withdrawn>>
    BY <1>2 DEF Dispatch, Decided
  <2>4. AllProposed' \subseteq Decided' => Passed(count)'
    BY <2>1, <2>2, <2>3, StartCarries
  <2> QED
    BY <2>3, <2>4 DEF Carried
<1>3. CASE UNCHANGED <<accepted, rejected, count, found, proposals, reused, prs, closed, pending,
                       running, withdrawn>>
  <2>1. Decided' = Decided /\ AllProposed' = AllProposed
    BY <1>3 DEF Decided, AllProposed
  <2> QED
    BY <1>3, <2>1 DEF Carried, Owed, Passed
<1>4. ASSUME NEW r \in Runs, OpenStart(r) \/ OpenDone(r) \/ OpenFails(r) \/ WithdrawDone(r)
      PROVE  Carried'
  <2>1. Decided' = Decided /\ AllProposed' = AllProposed
    BY <1>4 DEF OpenStart, OpenDone, OpenFails, WithdrawDone, Decided, AllProposed
  <2> QED
    BY <1>3, <1>4 DEF OpenStart, OpenDone, OpenFails, WithdrawDone
<1>5. ASSUME NEW r \in Runs, NEW g \in Groups, Push(r, g) PROVE Carried'
  BY <1>3, <1>5 DEF Push
<1>6. ASSUME NEW r \in Runs, Publish(r) PROVE Carried'
  <2>1. pushed[r] \in Groups /\ prs \in [Groups -> PRType]
    BY <1>6 DEF Publish, TypeOK, PRType
  <2>2. ASSUME NEW g \in Groups PROVE (prs[g].open => prs'[g].open) /\ (prs'[g].label => prs[g].label)
    <3>1. prs[g] \in PRType
      BY <2>1
    <3>2. CASE prs'[g] = prs[g]
      BY <3>2
    <3>3. CASE prs'[g] = [prs[g] EXCEPT !.ids = Work(r, g), !.run = r]
      BY <3>1, <3>3 DEF PRType
    <3>4. CASE prs'[g] = [open |-> TRUE, ids |-> Work(r, g), run |-> r,
           born |-> r, label |-> FALSE]
      BY <3>4
    <3> QED
      BY <1>6, <2>1, <3>2, <3>3, <3>4 DEF Publish
  <2>3. UNCHANGED <<accepted, rejected, run, closed, pending, running, withdrawn>>
    BY <1>6 DEF Publish
  <2>4. Decided' = Decided /\ AllProposed' = AllProposed
    BY <2>3 DEF Decided, AllProposed
  <2>5. Owed => Owed'
    BY <2>2, <2>3, <2>4 DEF Owed
  <2> QED
    BY <2>2, <2>3, <2>4, <2>5, OwedStays
<1>7. ASSUME NEW r \in Runs, NEW g \in Groups, Label(r, g) \/ Withdraw(r, g) PROVE Carried'
  <2>1. CASE Label(r, g)
    BY <2>1 DEF Label, Carried
  <2>2. CASE Withdraw(r, g)
    <3>1. withdrawn /\ withdrawn' = withdrawn
      BY <2>2 DEF Withdraw, Withdraws, Stale, Carried
    <3> QED
      BY <3>1 DEF Carried
  <2> QED
    BY <1>7, <2>1, <2>2
<1>8. ASSUME NEW g \in Groups, Merge(g) \/ Close(g) PROVE Carried'
  <2>1. UNCHANGED <<run, withdrawn>>
    BY <1>8 DEF Merge, Close
  <2>2. \A h \in Groups : prs'[h].label => prs[h].label
    <3>1. prs' = [prs EXCEPT ![g] = NoPR]
      BY <1>8 DEF Merge, Close
    <3> QED
      BY <3>1 DEF NoPR, TypeOK
  <2>3. ~withdrawn => closed' # {}
    <3>1. ~withdrawn => ~prs[g].label
      BY DEF Carried
    <3> QED
      BY <1>8, <3>1 DEF Merge, Close, Answer, AnswerUnlabelled
  <2>4. ~withdrawn => Owed'
    BY <2>3 DEF Owed
  <2> QED
    BY <1>1, <2>1, <2>2, <2>4, OwedStays
<1>9. ASSUME NEW e \in closed, Record(e) PROVE Carried'
  <2>1. pending' # 0
    <3>1. e.run \in Runs
      BY DEF TypeOK
    <3> QED
      BY <1>9, <3>1, GateAssumption DEF Record, Runs
  <2>2. Owed'
    BY <2>1 DEF Owed
  <2>3. UNCHANGED <<run, withdrawn, prs>>
    BY <1>9 DEF Record
  <2> QED
    BY <1>1, <2>2, <2>3, OwedStays
<1>10. CASE ContinueStart
  <2>1. UNCHANGED <<accepted, rejected, run, withdrawn, prs>>
    BY <1>10 DEF ContinueStart
  <2>2. Decided' = Decided /\ AllProposed' = AllProposed /\ count' = count
        /\ (Passed(count)' <=> Passed(count))
    BY <2>1 DEF Decided, AllProposed, Passed
  <2>3. AllProposed \subseteq Decided => Owed'
    BY <1>10, <2>2 DEF ContinueStart, Owed
  <2> QED
    BY <2>1, <2>2, <2>3 DEF Carried
<1>11. CASE Continue
  <2>1. UNCHANGED <<accepted, rejected, closed, pending, prs, withdrawn>>
    BY <1>11 DEF Continue
  <2>2. Decided' = Decided
    BY <2>1 DEF Decided
  <2>3. CASE MayContinue
    <3>1. Start(found[running.run], TRUE) /\ found[running.run] \in SUBSET Observations
      <4>1. running.run \in Runs
        BY <1>11, GateAssumption DEF Continue, TypeOK, Runs
      <4> QED
        BY <1>11, <2>3, <4>1 DEF Continue, TypeOK
    <3>2. AllProposed' \subseteq Decided' => Passed(count)'
      BY <2>2, <3>1, StartCarries
    <3> QED
      BY <2>1, <3>2 DEF Carried
  <2>4. CASE ~MayContinue
    <3>1. UNCHANGED <<count, found, proposals, reused>>
      BY <1>11, <2>4 DEF Continue
    <3>2. AllProposed' = AllProposed /\ (Passed(count)' <=> Passed(count))
      BY <3>1 DEF AllProposed, Passed
    <3>3. running.run \in 1..count
      BY <1>11 DEF Continue, Settled, TypeOK
    <3>4. proposals[running.run] \subseteq AllProposed
      BY <3>3 DEF AllProposed
    <3>5. HasApp /\ Owed => Owed'
      BY <2>1, <2>4, <3>4 DEF Owed, MayContinue
    <3> QED
      BY <2>1, <2>2, <3>1, <3>2, <3>5 DEF Carried
  <2> QED
    BY <2>3, <2>4
<1>12. CASE UNCHANGED vars
  BY <1>3, <1>12 DEF vars
<1> QED
  BY <1>2, <1>4, <1>5, <1>6, <1>7, <1>8, <1>9, <1>10, <1>11, <1>12 DEF Next

\* NoLostContinuation: for any audits, any number of runs at once, and answers and
\* recordings in any order, the queue of one included (20-corrections.yml): where
\* nothing is withdrawn and all that was proposed is decided, the last run passed its
\* gate or somebody is still to continue.
THEOREM ContinuationIsNotLost == Spec => []NoLostContinuation
<1>1. Init => Carried
  <2> SUFFICES ASSUME Init PROVE Carried
    OBVIOUS
  <2>1. count = 0 /\ \A g \in Groups : ~prs[g].label
    BY DEF Init, NoPR
  <2> QED
    BY <2>1 DEF Carried
<1>2. Init => Settled
  <2> SUFFICES ASSUME Init PROVE Settled
    OBVIOUS
  <2>1. 1..count = {} /\ closed = {} /\ 0 \in 0..count
    BY DEF Init
  <2>2. \A g \in Groups : prs[g].run = 0
    BY DEF Init, NoPR
  <2>3. running.run = 0 /\ running.decided = {} /\ pending = 0
    BY DEF Init, Idle
  <2>4. \A r \in Runs : opening[r] = "none"
    BY DEF Init
  <2> QED
    BY <2>1, <2>2, <2>3, <2>4 DEF Settled
<1>3. Carried /\ Settled /\ TypeOK /\ [Next]_vars => (Carried /\ Settled)'
  BY CarriedStep, SettledStep
<1>4. Carried /\ Settled /\ TypeOK => NoLostContinuation
  <2> SUFFICES ASSUME Carried, Settled, TypeOK, Quiet, HasApp, ~withdrawn, count # 0,
                      \A r \in 1..count : proposals[r] \subseteq Decided
               PROVE  Passed(count)
    BY DEF NoLostContinuation
  <2>1. ~Owed
    BY DEF Quiet, Owed, Idle
  <2>2. AllProposed \subseteq Decided
    BY DEF AllProposed
  <2> QED
    BY <2>1, <2>2 DEF Carried
<1> QED
  BY <1>1, <1>2, <1>3, <1>4, GateTypeCorrect, PTL DEF Spec

=============================================================================
