-------------------------- MODULE SpecRevisionProofs -------------------------
(***************************************************************************)
(* What holds of the corrections in a specification directory whatever the *)
(* documents, the findings and the rules that compile them, and wherever a *)
(* verb is killed: no file takes the name of another.                      *)
(***************************************************************************)
EXTENDS SpecRevision, WellFoundedInduction, TLAPS

AllNames == DOMAIN accepted \cup DOMAIN proposed

\* A proposed file is compiled or a person's, never an automatic acceptance;
\* no name is both accepted and proposed; and while corrections are written
\* the next number is above every one in use.
Numbered ==
  /\ next \in Nat
  /\ \A f \in AllNames : f.n \in 0 .. LastOrdinal
  /\ \A f \in DOMAIN proposed : f.class # 2
  /\ DOMAIN accepted \cap DOMAIN proposed = {}
  /\ verb = "propose" => \A f \in AllNames : f.n < next

\* What was accepted without review has one file for each evidence.
AutoFilesApart ==
  \A f, g \in DOMAIN accepted :
    f.class = 2 /\ g.class = 2 /\ accepted[f].evidence = accepted[g].evidence => f = g

-----------------------------------------------------------------------------
\* The number after the highest in use is above each of them.
LEMMA HighestAbove ==
  ASSUME NEW F, \A f \in F : f.n \in 0 .. LastOrdinal
  PROVE  HighestOrdinal(F) \in Nat /\ \A f \in F : f.n <= HighestOrdinal(F)
<1> DEFINE S == {0} \cup {f.n : f \in F}
           Under == OpToRel(<, Nat)
           Mirror == {i \in Nat : i <= LastOrdinal /\ (LastOrdinal - i) \in S}
<1>1. LastOrdinal \in Nat /\ S \subseteq 0 .. LastOrdinal
  BY HandAssumption
<1>2. IsWellFoundedOn(Under, Nat)
  BY NatLessThanWellFounded
<1>3. Mirror \subseteq Nat /\ Mirror # {}
  <2>1. 0 \in S
    OBVIOUS
  <2>2. LastOrdinal \in Nat /\ LastOrdinal <= LastOrdinal /\ LastOrdinal - LastOrdinal = 0
    BY <1>1
  <2> QED
    BY <2>1, <2>2
<1> HIDE DEF S
<1>4. PICK i \in Mirror : \A j \in Mirror : ~(<<j, i>> \in Under)
  <2> HIDE DEF Under, Mirror
  <2> QED
    BY <1>2, <1>3, WFMin
<1>5. \A j \in Mirror : i <= j
  <2>1. \A j \in Mirror : ~(j < i)
    BY <1>3, <1>4 DEF OpToRel
  <2> QED
    BY <1>3, <2>1
<1>6. LastOrdinal - i \in S /\ \A t \in S : LastOrdinal - i >= t
  <2>1. LastOrdinal - i \in S
    OBVIOUS
  <2>2. ASSUME NEW t \in S PROVE LastOrdinal - i >= t
    <3>1. t \in 0 .. LastOrdinal
      BY <1>1
    <3>2. LastOrdinal - t \in Mirror
      BY <3>1, <1>1
    <3> QED
      BY <3>1, <3>2, <1>5, <1>1
  <2> QED
    BY <2>1, <2>2
<1>7. Max(S) \in S /\ \A t \in S : Max(S) >= t
  BY <1>6 DEF Max
<1>8. HighestOrdinal(F) = Max(S)
  BY DEF HighestOrdinal, S
<1>9. Max(S) \in Nat
  <2>1. \A t \in 0 .. LastOrdinal : t \in Nat
    BY <1>1
  <2> QED
    BY <1>1, <1>7, <2>1
<1>10. ASSUME NEW f \in F PROVE f.n <= Max(S)
  <2>1. f.n \in S
    BY DEF S
  <2>2. f.n \in Nat /\ Max(S) >= f.n
    BY <2>1, <1>1, <1>7
  <2> QED
    BY <2>2, <1>9
<1> QED
  BY <1>8, <1>9, <1>10

-----------------------------------------------------------------------------
\* One correction written: to a file of the same evidence, or to one of its own.
LEMMA WriteKeeps ==
  ASSUME Numbered, AutoFilesApart, WriteCorrection
  PROVE  /\ Numbered' /\ AutoFilesApart'
         /\ \A f \in DOMAIN accepted :
              f \in DOMAIN accepted' /\ accepted'[f].evidence = accepted[f].evidence
<1> DEFINE c == Head(due)
           own == AutoFileFor(accepted, c)
           auto == Kind(c) \in AutoAccept
           fresh == Name(auto, next, Entity(c))
<1>1. verb = "propose" /\ verb' = "propose" /\ next \in Nat
  BY DEF WriteCorrection, Numbered
<1>2. fresh \notin AllNames /\ fresh.n = next /\ (auto => fresh.class = 2) /\ (~auto => fresh.class = 1)
  BY <1>1 DEF Numbered, Name
<1>3. CASE auto /\ own # {}
  <2> DEFINE name == CHOOSE f \in own : TRUE
  <2>1. name \in DOMAIN accepted /\ name.class = 2 /\ accepted[name].evidence = c.evidence
    BY <1>3 DEF AutoFileFor
  <2>2. accepted' = Placed(accepted, name, c) /\ proposed' = proposed /\ next' = next
    BY <1>3 DEF WriteCorrection, WriteOne
  <2> HIDE DEF name, c
  <2>3. DOMAIN accepted' = DOMAIN accepted
    BY <2>1, <2>2 DEF Placed
  <2>4. \A f \in DOMAIN accepted : accepted'[f].evidence = accepted[f].evidence
    BY <2>1, <2>2 DEF Placed
  <2> QED
    BY <1>1, <2>2, <2>3, <2>4 DEF Numbered, AutoFilesApart, AllNames
<1>4. CASE auto /\ own = {}
  <2>1. /\ accepted' = Placed(accepted, fresh, c) /\ proposed' = proposed
        /\ next' = next + 1 /\ next' <= LastOrdinal + 1
    BY <1>4 DEF WriteCorrection, WriteOne
  <2>2. \A f \in DOMAIN accepted : f.class = 2 => accepted[f].evidence # c.evidence
    BY <1>4 DEF AutoFileFor
  <2> HIDE DEF fresh, c, own, auto
  <2>3. DOMAIN accepted' = DOMAIN accepted \cup {fresh}
    BY <2>1 DEF Placed
  <2>4. accepted'[fresh] = c /\ \A f \in DOMAIN accepted : accepted'[f] = accepted[f]
    BY <1>2, <2>1 DEF Placed, AllNames
  <2>5. AutoFilesApart'
    BY <2>2, <2>3, <2>4 DEF AutoFilesApart
  <2>6. Numbered'
    <3>1. next \in 0 .. LastOrdinal /\ next' \in Nat
      BY <1>1, <2>1, HandAssumption
    <3>2. AllNames' = AllNames \cup {fresh}
      BY <2>1, <2>3 DEF AllNames
    <3>3. \A f \in AllNames' : f.n \in 0 .. LastOrdinal /\ f.n < next'
      BY <1>1, <1>2, <2>1, <3>1, <3>2 DEF Numbered
    <3> QED
      BY <1>2, <2>1, <2>3, <3>1, <3>3 DEF Numbered, AllNames
  <2> QED
    BY <2>3, <2>4, <2>5, <2>6
<1>5. CASE ~auto
  <2>1. /\ accepted' = accepted /\ proposed' = Placed(proposed, fresh, c)
        /\ next' = next + 1 /\ next' <= LastOrdinal + 1
    BY <1>5 DEF WriteCorrection, WriteOne
  <2> HIDE DEF fresh, c, own, auto
  <2>2. DOMAIN proposed' = DOMAIN proposed \cup {fresh}
    BY <2>1 DEF Placed
  <2>3. Numbered'
    <3>1. next \in 0 .. LastOrdinal /\ next' \in Nat
      BY <1>1, <2>1, HandAssumption
    <3>2. AllNames' = AllNames \cup {fresh}
      BY <2>1, <2>2 DEF AllNames
    <3>3. \A f \in AllNames' : f.n \in 0 .. LastOrdinal /\ f.n < next'
      BY <1>1, <1>2, <2>1, <3>1, <3>2 DEF Numbered
    <3> QED
      BY <1>2, <1>5, <2>1, <2>2, <3>1, <3>3 DEF Numbered, AllNames
  <2> QED
    BY <2>1, <2>3 DEF AutoFilesApart
<1> QED
  BY <1>3, <1>4, <1>5

\* A verb that begins clears what it compiled before and numbers from above
\* what is left.
LEMMA ProposeKeeps ==
  ASSUME Numbered, Propose
  PROVE  Numbered' /\ accepted' = accepted
<1>1. accepted' = accepted /\ proposed' = HandAuthored(proposed) /\ verb = "idle"
  BY DEF Propose
<1>2. DOMAIN proposed' \subseteq DOMAIN proposed
  BY <1>1 DEF HandAuthored
<1>3. \A f \in AllNames' : f.n \in 0 .. LastOrdinal
  BY <1>1, <1>2 DEF Numbered, AllNames
<1>4. /\ next' \in Nat
      /\ verb' = "propose" => \A f \in AllNames' : f.n < next'
  <2>1. CASE next' = next /\ verb' = verb
    BY <1>1, <2>1 DEF Numbered
  <2>2. CASE next' = HighestOrdinal(AllNames') + 1
    <3>1. /\ HighestOrdinal(AllNames') \in Nat
          /\ \A f \in AllNames' : f.n <= HighestOrdinal(AllNames')
      BY <1>3, HighestAbove
    <3>2. \A f \in AllNames' : f.n \in Int
      BY <1>3, HandAssumption
    <3> HIDE DEF AllNames
    <3> QED
      BY <2>2, <3>1, <3>2
  <2>3. (next' = next /\ verb' = verb) \/ next' = HighestOrdinal(AllNames') + 1
    BY <1>1 DEF Propose, Ran, Begins, writing, AllNames
  <2> QED
    BY <2>1, <2>2, <2>3
<1> QED
  BY <1>1, <1>2, <1>3, <1>4 DEF Numbered, AllNames

\* Every other step leaves the number alone or is done with it.
LEMMA OthersKeep ==
  ASSUME Numbered, AutoFilesApart,
         AllNames' \subseteq AllNames, DOMAIN accepted' \subseteq AllNames,
         DOMAIN accepted' \cap DOMAIN proposed' = {},
         DOMAIN proposed' \subseteq DOMAIN proposed,
         \A f \in DOMAIN accepted' \cap DOMAIN accepted : accepted'[f] = accepted[f],
         verb' # "propose", next' \in Nat
  PROVE  Numbered' /\ AutoFilesApart'
<1>1. Numbered'
  BY DEF Numbered, AllNames
<1>2. \A f \in DOMAIN accepted' : f.class = 2 => f \in DOMAIN accepted
  BY DEF Numbered, AllNames
<1> QED
  BY <1>1, <1>2 DEF AutoFilesApart

Kept ==
  \A f \in DOMAIN accepted :
    \/ f \in DOMAIN accepted' /\ accepted'[f].evidence = accepted[f].evidence
    \/ ~State(accepted).ok

LEMMA StepKeeps ==
  ASSUME Numbered, AutoFilesApart, [Next]_vars
  PROVE  Numbered' /\ AutoFilesApart' /\ Kept
<1>1. CASE UNCHANGED vars
  BY <1>1 DEF vars, Numbered, AutoFilesApart, AllNames, Kept
<1>2. CASE Propose
  BY <1>2, ProposeKeeps DEF AutoFilesApart, Kept
<1>3. CASE WriteCorrection
  BY <1>3, WriteKeeps DEF Kept
<1>4. CASE Import \/ Audit \/ (\E o \in rejected : Reconsider(o))
  <2>1. UNCHANGED <<accepted, proposed, next, verb>>
    BY <1>4 DEF Import, Audit, Reconsider, files, writing
  <2> QED
    BY <2>1 DEF Numbered, AutoFilesApart, AllNames, Kept
<1>5. CASE Proposed \/ Kill \/ WriteRevision
  <2>1. UNCHANGED <<accepted, proposed>> /\ verb' # "propose" /\ next' = 0
    BY <1>5 DEF Proposed, Kill, WriteRevision, Rests, files
  <2> QED
    BY <2>1, OthersKeep DEF AllNames, Numbered, Kept
<1>6. CASE KillClearing
  <2>1. /\ accepted' = accepted /\ verb' # "propose" /\ next' = next
        /\ DOMAIN proposed' \subseteq DOMAIN proposed
    BY <1>6 DEF KillClearing, writing, HandAuthored
  <2> QED
    BY <2>1, OthersKeep DEF AllNames, Numbered, Kept
<1>7. ASSUME NEW f \in DOMAIN proposed, Accept(f)
      PROVE  Numbered' /\ AutoFilesApart' /\ Kept
  <2>1. /\ accepted' = Placed(accepted, f, proposed[f]) /\ proposed' = Dropped(proposed, f)
        /\ verb' # "propose" /\ next' = next
    BY <1>7 DEF Accept, writing
  <2>2. f \notin DOMAIN accepted
    BY DEF Numbered
  <2>3. /\ DOMAIN accepted' = DOMAIN accepted \cup {f}
        /\ \A g \in DOMAIN accepted : accepted'[g] = accepted[g]
    BY <2>1, <2>2 DEF Placed
  <2>4. DOMAIN proposed' = DOMAIN proposed \ {f}
    BY <2>1 DEF Dropped
  <2> QED
    BY <2>1, <2>3, <2>4, OthersKeep DEF AllNames, Numbered, Kept
<1>8. ASSUME NEW f \in DOMAIN proposed, Reject(f)
      PROVE  Numbered' /\ AutoFilesApart' /\ Kept
  <2>1. /\ accepted' = accepted /\ verb' # "propose" /\ next' = next
        /\ DOMAIN proposed' = DOMAIN proposed \ {f}
    BY <1>8 DEF Reject, Dropped, writing
  <2> QED
    BY <2>1, OthersKeep DEF AllNames, Numbered, Kept
<1>9. ASSUME NEW f \in DOMAIN accepted, Withdraw(f)
      PROVE  Numbered' /\ AutoFilesApart' /\ Kept
  <2>1. /\ proposed' = proposed /\ verb' # "propose" /\ next' = next
        /\ DOMAIN accepted' = DOMAIN accepted \ {f}
        /\ \A g \in DOMAIN accepted \ {f} : accepted'[g] = accepted[g]
    BY <1>9 DEF Withdraw, Dropped, writing
  <2>2. ~State(accepted).ok
    BY <1>9 DEF Withdraw
  <2>3. Kept
    BY <2>2 DEF Kept
  <2> QED
    BY <2>1, <2>3, OthersKeep DEF AllNames, Numbered
<1> QED
  BY <1>1, <1>2, <1>3, <1>4, <1>5, <1>6, <1>7, <1>8, <1>9 DEF Next

LEMMA InitNumbered == Init => Numbered /\ AutoFilesApart
<1> SUFFICES ASSUME Init PROVE Numbered /\ AutoFilesApart
  OBVIOUS
<1>1. DOMAIN accepted = {} /\ next = 0 /\ verb = "idle"
  BY DEF Init
<1>2. \A f \in DOMAIN proposed : f.class = 3 /\ f.n = 0
  BY HandAssumption DEF Init
<1>3. 0 \in 0 .. LastOrdinal
  BY HandAssumption
<1> QED
  BY <1>1, <1>2, <1>3 DEF Numbered, AutoFilesApart, AllNames

-----------------------------------------------------------------------------
\* Whatever a vendor publishes, an audit finds and the rules compile, and
\* wherever propose is killed between two files: no accepted correction is
\* written over by other evidence, by a verb or by an acceptance, and none goes
\* but one a person withdraws because the document no longer admits it.
THEOREM NoDecisionIsLost == Spec => DecisionsKept
<1>1. Init => Numbered /\ AutoFilesApart
  BY InitNumbered
<1>2. Numbered /\ AutoFilesApart /\ [Next]_vars => (Numbered /\ AutoFilesApart)' /\ Kept
  BY StepKeeps
<1>3. Kept => \A f \in DOMAIN accepted :
                \/ f \in DOMAIN accepted' /\ accepted'[f].evidence = accepted[f].evidence
                \/ ~State(accepted).ok
  BY DEF Kept
<1> QED
  BY <1>1, <1>2, <1>3, PTL DEF Spec, DecisionsKept

\* What autoFileFor finds is one file at most: a correction accepted without
\* review is written over by the next of its own evidence, and no second file
\* of that evidence ever stands beside it, after kills and re-runs too.
THEOREM OneAutoFileEach == Spec => []AutoFilesApart
<1>1. Init => Numbered /\ AutoFilesApart
  BY InitNumbered
<1>2. Numbered /\ AutoFilesApart /\ [Next]_vars => (Numbered /\ AutoFilesApart)'
  BY StepKeeps
<1> QED
  BY <1>1, <1>2, PTL DEF Spec

=============================================================================
