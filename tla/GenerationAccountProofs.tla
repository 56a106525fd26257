----------------------- MODULE GenerationAccountProofs -----------------------
(***************************************************************************)
(* What GenerationAccount's promises rest on.  The invariant says, of      *)
(* every block and at every stage, where what it lost is on record, and    *)
(* that a stage that has passed a block has settled what becomes of it;    *)
(* the report adds nothing to those records and leaves out of them what    *)
(* reached a schema unbound, which has nothing below it to be lost.        *)
(***************************************************************************)
EXTENDS GenerationAccount, TLAPS

\* What a block no longer has is on record: attribute by attribute while it
\* has a binding, and whole, for it or for its key, once it has none.
LossOnRecord(b) ==
  IF b \in DOMAIN bound THEN \A at \in drafted[b] \ bound[b] : Covered(removed, b, at)
  ELSE [block |-> b, at |-> <<>>] \in removed \/ \E d \in dropped : Key(d.block) = Key(b)
LossesOnRecord == /\ DOMAIN bound \subseteq Blocks
                  /\ \A b \in Blocks : LossOnRecord(b)
                  /\ \A r \in removed : r = [block |-> r.block, at |-> r.at]
                  /\ phase \in {"prune", "verify"} => dropped = {}

\* What reached a schema unbound was an attribute with none below it.
KeptAreLeaves == \A k \in keptUnbound : k.at # <<>> /\ Leaf(k.block, k.at)

\* What emission makes of the blocks: of each one it has passed, at the end
\* of each one.
Emitted(b) == b \in registered \/ b \notin DOMAIN bound \/ \E x \in excluded : x.block = b
FatesKnown ==
  /\ registered \subseteq DOMAIN bound
  /\ phase \in {"prune", "verify"} => registered = {}
  /\ phase = "render" => \A b \in Blocks : b \in Range(todo) \/ Emitted(b)
  /\ phase \in {"report", "done"} => \A b \in Blocks : Emitted(b)

Fresh == bound = <<>> /\ removed = {} /\ dropped = {} /\ registered = {} /\ keptUnbound = {}
AccountInv ==
  /\ order \in Seq(Blocks) /\ todo \in Seq(Blocks) /\ DOMAIN drafted = Blocks
  /\ phase = "bind" => Fresh
  /\ phase # "bind" => LossesOnRecord /\ FatesKnown
  /\ KeptAreLeaves
  /\ phase = "done" => report = Account

-----------------------------------------------------------------------------
\* A sequence that is not empty is its head and what is behind it.
LEMMA AheadAndBehind ==
  ASSUME NEW S, NEW s \in Seq(S), s # <<>>
  PROVE  /\ Head(s) \in S /\ Tail(s) \in Seq(S)
         /\ Range(s) = {Head(s)} \cup Range(Tail(s))
         /\ Len(s) = 1 => Range(s) = {Head(s)}
<1>1. Len(s) \in Nat /\ DOMAIN s = 1 .. Len(s) /\ Len(s) # 0 /\ Head(s) = s[1]
  OBVIOUS
<1>2. Tail(s) \in Seq(S) /\ DOMAIN Tail(s) = 1 .. (Len(s) - 1) /\ \A i \in DOMAIN Tail(s) : Tail(s)[i] = s[i + 1]
  BY <1>1
<1>3. ASSUME NEW i \in DOMAIN s, i # 1
      PROVE  i - 1 \in DOMAIN Tail(s) /\ Tail(s)[i - 1] = s[i]
  BY <1>1, <1>2, <1>3
<1>4. \A i \in DOMAIN Tail(s) : i + 1 \in DOMAIN s
  BY <1>1, <1>2
<1>5. Range(s) \subseteq {Head(s)} \cup Range(Tail(s))
  BY <1>1, <1>3 DEF Range
<1>6. {Head(s)} \cup Range(Tail(s)) \subseteq Range(s)
  BY <1>1, <1>2, <1>4 DEF Range
<1>7. Len(s) = 1 => Range(s) = {Head(s)}
  BY <1>1 DEF Range
<1> QED
  BY <1>1, <1>2, <1>5, <1>6, <1>7

LEMMA AccountInit == Init => AccountInv
  BY DEF Init, AccountInv, Fresh, KeptAreLeaves, Blocks

\* A record taken away and nothing else: the others answer as they did.
LEMMA CoverageGrows ==
  ASSUME NEW R, NEW Q, R \subseteq Q, NEW b, NEW at, Covered(R, b, at)
  PROVE  Covered(Q, b, at)
  BY DEF Covered

LEMMA BindAccounts == AccountInv /\ Bind => AccountInv'
<1> SUFFICES ASSUME AccountInv, Bind PROVE AccountInv'
  OBVIOUS
<1>1. Fresh /\ bound' = drafted /\ DOMAIN drafted = Blocks /\ phase' = "prune" /\ todo' = order
      /\ UNCHANGED <<order, drafted, underived, removed, dropped, registered, excluded, keptUnbound, report>>
  BY DEF AccountInv, Bind, input, losses, outcome
<1>2. Blocks' = Blocks
  BY <1>1 DEF Blocks
<1>3. LossesOnRecord'
  BY <1>1, <1>2 DEF LossesOnRecord, LossOnRecord, Fresh
<1>4. FatesKnown'
  BY <1>1, <1>2 DEF FatesKnown, Fresh
<1> QED
  BY <1>1, <1>2, <1>3, <1>4 DEF AccountInv, KeptAreLeaves, Fresh

\* Pruning a block moves to the next one, and records no loss elsewhere.
LEMMA PruneAccounts ==
  ASSUME AccountInv, NEW c \in Blocks, Prune(c)
  PROVE  AccountInv'
<1>1. /\ phase = "prune" /\ todo # <<>> /\ c = Head(todo) /\ todo' = Tail(todo)
      /\ phase' \in {"prune", "verify"}
      /\ removed \subseteq removed' /\ \A r \in removed' \ removed : r = [block |-> c, at |-> r.at]
      /\ Lessens(c) \/ Falls(c)
      /\ UNCHANGED <<order, drafted, underived, dropped, registered, excluded, keptUnbound, report>>
  BY DEF Prune, Turn, Passed, input, outcome
<1>2. Blocks' = Blocks
  BY <1>1 DEF Blocks
<1>3. LossesOnRecord /\ registered = {} /\ dropped = {}
  BY <1>1 DEF AccountInv, LossesOnRecord, FatesKnown
<1>4. \A r \in removed' : r = [block |-> r.block, at |-> r.at]
  <2> SUFFICES ASSUME NEW r \in removed' PROVE r = [block |-> r.block, at |-> r.at]
    OBVIOUS
  <2>1. CASE r \in removed
    BY <2>1, <1>3 DEF LossesOnRecord
  <2>2. CASE r \notin removed
    <3>1. r = [block |-> c, at |-> r.at]
      BY <2>2, <1>1
    <3>2. r.block = c
      BY <3>1
    <3> QED
      BY <3>1, <3>2
  <2> QED
    BY <2>1, <2>2
<1>5. DOMAIN bound' \subseteq Blocks /\ \A b \in Blocks : LossOnRecord(b)'
  <2>1. CASE Lessens(c)
    <3>1. /\ DOMAIN bound' = DOMAIN bound
          /\ \A b \in DOMAIN bound : b # c => bound'[b] = bound[b]
          /\ \A at \in bound[c] \ bound'[c] : Covered(removed', c, at)
      BY <2>1 DEF Lessens
    <3>2. ASSUME NEW b \in Blocks PROVE LossOnRecord(b)'
      <4>1. LossOnRecord(b)
        BY <1>3 DEF LossesOnRecord
      <4>2. CASE b \in DOMAIN bound
        <5> SUFFICES ASSUME NEW at \in drafted[b] \ bound'[b] PROVE Covered(removed', b, at)
          BY <4>2, <3>1, <1>1 DEF LossOnRecord
        <5>1. CASE at \in bound[b]
          BY <5>1, <3>1, <4>2
        <5>2. CASE at \notin bound[b]
          BY <5>2, <4>1, <4>2, <1>1, CoverageGrows DEF LossOnRecord
        <5> QED
          BY <5>1, <5>2
      <4>3. CASE b \notin DOMAIN bound
        BY <4>3, <4>1, <3>1, <1>1 DEF LossOnRecord
      <4> QED
        BY <4>2, <4>3
    <3> QED
      BY <3>1, <3>2, <1>3 DEF LossesOnRecord
  <2>2. CASE Falls(c)
    <3>1. /\ DOMAIN bound' = DOMAIN bound \ {c} /\ \A b \in DOMAIN bound' : bound'[b] = bound[b]
          /\ [block |-> c, at |-> <<>>] \in removed'
      BY <2>2 DEF Falls, Without
    <3>2. ASSUME NEW b \in Blocks PROVE LossOnRecord(b)'
      <4>1. LossOnRecord(b)
        BY <1>3 DEF LossesOnRecord
      <4>2. CASE b \in DOMAIN bound'
        <5> SUFFICES ASSUME NEW at \in drafted[b] \ bound'[b] PROVE Covered(removed', b, at)
          BY <4>2, <1>1 DEF LossOnRecord
        <5> QED
          BY <4>1, <4>2, <3>1, <1>1, CoverageGrows DEF LossOnRecord
      <4>3. CASE b \notin DOMAIN bound'
        BY <4>3, <4>1, <3>1, <1>1 DEF LossOnRecord
      <4> QED
        BY <4>2, <4>3
    <3> QED
      BY <3>1, <3>2, <1>3 DEF LossesOnRecord
  <2> QED
    BY <2>1, <2>2, <1>1
<1>6. LossesOnRecord'
  BY <1>1, <1>2, <1>3, <1>4, <1>5 DEF LossesOnRecord
<1>7. FatesKnown'
  BY <1>1, <1>3 DEF FatesKnown
<1>8. todo' \in Seq(Blocks)
  BY <1>1, AheadAndBehind DEF AccountInv
<1>9. KeptAreLeaves'
  BY <1>1 DEF AccountInv, KeptAreLeaves, Leaf
<1> QED
  BY <1>1, <1>2, <1>6, <1>7, <1>8, <1>9 DEF AccountInv

LEMMA VerifyAccounts == AccountInv /\ Verify => AccountInv'
<1> SUFFICES ASSUME AccountInv, Verify PROVE AccountInv'
  OBVIOUS
<1> DEFINE gone == {b \in DOMAIN bound : \E d \in dropped' : Key(d.block) = Key(b)}
<1>1. /\ phase = "verify" /\ phase' = "render" /\ todo' = order /\ bound' = Without(bound, gone)
      /\ UNCHANGED <<order, drafted, underived, removed, registered, excluded, keptUnbound, report>>
  BY DEF Verify, input, outcome
<1>2. Blocks' = Blocks
  BY <1>1 DEF Blocks
<1>3. LossesOnRecord /\ registered = {} /\ dropped = {}
  BY <1>1 DEF AccountInv, LossesOnRecord, FatesKnown
<1>4. DOMAIN bound' = DOMAIN bound \ gone /\ \A b \in DOMAIN bound' : bound'[b] = bound[b]
  BY <1>1 DEF Without
<1>5. ASSUME NEW b \in Blocks PROVE LossOnRecord(b)'
  <2>1. LossOnRecord(b)
    BY <1>3 DEF LossesOnRecord
  <2>2. CASE b \in DOMAIN bound'
    BY <2>1, <2>2, <1>1, <1>4 DEF LossOnRecord
  <2>3. CASE b \in gone
    BY <2>3, <1>4 DEF LossOnRecord
  <2>4. CASE b \notin DOMAIN bound
    BY <2>1, <2>4, <1>1, <1>3, <1>4 DEF LossOnRecord
  <2> QED
    BY <2>2, <2>3, <2>4, <1>4
<1>6. LossesOnRecord'
  BY <1>1, <1>2, <1>3, <1>4, <1>5 DEF LossesOnRecord
<1>7. FatesKnown'
  BY <1>1, <1>2, <1>3 DEF FatesKnown, Blocks
<1>8. KeptAreLeaves'
  BY <1>1 DEF AccountInv, KeptAreLeaves, Leaf
<1> QED
  BY <1>1, <1>2, <1>6, <1>7, <1>8 DEF AccountInv

\* Emission settles the block it is at and keeps what it settled of others.
LEMMA RenderAccounts ==
  ASSUME AccountInv, NEW c \in Blocks, Render(c)
  PROVE  AccountInv'
<1>1. /\ phase = "render" /\ todo # <<>> /\ c = Head(todo) /\ todo' = Tail(todo)
      /\ phase' = (IF Len(todo) = 1 THEN "report" ELSE phase)
      /\ Skip(c) \/ Register(c) \/ Exclude(c)
      /\ UNCHANGED <<order, drafted, underived, bound, removed, dropped, report>>
  BY DEF Render, Turn, Passed, input, losses
<1>2. Blocks' = Blocks
  BY <1>1 DEF Blocks
<1>3. LossesOnRecord /\ FatesKnown /\ KeptAreLeaves
  BY <1>1 DEF AccountInv
<1>4. /\ registered \subseteq registered' /\ excluded \subseteq excluded'
      /\ registered' \subseteq DOMAIN bound
      /\ Emitted(c)'
  <2>1. CASE Skip(c)
    BY <2>1, <1>1, <1>3 DEF Skip, outcome, FatesKnown, Emitted
  <2>2. CASE Register(c)
    BY <2>2, <1>1, <1>3 DEF Register, FatesKnown, Emitted
  <2>3. CASE Exclude(c)
    BY <2>3, <1>1, <1>3 DEF Exclude, FatesKnown, Emitted
  <2> QED
    BY <2>1, <2>2, <2>3, <1>1
<1>5. KeptAreLeaves'
  <2>1. CASE Skip(c)
    BY <2>1, <1>1, <1>3 DEF Skip, outcome, KeptAreLeaves, Leaf
  <2>2. CASE Keeps(c)
    BY <2>2, <1>1, <1>3 DEF Keeps, KeptAreLeaves, Leaf
  <2> QED
    BY <2>1, <2>2, <1>1 DEF Register, Exclude
<1>6. todo' \in Seq(Blocks) /\ Range(todo) = {c} \cup Range(todo') /\ (Len(todo) = 1 => Range(todo) = {c})
  BY <1>1, AheadAndBehind DEF AccountInv
<1>7. \A b \in Blocks : Emitted(b) => Emitted(b)'
  BY <1>1, <1>4 DEF Emitted
<1>8. FatesKnown'
  <2>1. \A b \in Blocks : b \in Range(todo) \/ Emitted(b)
    BY <1>1, <1>3 DEF FatesKnown
  <2>2. \A b \in Blocks : b \in Range(todo') \/ Emitted(b)'
    BY <2>1, <1>4, <1>6, <1>7
  <2>3. Len(todo) = 1 => \A b \in Blocks : Emitted(b)'
    BY <2>1, <1>4, <1>6, <1>7
  <2> QED
    BY <2>2, <2>3, <1>1, <1>2, <1>4 DEF FatesKnown
<1>9. LossesOnRecord'
  BY <1>1, <1>2, <1>3 DEF LossesOnRecord, LossOnRecord
<1> QED
  BY <1>1, <1>2, <1>5, <1>6, <1>8, <1>9 DEF AccountInv

LEMMA EndAccounts == AccountInv /\ (Fail \/ Report \/ UNCHANGED vars) => AccountInv'
<1> SUFFICES ASSUME AccountInv, Fail \/ Report \/ UNCHANGED vars PROVE AccountInv'
  OBVIOUS
<1>1. UNCHANGED <<order, drafted, underived, bound, removed, dropped, registered, excluded, keptUnbound>>
  BY DEF Fail, Report, vars, input, losses, outcome
<1>2. Blocks' = Blocks /\ KeptAreLeaves' /\ (Account' = Account)
  BY <1>1 DEF Blocks, AccountInv, KeptAreLeaves, Leaf, Account, Underived, Lost, Unbuilt, Refused
<1>3. CASE Fail
  <2>1. phase' = "aborted" /\ todo' = <<>> /\ phase # "bind"
    BY <1>3 DEF Fail
  <2>2. LossesOnRecord' /\ FatesKnown'
    BY <2>1, <1>1, <1>2 DEF AccountInv, LossesOnRecord, LossOnRecord, FatesKnown
  <2> QED
    BY <2>1, <2>2, <1>1, <1>2 DEF AccountInv
<1>4. CASE Report
  <2>1. phase = "report" /\ phase' = "done" /\ todo' = todo /\ report' = Account
    BY <1>4 DEF Report
  <2>2. LossesOnRecord' /\ FatesKnown'
    BY <2>1, <1>1, <1>2 DEF AccountInv, LossesOnRecord, LossOnRecord, FatesKnown, Emitted
  <2> QED
    BY <2>1, <2>2, <1>1, <1>2 DEF AccountInv
<1>5. CASE UNCHANGED vars
  <2>1. phase' = phase /\ todo' = todo /\ report' = report
    BY <1>5 DEF vars
  <2>2. (phase # "bind" => LossesOnRecord' /\ FatesKnown') /\ (phase = "bind" => Fresh')
    BY <2>1, <1>1, <1>2 DEF AccountInv, LossesOnRecord, LossOnRecord, FatesKnown, Emitted, Fresh
  <2> QED
    BY <2>1, <2>2, <1>1, <1>2 DEF AccountInv
<1> QED
  BY <1>3, <1>4, <1>5

LEMMA AccountStep == AccountInv /\ [Next]_vars => AccountInv'
  BY BindAccounts, PruneAccounts, VerifyAccounts, RenderAccounts, EndAccounts DEF Next

-----------------------------------------------------------------------------
\* What is left on record comes into the account, under the stage it is from.
LEMMA RecordsAreEntered ==
  /\ \A r \in removed \ keptUnbound : Entry(r.block, r.at, "binding") \in Account
  /\ \A d \in dropped : Entry(d.block, <<>>, "binding") \in Account
  /\ \A x \in excluded : Entry(x.block, <<>>, "emission") \in Account
<1>1. \A r \in removed \ keptUnbound : Entry(r.block, r.at, "binding") \in Lost
  BY DEF Lost
<1>2. \A d \in dropped : Entry(d.block, <<>>, "binding") \in Unbuilt
  BY DEF Unbuilt
<1>3. \A x \in excluded : Entry(x.block, <<>>, "emission") \in Refused
  BY DEF Refused
<1> QED
  BY <1>1, <1>2, <1>3 DEF Account

\* A loss on record that the report leaves out is of the very attribute that
\* was kept: what was kept has nothing below it.
LEMMA ReportedOrKept ==
  ASSUME AccountInv, phase = "done", NEW b \in Blocks, NEW at \in drafted[b], Covered(removed, b, at)
  PROVE  [block |-> b, at |-> at] \in keptUnbound \/ Covered(report, b, at)
<1>1. PICK r \in removed : r.block = b /\ r.at # <<>> /\ IsPrefix(r.at, at)
  BY DEF Covered, Covers
<1>2. CASE r \in keptUnbound
  <2>1. at = r.at
    BY <1>1, <1>2 DEF AccountInv, KeptAreLeaves, Leaf
  <2>2. r = [block |-> b, at |-> at]
    BY <1>1, <2>1 DEF AccountInv, LossesOnRecord
  <2> QED
    BY <1>2, <2>2
<1>3. CASE r \notin keptUnbound
  <2>1. Entry(r.block, r.at, "binding") \in report
    BY <1>1, <1>3, RecordsAreEntered DEF AccountInv
  <2>2. Covers(Entry(r.block, r.at, "binding"), b, at)
    BY <1>1 DEF Covers, Entry
  <2> QED
    BY <2>1, <2>2 DEF Covered
<1> QED
  BY <1>2, <1>3

LEMMA LossesReported == AccountInv => LostIsReported
<1> SUFFICES ASSUME AccountInv, phase = "done", NEW b \in registered, NEW at \in drafted[b] \ bound[b]
             PROVE  [block |-> b, at |-> at] \in keptUnbound \/ Covered(report, b, at)
  BY DEF LostIsReported
<1>1. b \in DOMAIN bound /\ b \in Blocks /\ LossOnRecord(b)
  BY DEF AccountInv, FatesKnown, LossesOnRecord
<1> QED
  BY <1>1, ReportedOrKept DEF LossOnRecord

LEMMA WholesAreWhole == AccountInv => WholeIsWhole
<1> SUFFICES ASSUME AccountInv, phase = "done", NEW b \in Blocks, IsWhole(Key(b))
             PROVE  /\ b \in registered
                    /\ \A at \in drafted[b] \ bound[b] : [block |-> b, at |-> at] \in keptUnbound
  BY DEF WholeIsWhole
<1>1. \A r \in report : Key(r.block) # Key(b)
  BY DEF IsWhole
<1>2. report = Account /\ LossOnRecord(b) /\ Emitted(b) /\ KeptAreLeaves
  BY DEF AccountInv, LossesOnRecord, FatesKnown
<1>3. ASSUME NEW x \in excluded PROVE x.block # b
  <2>1. Entry(x.block, <<>>, "emission") \in report
    BY <1>2, RecordsAreEntered
  <2> QED
    BY <2>1, <1>1 DEF Entry
<1>4. ASSUME NEW d \in dropped PROVE Key(d.block) # Key(b)
  <2>1. Entry(d.block, <<>>, "binding") \in report
    BY <1>2, RecordsAreEntered
  <2> QED
    BY <2>1, <1>1 DEF Entry
<1>5. [block |-> b, at |-> <<>>] \notin removed
  <2> SUFFICES ASSUME [block |-> b, at |-> <<>>] \in removed PROVE FALSE
    OBVIOUS
  <2>1. [block |-> b, at |-> <<>>] \notin keptUnbound
    BY <1>2 DEF KeptAreLeaves
  <2>2. Entry(b, <<>>, "binding") \in report
    <3> DEFINE r == [block |-> b, at |-> <<>>]
    <3>1. r \in removed \ keptUnbound /\ r.block = b /\ r.at = <<>>
      BY <2>1
    <3> QED
      BY <3>1, <1>2, RecordsAreEntered
  <2> QED
    BY <2>2, <1>1 DEF Entry
<1>6. b \in DOMAIN bound
  BY <1>2, <1>4, <1>5 DEF LossOnRecord
<1>7. b \in registered
  BY <1>2, <1>3, <1>6 DEF Emitted
<1>8. ASSUME NEW at \in drafted[b] \ bound[b] PROVE [block |-> b, at |-> at] \in keptUnbound
  <2>1. [block |-> b, at |-> at] \in keptUnbound \/ Covered(report, b, at)
    BY <1>2, <1>6, ReportedOrKept DEF LossOnRecord
  <2> QED
    BY <2>1, <1>1 DEF Covered, Covers
<1> QED
  BY <1>7, <1>8

-----------------------------------------------------------------------------
\* Whatever pruning takes away, verification drops and emission refuses: an
\* attribute of a registered block is bound, kept in the schema, or in the
\* report at its own path or one above (RenderUnsupported, SeparateKept).
THEOREM LossesAreReported == Spec => []LostIsReported
<1>1. Init => AccountInv
  BY AccountInit
<1>2. AccountInv /\ [Next]_vars => AccountInv'
  BY AccountStep
<1>3. AccountInv => LostIsReported
  BY LossesReported
<1> QED
  BY <1>1, <1>2, <1>3, PTL DEF Spec

\* An entity nothing is held against has every block registered and every
\* attribute in a schema: no stage loses a block or a part of one without a
\* cause under its key, DropProblems' by-key drop included.
THEOREM NothingHeldIsWhole == Spec => []WholeIsWhole
<1>1. Init => AccountInv
  BY AccountInit
<1>2. AccountInv /\ [Next]_vars => AccountInv'
  BY AccountStep
<1>3. AccountInv => WholeIsWhole
  BY WholesAreWhole
<1> QED
  BY <1>1, <1>2, <1>3, PTL DEF Spec
=============================================================================
