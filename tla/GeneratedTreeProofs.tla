------------------------ MODULE GeneratedTreeProofs ------------------------
(***************************************************************************)
(* What holds of the generated trees whatever the documents, what is       *)
(* generated from each, the faults and the number of runs.                 *)
(***************************************************************************)
EXTENDS GeneratedTree, TLAPS

-----------------------------------------------------------------------------
(***************************************************************************)
(* A file a person owns.                                                   *)
(***************************************************************************)
Installing == {"provider", "remove", "providerSave"}

\* Authored paths stay marked, so no run that found them unmarked is under way.
Owned ==
  /\ doc \in Docs
  /\ AuthoredUntouched
  /\ \A p \in Authored : p \in DOMAIN entries /\ entries[p].authored
  /\ todo \cap Authored = {}
  /\ drop \cap Authored = {}
  /\ pc \in Installing => ProviderOf[doc] \cap Authored = {}

\* The first repository's authored files are marked.
LEMMA OwnedInit == Init => Owned
<1> SUFFICES ASSUME Init PROVE Owned
  OBVIOUS
<1>1. AuthoredUntouched
  BY DEF Init, AuthoredUntouched
<1>2. \A p \in Authored : p \in DOMAIN entries /\ entries[p].authored
  BY DEF Init
<1>3. pc \notin Installing
  BY DEF Init, Installing
<1> QED
  BY <1>1, <1>2, <1>3 DEF Init, Owned

\* An authored path is not among those either verb writes of its own accord.
LEMMA OwnedApart ==
  ASSUME doc \in Docs
  PROVE  SdkOf[doc] \cap Authored = {} /\ GoMod \notin Authored /\ GoSum \notin Authored
BY TreeAssumption DEF SdkFiles

\* A save that carries the marks forward, and does not write over one, keeps them.
LEMMA RecordedKeepsMarks ==
  ASSUME \A p \in Authored : p \in DOMAIN entries /\ entries[p].authored,
         NEW wanted, DOMAIN wanted \cap Authored = {}, NEW origin,
         entries' = Recorded(NotOf(origin), wanted, origin)
  PROVE  \A p \in Authored : p \in DOMAIN entries' /\ entries'[p].authored
<1> SUFFICES ASSUME NEW p \in Authored
             PROVE  p \in DOMAIN entries' /\ entries'[p].authored
  OBVIOUS
<1>1. p \in NotOf(origin) /\ p \notin DOMAIN wanted
  BY DEF NotOf
<1>2. entries'[p] = entries[p] /\ p \in DOMAIN entries'
  BY <1>1 DEF Recorded
<1> QED
  BY <1>2

\* So does recording what the toolchain wrote.
LEMMA RefreshedKeepsMarks ==
  ASSUME \A p \in Authored : p \in DOMAIN entries /\ entries[p].authored,
         GoMod \notin Authored, GoSum \notin Authored, entries' = Refreshed
  PROVE  \A p \in Authored : p \in DOMAIN entries' /\ entries'[p].authored
<1> SUFFICES ASSUME NEW p \in Authored
             PROVE  p \in DOMAIN entries' /\ entries'[p].authored
  OBVIOUS
<1>1. entries'[p] = entries[p] /\ p \in DOMAIN entries'
  BY DEF Refreshed
<1> QED
  BY <1>1

\* What leaves the provider's files, the manifest and what is to be written alone.
LEMMA OwnedIdle ==
  ASSUME Owned, UNCHANGED <<doc, tree, entries>>, todo' \subseteq todo, drop' \subseteq drop,
         pc' \in Installing => pc \in Installing
  PROVE  Owned'
BY DEF Owned, AuthoredUntouched, Installing

\* Writing a path that is not authored leaves the authored ones.
LEMMA WithKeeps ==
  ASSUME NEW f, NEW q, NEW c, NEW p, p \in DOMAIN f, p # q
  PROVE  p \in DOMAIN With(f, q, c) /\ With(f, q, c)[p] = f[p]
BY DEF With

\* A hand edit touches no file its owner has marked as authored.
LEMMA OwnedEdit ==
  ASSUME Owned, NEW p, Edit(p)
  PROVE  Owned'
<1>1. p \notin Authored /\ tree' = Changed(tree, {p}, "edited")
  BY DEF Edit
<1>2. \A q \in Authored : q \in DOMAIN tree' /\ tree'[q] = tree[q]
  BY <1>1 DEF Changed, Owned, AuthoredUntouched
<1>3. AuthoredUntouched'
  BY <1>2 DEF Owned, AuthoredUntouched
<1> QED
  BY <1>3 DEF Owned, Edit, manifest, work, Installing

\* Every step keeps authored files, and their marks.
LEMMA OwnedStep == Owned /\ [Next]_vars => Owned'
<1> SUFFICES ASSUME Owned, [Next]_vars PROVE Owned'
  OBVIOUS
<1> USE DEF manifest, work, Installing
<1>0. SdkOf[doc] \cap Authored = {} /\ GoMod \notin Authored /\ GoSum \notin Authored
  BY OwnedApart DEF Owned
<1>1. CASE \E d \in Docs : Revise(d)
  BY <1>1 DEF Revise, Owned, AuthoredUntouched
<1>2. CASE \E p \in SdkFiles \cup ProviderFiles : Edit(p)
  BY <1>2, OwnedEdit
<1>3. CASE StepFails \/ SaveFails \/ Crash \/ InstallFails \/ RemovalFails \/ BuildFails
  BY <1>3, OwnedIdle DEF StepFails, SaveFails, Crash, InstallFails, RemovalFails, BuildFails, Stops
<1>4. CASE SdkGenerate \/ Clear \/ Park \/ Install \/ Unpark
  BY <1>4, OwnedIdle DEF SdkGenerate, Begins, Clear, Park, Install, Unpark
<1>5. CASE SdkSave
  <2>1. \A p \in Authored : p \in DOMAIN entries' /\ entries'[p].authored
    <3>1. DOMAIN SdkWanted \cap Authored = {}
      BY <1>0 DEF SdkWanted
    <3> QED
      BY <1>5, <3>1, RecordedKeepsMarks DEF SdkSave, Owned
  <2> QED
    BY <1>5, <2>1 DEF SdkSave, Owned, AuthoredUntouched
<1>6. CASE ProviderGenerate
  <2>1. ProviderOf[doc] \cap Authored = {}
    BY <1>6 DEF ProviderGenerate, MayWrite, Owned
  <2>2. Unproduced \cap Authored = {}
    BY DEF Unproduced, OwnFiles, Owned
  <2> QED
    BY <1>6, <2>1, <2>2 DEF ProviderGenerate, Begins, Owned, AuthoredUntouched
<1>7. CASE \E p \in ProviderFiles : InstallFile(p) \/ RemoveFile(p) \/ LeaveFile(p)
  <2>1. PICK p \in ProviderFiles : InstallFile(p) \/ RemoveFile(p) \/ LeaveFile(p)
    BY <1>7
  <2>2. CASE InstallFile(p)
    <3>1. p \notin Authored /\ tree' = With(tree, p, ProviderWanted[p])
      BY <2>2 DEF InstallFile, Owned
    <3>2. \A q \in Authored : q \in DOMAIN tree' /\ tree'[q] = tree[q]
      BY <3>1, WithKeeps DEF Owned, AuthoredUntouched
    <3> QED
      BY <2>2, <3>2 DEF InstallFile, Owned, AuthoredUntouched
  <2>3. CASE RemoveFile(p)
    <3>1. p \notin Authored /\ tree' = Only(tree, DOMAIN tree \ {p})
      BY <2>3 DEF RemoveFile, Owned
    <3>2. \A q \in Authored : q \in DOMAIN tree' /\ tree'[q] = tree[q]
      BY <3>1 DEF Only, Restrict, Owned, AuthoredUntouched
    <3> QED
      BY <2>3, <3>2 DEF RemoveFile, Owned, AuthoredUntouched
  <2>4. CASE LeaveFile(p)
    BY <2>4, OwnedIdle DEF LeaveFile
  <2> QED
    BY <2>1, <2>2, <2>3, <2>4
<1>8. CASE AllRemoved \/ SkipVerification \/ Build
  BY <1>8, OwnedIdle DEF AllRemoved, SkipVerification, Build
<1>9. CASE ProviderSave
  <2>1. \A p \in Authored : p \in DOMAIN entries' /\ entries'[p].authored
    <3>1. DOMAIN ProviderWanted \cap Authored = {}
      BY <1>9 DEF ProviderWanted, ProviderSave, Owned
    <3> QED
      BY <1>9, <3>1, RecordedKeepsMarks DEF ProviderSave, Owned
  <2> QED
    BY <1>9, <2>1 DEF ProviderSave, Owned, AuthoredUntouched
<1>10. CASE Tidy
  <2>1. tree' = With(With(tree, GoMod, Tidied), GoSum, Tidied)
    BY <1>10 DEF Tidy
  <2>2. \A q \in Authored : q \in DOMAIN tree' /\ tree'[q] = tree[q]
    <3> SUFFICES ASSUME NEW q \in Authored PROVE q \in DOMAIN tree' /\ tree'[q] = tree[q]
      OBVIOUS
    <3>1. q \in DOMAIN tree /\ q # GoMod /\ q # GoSum
      BY <1>0 DEF Owned, AuthoredUntouched
    <3>2. q \in DOMAIN With(tree, GoMod, Tidied) /\ With(tree, GoMod, Tidied)[q] = tree[q]
      BY <3>1, WithKeeps
    <3> QED
      BY <2>1, <3>1, <3>2, WithKeeps
  <2> QED
    BY <1>10, <2>2 DEF Tidy, Owned, AuthoredUntouched
<1>11. CASE Refresh
  <2>1. \A p \in Authored : p \in DOMAIN entries' /\ entries'[p].authored
    BY <1>11, <1>0, RefreshedKeepsMarks DEF Refresh, Owned
  <2> QED
    BY <1>11, <2>1 DEF Refresh, Owned, AuthoredUntouched
<1>12. CASE UNCHANGED vars
  BY <1>12, OwnedIdle DEF vars
<1> QED
  BY <1>1, <1>2, <1>3, <1>4, <1>5, <1>6, <1>7, <1>8, <1>9, <1>10, <1>11, <1>12 DEF Next

\* No sequence of generations, interrupted or not, writes or removes a file that a
\* person owns: the marks outlive every rewriting of the manifest.
THEOREM AuthoredFilesUntouched == Spec => []AuthoredUntouched
<1>1. Owned => AuthoredUntouched
  BY DEF Owned
<1> QED
  BY <1>1, OwnedInit, OwnedStep, PTL DEF Spec

-----------------------------------------------------------------------------
(***************************************************************************)
(* The SDK's tree.                                                         *)
(***************************************************************************)
\* f is some of what the backend generates from d.
PartOf(f, d) == DOMAIN f \subseteq SdkOf[d] /\ \A p \in DOMAIN f : f[p].doc = d

\* The tree in place is whole, and the parked one is all that holds it between the
\* two renames only.
SwapInv ==
  /\ doc \in Docs
  /\ DOMAIN out # {} => Whole(out)
  /\ \E d \in Docs : PartOf(parked, d)
  /\ pc = "park" => DOMAIN parked = {}
  /\ pc = "install" => DOMAIN out = {} /\ (DOMAIN parked # {} => Whole(parked))
  /\ pc = "unpark" => DOMAIN out # {}

\* There is nothing in no tree.
LEMMA EmptyTree == DOMAIN NoTree = {}
BY DEF NoTree

\* A tree without files is not whole, and a whole one is of one document.
LEMMA WholeOfOne ==
  /\ \A f : Whole(f) => DOMAIN f # {} /\ \E d \in Docs : PartOf(f, d)
  /\ \A f, d : d \in Docs /\ PartOf(f, d) /\ DOMAIN f # {} => DocOf(f) = d
  /\ \A f, d : d \in Docs /\ PartOf(f, d) /\ DOMAIN f = SdkOf[d] => Whole(f)
  /\ \A f, d : d \in Docs /\ PartOf(f, d) /\ Whole(f) => DOMAIN f = SdkOf[d]
<1>1. \A d \in Docs : SdkOf[d] # {}
  BY TreeAssumption
<1>2. ASSUME NEW f, Whole(f) PROVE DOMAIN f # {} /\ \E d \in Docs : PartOf(f, d)
  BY <1>1, <1>2 DEF Whole, PartOf
<1>3. ASSUME NEW f, NEW d \in Docs, PartOf(f, d), DOMAIN f # {} PROVE DocOf(f) = d
  BY <1>3 DEF PartOf, DocOf
<1>4. ASSUME NEW f, NEW d \in Docs, PartOf(f, d), DOMAIN f = SdkOf[d] PROVE Whole(f)
  BY <1>4 DEF PartOf, Whole
<1>5. ASSUME NEW f, NEW d \in Docs, PartOf(f, d), Whole(f) PROVE DOMAIN f = SdkOf[d]
  <2>1. PICK e \in Docs : DOMAIN f = SdkOf[e] /\ \A p \in DOMAIN f : f[p].doc = e
    BY <1>5 DEF Whole
  <2>2. PICK p \in DOMAIN f : TRUE
    BY <1>1, <2>1
  <2>3. d = e
    BY <1>5, <2>1, <2>2 DEF PartOf
  <2> QED
    BY <2>1, <2>3
<1> QED
  BY <1>2, <1>3, <1>4, <1>5

\* What is generated is whole.
LEMMA WantedIsWhole ==
  ASSUME doc \in Docs
  PROVE  Whole(SdkWanted) /\ DOMAIN SdkWanted # {} /\ DocOf(SdkWanted) = doc
<1>1. DOMAIN SdkWanted = SdkOf[doc] /\ SdkOf[doc] # {}
  BY TreeAssumption DEF SdkWanted
<1>2. \A p \in DOMAIN SdkWanted : SdkWanted[p].doc = doc
  BY DEF SdkWanted, Emitted
<1>3. PartOf(SdkWanted, doc)
  BY <1>1, <1>2 DEF PartOf
<1> QED
  BY <1>1, <1>3, WholeOfOne

\* A hand edit leaves a tree the tree of its document.
LEMMA ChangedIsOf ==
  ASSUME NEW f, NEW S, NEW state
  PROVE  /\ DOMAIN Changed(f, S, state) = DOMAIN f
         /\ \A d \in Docs : PartOf(f, d) => PartOf(Changed(f, S, state), d)
<1>1. DOMAIN Changed(f, S, state) = DOMAIN f
  BY DEF Changed
<1>2. \A p \in DOMAIN f : Changed(f, S, state)[p].doc = f[p].doc
  BY DEF Changed
<1> QED
  BY <1>1, <1>2 DEF PartOf

\* What removing some of a tree's files leaves is of the same document.
LEMMA OnlyIsOf ==
  ASSUME NEW f, NEW S
  PROVE  /\ DOMAIN Only(f, S) \subseteq DOMAIN f
         /\ \A d \in Docs : PartOf(f, d) => PartOf(Only(f, S), d)
<1>1. DOMAIN Only(f, S) \subseteq DOMAIN f
  BY DEF Only, Restrict
<1>2. \A p \in DOMAIN Only(f, S) : Only(f, S)[p] = f[p]
  BY DEF Only, Restrict
<1> QED
  BY <1>1, <1>2 DEF PartOf

\* There is no tree in the first repository.
LEMMA SwapInit == Init => SwapInv /\ Replacement!Init
<1> SUFFICES ASSUME Init PROVE SwapInv /\ Replacement!Init
  OBVIOUS
<1>1. doc \in Docs /\ DOMAIN out = {} /\ DOMAIN parked = {} /\ pc = "rest"
  BY EmptyTree DEF Init
<1>2. PartOf(parked, doc)
  BY <1>1 DEF PartOf
<1>3. ~Exposed /\ Standing = out
  BY <1>1 DEF Exposed, Standing
<1>4. ~Whole(out)
  BY <1>1, WholeOfOne
<1> QED
  BY <1>1, <1>2, <1>3, <1>4 DEF SwapInv, Replacement!Init, Value, Stage

\* Each step is a step of AtomicTree or, there, none.
Still == Value' = Value /\ Stage' = Stage
Maps  == Replacement!Next \/ Still

\* A step that touches neither directory and is not one of the swap's is none.
LEMMA StillMaps ==
  ASSUME SwapInv, UNCHANGED <<out, parked>>, doc' \in Docs, pc # "clear",
         pc' \notin {"clear", "park", "install", "unpark"}
  PROVE  SwapInv' /\ Maps
<1>1. SwapInv'
  BY DEF SwapInv, PartOf, Whole
<1>2. Still
  BY DEF Still, Value, Stage, Standing, Exposed, Whole, DocOf
<1> QED
  BY <1>1, <1>2 DEF Maps

\* A hand edit changes no tree's document.
LEMMA EditMaps ==
  ASSUME SwapInv, NEW p, Edit(p)
  PROVE  SwapInv' /\ Maps
<1>1. /\ out' = Changed(out, {p}, "edited") /\ DOMAIN out' = DOMAIN out
      /\ parked' = parked /\ doc' = doc /\ pc' = pc /\ pc = "rest"
  BY ChangedIsOf DEF Edit
<1>2. \A d \in Docs : PartOf(out, d) => PartOf(out', d)
  BY <1>1, ChangedIsOf
<1>3. CASE DOMAIN out = {}
  <2>1. ~Whole(out) /\ ~Whole(out')
    BY <1>1, <1>3, WholeOfOne
  <2>2. Still
    BY <1>1, <1>3, <2>1 DEF Still, Value, Stage, Standing, Exposed, Whole, DocOf
  <2>3. SwapInv'
    BY <1>1, <1>3 DEF SwapInv, PartOf, Whole
  <2> QED
    BY <2>2, <2>3 DEF Maps
<1>4. CASE DOMAIN out # {}
  <2>1. Whole(out)
    BY <1>4 DEF SwapInv
  <2>2. PICK d \in Docs : PartOf(out, d)
    BY <2>1, WholeOfOne
  <2>3. DOMAIN out = SdkOf[d] /\ PartOf(out', d)
    BY <1>2, <2>1, <2>2, WholeOfOne
  <2>4. Whole(out') /\ DocOf(out) = d /\ DocOf(out') = d
    BY <1>1, <1>4, <2>2, <2>3, WholeOfOne
  <2>5. Still
    BY <1>1, <1>4, <2>1, <2>4 DEF Still, Value, Stage, Standing, Exposed
  <2>6. SwapInv'
    BY <1>1, <2>4 DEF SwapInv, PartOf, Whole
  <2> QED
    BY <2>5, <2>6 DEF Maps
<1> QED
  BY <1>3, <1>4

\* A run begins, and with it the risk to a tree that only the parked copy holds.
LEMMA BeginMaps ==
  ASSUME SwapInv, UNCHANGED <<out, parked, doc>>,
         \/ pc = "rest" /\ pc' = "clear"
         \/ pc = "clear" /\ pc' = "rest"
  PROVE  SwapInv' /\ Maps
<1>1. SwapInv'
  BY DEF SwapInv, PartOf, Whole
<1>2. Value' = Value
  BY DEF Value, Standing, Exposed, Whole, DocOf
<1>3. CASE Exposed
  <2>1. <<Stage, Stage'>> \in {<<"exposed", "risk">>, <<"risk", "exposed">>}
    BY <1>3 DEF Stage, Exposed
  <2> QED
    BY <1>1, <1>2, <2>1 DEF Maps, Replacement!Next, Replacement!Move
<1>4. CASE ~Exposed
  <2>1. Stage' = Stage
    BY <1>4 DEF Stage, Exposed
  <2> QED
    BY <1>1, <1>2, <2>1 DEF Maps, Still
<1> QED
  BY <1>3, <1>4

\* Removing the parked files, all or some, takes a tree away at risk only.
LEMMA RemovalMaps ==
  ASSUME SwapInv, NEW S, parked' = NoTree \/ parked' = Only(parked, S),
         UNCHANGED <<doc, out>>, pc \in {"clear", "unpark"},
         pc' \in {"rest", "park", "sdkSave"}, pc' = "park" => parked' = NoTree
  PROVE  SwapInv' /\ Maps
<1>1. DOMAIN parked' \subseteq DOMAIN parked /\ \A d \in Docs : PartOf(parked, d) => PartOf(parked', d)
  BY EmptyTree, OnlyIsOf DEF PartOf
<1>2. SwapInv'
  BY <1>1, EmptyTree DEF SwapInv, PartOf, Whole
<1>3. CASE DOMAIN out # {}
  <2>1. ~Exposed /\ ~Exposed' /\ Standing = out /\ Standing' = out
    BY <1>3 DEF Exposed, Standing
  <2> QED
    BY <1>2, <2>1 DEF Maps, Still, Value, Stage, Whole, DocOf
<1>4. CASE DOMAIN out = {} /\ DOMAIN parked = {}
  <2>1. ~Exposed /\ ~Exposed' /\ Standing = out /\ Standing' = out
    BY <1>1, <1>4 DEF Exposed, Standing
  <2> QED
    BY <1>2, <2>1 DEF Maps, Still, Value, Stage, Whole, DocOf
<1>5. CASE DOMAIN out = {} /\ DOMAIN parked # {}
  <2>1. pc = "clear" /\ Stage = "risk" /\ Standing = parked /\ pc' # "clear"
    BY <1>5 DEF SwapInv, Stage, Exposed, Standing
  <2>2. Stage' \in {"held", "exposed"}
    BY <2>1 DEF Stage
  <2>3. CASE ~Whole(Standing)'
    <3>1. Value' = NoDoc
      BY <2>3 DEF Value, Whole
    <3> QED
      BY <1>2, <2>1, <2>2, <3>1 DEF Maps, Replacement!Next, Replacement!Lose, Replacement!Stages
  <2>4. CASE Whole(Standing)'
    <3>1. Standing' = parked' /\ DOMAIN parked' # {} /\ Whole(parked') /\ Stage' = "exposed"
      <4>1. Standing' = out' => Standing' = out
        OBVIOUS
      <4>2. ~Whole(out)
        BY <1>5, WholeOfOne
      <4>3. Whole(Standing')
        BY <2>4 DEF Whole
      <4>4. Exposed' /\ Standing' = parked'
        BY <4>1, <4>2, <4>3 DEF Standing
      <4> QED
        BY <2>1, <4>3, <4>4, WholeOfOne DEF Stage
    <3>2. PICK d \in Docs : PartOf(parked, d)
      BY DEF SwapInv
    <3>3. PartOf(parked', d) /\ DOMAIN parked' = SdkOf[d]
      BY <1>1, <3>1, <3>2, WholeOfOne
    <3>4. DOMAIN parked = SdkOf[d]
      BY <1>1, <3>2, <3>3 DEF PartOf
    <3>5. Whole(parked) /\ DocOf(parked) = d /\ DocOf(parked') = d
      BY <1>5, <3>1, <3>2, <3>3, <3>4, WholeOfOne
    <3>6. Value' = d /\ Value = d
      <4>1. Value = d
        BY <2>1, <3>5 DEF Value
      <4>2. Value' = (IF Whole(Standing') THEN DocOf(Standing') ELSE NoDoc)
        BY DEF Value, Whole, DocOf
      <4> QED
        BY <3>1, <3>5, <4>1, <4>2
    <3> QED
      BY <1>2, <2>1, <3>1, <3>6 DEF Maps, Replacement!Next, Replacement!Move
  <2> QED
    BY <2>3, <2>4
<1> QED
  BY <1>3, <1>4, <1>5

\* A tree that has no files is the tree of no document.
LEMMA NothingStands ==
  ASSUME DOMAIN out = {}, DOMAIN parked = {}
  PROVE  Stage = "held" /\ Value = NoDoc
<1>1. ~Exposed /\ Standing = out /\ ~Whole(out)
  BY WholeOfOne DEF Exposed, Standing
<1> QED
  BY <1>1 DEF Stage, Value

\* Parking the tree in place exposes it.
LEMMA ParkMaps ==
  ASSUME SwapInv, Park
  PROVE  SwapInv' /\ Maps
<1>1. /\ DOMAIN parked = {} /\ parked' = out /\ DOMAIN out' = {}
      /\ pc = "park" /\ pc' = "install" /\ doc' = doc
  BY EmptyTree DEF SwapInv, Park
<1>2. CASE DOMAIN out = {}
  <2>1. Stage = "held" /\ Value = NoDoc
    BY <1>1, <1>2, NothingStands
  <2>2. Stage' = "held"
    BY <1>1, <1>2 DEF Stage, Exposed
  <2>3. Value' = NoDoc
    <3>1. Standing' = out' /\ ~Whole(out')
      BY <1>1, <1>2, WholeOfOne DEF Standing, Exposed
    <3>2. Value' = (IF Whole(Standing') THEN DocOf(Standing') ELSE NoDoc)
      BY DEF Value, Whole, DocOf
    <3> QED
      BY <3>1, <3>2
  <2>4. SwapInv'
    BY <1>1, <1>2 DEF SwapInv, PartOf, Whole
  <2> QED
    BY <2>1, <2>2, <2>3, <2>4 DEF Maps, Still
<1>3. CASE DOMAIN out # {}
  <2>1. Whole(out)
    BY <1>3 DEF SwapInv
  <2>2. Standing = out /\ Stage = "held"
    BY <1>3 DEF Standing, Exposed, Stage
  <2>3. Standing' = out /\ Stage' = "exposed"
    BY <1>1, <1>3 DEF Standing, Exposed, Stage
  <2>4. Value' = Value
    BY <2>2, <2>3 DEF Value, Whole, DocOf
  <2>5. SwapInv'
    <3>1. \E d \in Docs : PartOf(out, d)
      BY <2>1, WholeOfOne
    <3>2. (\E d \in Docs : PartOf(parked, d))'
      BY <1>1, <3>1 DEF PartOf
    <3>3. Whole(parked)'
      BY <1>1, <2>1 DEF Whole
    <3> QED
      BY <1>1, <3>2, <3>3 DEF SwapInv
  <2> QED
    BY <2>2, <2>3, <2>4, <2>5 DEF Maps, Replacement!Next, Replacement!Move
<1> QED
  BY <1>2, <1>3

\* The second rename is the abstract replacement's one step.
LEMMA InstallMaps ==
  ASSUME SwapInv, Install
  PROVE  SwapInv' /\ Maps
<1>1. /\ out' = SdkWanted /\ parked' = parked /\ doc' = doc
      /\ pc = "install" /\ pc' = "unpark" /\ doc \in Docs
  BY DEF SwapInv, Install
<1>2. Whole(out') /\ DOMAIN out' # {} /\ DocOf(out') = doc
  BY <1>1, WantedIsWhole
<1>3. Stage # "risk"
  BY <1>1 DEF Stage
<1>4. Stage' = "held" /\ Standing' = out'
  BY <1>2 DEF Stage, Exposed, Standing
<1>5. Value' = doc
  <2>1. Value' = (IF Whole(Standing') THEN DocOf(Standing') ELSE NoDoc)
    BY DEF Value, Whole, DocOf
  <2> QED
    BY <1>2, <1>4, <2>1
<1>6. SwapInv'
  BY <1>1, <1>2 DEF SwapInv, PartOf, Whole
<1> QED
  BY <1>1, <1>3, <1>4, <1>5, <1>6 DEF Maps, Replacement!Next, Replacement!Replace

\* A second rename that fails puts the parked tree back, or leaves it exposed.
LEMMA InstallFailsMaps ==
  ASSUME SwapInv, InstallFails
  PROVE  SwapInv' /\ Maps
<1>1. pc = "install" /\ pc' = "rest" /\ doc' = doc /\ doc \in Docs /\ DOMAIN out = {}
  BY DEF SwapInv, InstallFails, Stops
<1>2. CASE UNCHANGED <<out, parked>>
  BY <1>1, <1>2, StillMaps
<1>3. CASE out' = parked /\ parked' = NoTree
  <2>1. DOMAIN parked' = {}
    BY <1>3, EmptyTree
  <2>2. DOMAIN parked # {} => Whole(parked)
    BY <1>1 DEF SwapInv
  <2>3. SwapInv'
    <3>1. (\E d \in Docs : PartOf(parked, d))'
      BY <1>1, <2>1 DEF PartOf
    <3>2. DOMAIN out' # {} => Whole(out')
      BY <1>3, <2>2
    <3>3. (DOMAIN out # {} => Whole(out))'
      BY <3>2 DEF Whole
    <3> QED
      BY <1>1, <3>1, <3>3 DEF SwapInv
  <2>4. CASE DOMAIN parked = {}
    <3>1. Stage = "held" /\ Value = NoDoc
      BY <1>1, <2>4, NothingStands
    <3>2. Stage' = "held" /\ Standing' = out' /\ ~Whole(out')
      BY <1>3, <2>1, <2>4, WholeOfOne DEF Stage, Exposed, Standing
    <3>3. Value' = (IF Whole(Standing') THEN DocOf(Standing') ELSE NoDoc)
      BY DEF Value, Whole, DocOf
    <3> QED
      BY <2>3, <3>1, <3>2, <3>3 DEF Maps, Still
  <2>5. CASE DOMAIN parked # {}
    <3>1. Standing = parked /\ Stage = "exposed"
      BY <1>1, <2>5 DEF Standing, Exposed, Stage
    <3>2. Standing' = parked /\ Stage' = "held"
      BY <1>3, <2>1, <2>5 DEF Standing, Exposed, Stage
    <3>3. Value' = Value
      BY <3>1, <3>2 DEF Value, Whole, DocOf
    <3> QED
      BY <2>3, <3>1, <3>2, <3>3 DEF Maps, Replacement!Next, Replacement!Move
  <2> QED
    BY <2>4, <2>5
<1> QED
  BY <1>2, <1>3 DEF InstallFails

\* Every step keeps the invariant and is a step of AtomicTree's or none.
LEMMA SwapStep == SwapInv /\ [Next]_vars => SwapInv' /\ [Replacement!Next]_Replacement!vars
<1> SUFFICES ASSUME SwapInv, [Next]_vars PROVE SwapInv' /\ Maps
  <2>1. Maps => [Replacement!Next]_Replacement!vars
    BY DEF Maps, Still, Replacement!vars
  <2> QED
    BY <2>1
<1>0. doc \in Docs
  BY DEF SwapInv
<1> USE DEF manifest, work
<1>1. CASE \E d \in Docs : Revise(d)
  BY <1>1, StillMaps DEF Revise
<1>2. CASE \E p \in SdkFiles \cup ProviderFiles : Edit(p)
  BY <1>2, EditMaps
<1>3. CASE StepFails \/ SaveFails \/ BuildFails
  BY <1>0, <1>3, StillMaps DEF StepFails, SaveFails, BuildFails, Stops
<1>4. CASE Crash
  <2>1. CASE pc = "clear"
    BY <1>4, <2>1, BeginMaps DEF Crash, Stops
  <2>2. CASE pc # "clear"
    BY <1>0, <1>4, <2>2, StillMaps DEF Crash, Stops
  <2> QED
    BY <2>1, <2>2
<1>5. CASE SdkGenerate
  <2>1. pc = "rest" /\ pc' = "clear"
    BY <1>5 DEF SdkGenerate, Begins
  <2>2. UNCHANGED <<out, parked, doc>>
    BY <1>5 DEF SdkGenerate
  <2> QED
    BY <2>1, <2>2, BeginMaps
<1>6. CASE Clear \/ Unpark
  BY <1>6, RemovalMaps DEF Clear, Unpark
<1>7. CASE RemovalFails
  BY <1>7, RemovalMaps DEF RemovalFails, Stops
<1>8. CASE Park
  BY <1>8, ParkMaps
<1>9. CASE Install
  BY <1>9, InstallMaps
<1>10. CASE InstallFails
  BY <1>10, InstallFailsMaps
<1>11. CASE SdkSave \/ ProviderGenerate \/ AllRemoved \/ ProviderSave
  BY <1>0, <1>11, StillMaps DEF SdkSave, ProviderGenerate, Begins, AllRemoved, ProviderSave
<1>12. CASE \E p \in ProviderFiles : InstallFile(p) \/ RemoveFile(p) \/ LeaveFile(p)
  BY <1>0, <1>12, StillMaps DEF InstallFile, RemoveFile, LeaveFile
<1>13. CASE SkipVerification \/ Tidy \/ Build \/ Refresh
  BY <1>0, <1>13, StillMaps DEF SkipVerification, Tidy, Build, Refresh
<1>14. CASE UNCHANGED vars
  <2>1. SwapInv'
    BY <1>14 DEF vars, SwapInv, PartOf, Whole
  <2>2. Still
    BY <1>14 DEF vars, Still, Value, Stage, Standing, Exposed, Whole, DocOf
  <2> QED
    BY <2>1, <2>2 DEF Maps
<1> QED
  BY <1>1, <1>2, <1>3, <1>4, <1>5, <1>6, <1>7, <1>8, <1>9, <1>10, <1>11, <1>12, <1>13, <1>14 DEF Next

\* `sdk generate`'s two renames, with every way they are interrupted, implement the
\* replacement AtomicTree promises: a tree is lost nowhere but where it loses one.
THEOREM SwapImplementsReplacement == Spec => SwapIsAtomic
<1> QED
  BY SwapInit, SwapStep, PTL DEF Spec, SwapIsAtomic, Replacement!Spec

-----------------------------------------------------------------------------
(***************************************************************************)
(* What the drift gates and the manifest say after any sequence of         *)
(* generations, failures, kills, revisions and hand edits.                 *)
(***************************************************************************)
SdkSteps      == {"clear", "park", "install", "unpark", "sdkSave"}
ProviderSteps == {"provider", "remove", "providerSave", "tidy", "build", "refresh"}
Saved         == {"tidy", "build", "refresh"}

\* What is where, and who recorded it.
Places ==
  /\ DOMAIN out \cup DOMAIN parked \subseteq SdkFiles
  /\ DOMAIN tree \subseteq ProviderFiles \cup Authored
  /\ DOMAIN entries \subseteq SdkFiles \cup ProviderFiles \cup Authored
  /\ todo \subseteq ProviderOf[doc] /\ (pc # "provider" => todo = {})
  /\ drop \cap ProviderOf[doc] = {} /\ (pc \notin {"provider", "remove"} => drop = {})

Shaped ==
  \A p \in DOMAIN entries :
    entries[p] = [digest |-> entries[p].digest, origin |-> entries[p].origin,
                  authored |-> entries[p].authored]

Origins ==
  \A p \in DOMAIN entries \ Authored :
    /\ ~entries[p].authored
    /\ p \in SdkFiles => entries[p].origin = "sdk"
    /\ p \in ProviderFiles \ {GoSum} => entries[p].origin = "provider"
    /\ p = GoSum => entries[p].origin = "toolchain"

\* How far a run has got.
UnderWay ==
  /\ pc \in Points /\ done = [v \in Verbs |-> done[v]]
  /\ pc \in SdkSteps => done["sdk"] = NoRun
  /\ pc \in {"unpark", "sdkSave"} => out = SdkWanted
  /\ pc \in ProviderSteps =>
       /\ done["provider"] = NoRun
       /\ \A p \in ProviderOf[doc] \ todo :
            p \in DOMAIN tree /\ (tree[p] = ProviderWanted[p] \/ (p = GoMod /\ tree[p] = Tidied))
  /\ pc \in Saved =>
       /\ \A p \in ProviderOf[doc] : p \in DOMAIN entries /\ entries[p].digest = ProviderWanted[p]
       /\ \A p \in DOMAIN entries : entries[p].origin = "provider" /\ ~entries[p].authored => p \in ProviderOf[doc]

\* A record of the rewritten file is never one of an edit.
ModKept == GoMod \in DOMAIN entries => entries[GoMod].digest.state # "edited"

\* What a success left, and what has become of it since.
SdkOutcome ==
  \A d \in Docs : done["sdk"] = <<d, d>> =>
    /\ DOMAIN out = SdkOf[d]
    /\ \A p \in SdkOf[d] : /\ out[p] = Emitted(d, d) \/ out[p].state = "edited"
                           /\ p \in DOMAIN entries => entries[p].digest = Emitted(d, d)

ProviderOutcome ==
  \A d \in Docs : \A s : done["provider"] = <<d, s>> =>
    /\ \A p \in ProviderOf[d] :
         /\ p \in DOMAIN tree /\ p \in DOMAIN entries
         /\ \/ tree[p].state = "edited"
            \/ /\ p # GoMod => tree[p] = Emitted(d, s)
               /\ entries[p].digest = tree[p]
    /\ \A p \in DOMAIN entries : entries[p].origin = "provider" /\ ~entries[p].authored => p \in ProviderOf[d]

\* Which files the manifest has yet to account for, at each step.
Accounts ==
  ~strayed =>
    /\ pc \notin {"unpark", "sdkSave"} => DOMAIN out \subseteq DOMAIN entries
    /\ pc = "install" => DOMAIN parked \subseteq DOMAIN entries
    /\ pc \in {"provider", "remove", "providerSave"} =>
         /\ DOMAIN tree \subseteq DOMAIN entries \cup ProviderOf[doc]
         /\ Unproduced \subseteq drop
    /\ pc \in {"build", "refresh"} => DOMAIN tree \subseteq DOMAIN entries \cup {GoSum}
    /\ pc \in {"rest", "tidy"} \cup SdkSteps => DOMAIN tree \subseteq DOMAIN entries

Books == /\ Owned /\ Places /\ Shaped /\ Origins /\ UnderWay /\ ModKept
         /\ SdkOutcome /\ ProviderOutcome /\ Accounts

-----------------------------------------------------------------------------
LEMMA BooksInit == Init => Books
<1> SUFFICES ASSUME Init PROVE Books
  OBVIOUS
<1>1. Owned
  BY OwnedInit
<1>2. DOMAIN out = {} /\ DOMAIN parked = {} /\ DOMAIN tree = Authored /\ DOMAIN entries = Authored
      /\ pc = "rest" /\ todo = {} /\ drop = {} /\ done = [v \in Verbs |-> NoRun]
  BY EmptyTree DEF Init
<1>3. Places /\ Origins
  BY <1>2 DEF Places, Origins
<1>31. Shaped
  BY DEF Init, Shaped
<1>4. UnderWay
  BY <1>2 DEF UnderWay, SdkSteps, ProviderSteps, Saved, Points, Verbs
<1>5. ModKept
  BY <1>2, TreeAssumption DEF ModKept
<1>6. SdkOutcome /\ ProviderOutcome
  BY <1>2, TreeAssumption DEF SdkOutcome, ProviderOutcome, NoRun, Verbs
<1>7. Accounts
  BY <1>2 DEF Accounts
<1>8. QED
  BY <1>1, <1>3, <1>31, <1>4, <1>5, <1>6, <1>7 DEF Books

\* The paths of the two verbs, and a person's, are apart.
LEMMA PathsApart ==
  ASSUME NEW d \in Docs
  PROVE  /\ SdkOf[d] \subseteq SdkFiles /\ ProviderOf[d] \subseteq ProviderFiles \ {GoSum}
         /\ SdkFiles \cap (ProviderFiles \cup Authored) = {}
         /\ GoMod \in ProviderOf[d] /\ GoMod \notin Authored /\ GoSum \notin Authored
         /\ GoMod # GoSum /\ GoSum \in ProviderFiles /\ NoDoc \notin Docs
<1>1. SdkOf[d] \subseteq SdkFiles /\ ProviderOf[d] \subseteq ProviderFiles
  BY DEF SdkFiles, ProviderFiles
<1>2. GoSum \in ProviderFiles
  BY DEF ProviderFiles
<1>3. /\ GoMod \in ProviderOf[d] /\ GoSum \notin ProviderOf[d]
      /\ GoMod \notin Authored /\ GoSum \notin Authored
      /\ SdkFiles \cap (ProviderFiles \cup Authored) = {} /\ NoDoc \notin Docs
  BY TreeAssumption
<1>4. QED
  BY <1>1, <1>2, <1>3

\* What a run of the provider wants is fixed while the document and the SDK stand.
LEMMA SameWanted ==
  ASSUME UNCHANGED <<doc, out>>
  PROVE  ProviderWanted' = ProviderWanted /\ Tidied' = Tidied /\ SdkWanted' = SdkWanted
  BY DEF ProviderWanted, Tidied, SdkDoc, SdkWanted

\* A run that stops leaves what it had not recorded unaccounted for.
LEMMA StopsBooks ==
  ASSUME Books, Owned', Stops, UNCHANGED <<tree, entries>>, pc # "rest",
         \/ UNCHANGED out
         \/ pc = "install" /\ out' = parked,
         DOMAIN parked' \subseteq DOMAIN parked
  PROVE  Books'
<1>1. pc' = "rest" /\ todo' = {} /\ drop' = {} /\ UNCHANGED <<doc, done>>
      /\ strayed' = (strayed \/ pc \in Unrecorded)
  BY DEF Stops
<1>2. Places'
  BY <1>1 DEF Books, Places
<1>3. Shaped' /\ Origins' /\ ModKept' /\ UnderWay'
  BY <1>1 DEF Books, Shaped, Origins, ModKept, UnderWay, SdkSteps, ProviderSteps, Saved, Points
<1>4. ProviderOutcome'
  BY <1>1 DEF Books, ProviderOutcome
<1>5. SdkOutcome'
  <2>1. CASE UNCHANGED out
    BY <1>1, <2>1 DEF Books, SdkOutcome
  <2>2. CASE pc = "install"
    <3>1. done'["sdk"] = NoRun
      BY <1>1, <2>2 DEF Books, UnderWay, SdkSteps
    <3>2. QED
      BY <3>1, PathsApart DEF SdkOutcome, NoRun
  <2>3. QED
    BY <2>1, <2>2
<1>6. Accounts'
  <2> SUFFICES ASSUME ~strayed, pc \notin Unrecorded
               PROVE  DOMAIN out' \cup DOMAIN tree \subseteq DOMAIN entries
    BY <1>1 DEF Accounts
  <2>1. pc \in {"clear", "park", "install", "tidy"}
    BY DEF Unrecorded, Points, Books, UnderWay
  <2>2. QED
    BY <2>1 DEF Books, Accounts, SdkSteps
<1>7. QED
  BY <1>2, <1>3, <1>4, <1>5, <1>6 DEF Books

\* Every way a run is stopped.
LEMMA StopBooks ==
  ASSUME Books, Owned',
         StepFails \/ SaveFails \/ Crash \/ InstallFails \/ RemovalFails \/ BuildFails
  PROVE  Books'
<1> USE DEF manifest
<1>1. CASE StepFails \/ SaveFails \/ Crash \/ BuildFails
  BY <1>1, StopsBooks DEF StepFails, SaveFails, Crash, BuildFails
<1>2. CASE InstallFails
  BY <1>2, StopsBooks, EmptyTree DEF InstallFails
<1>3. CASE RemovalFails
  <2>1. DOMAIN parked' \subseteq DOMAIN parked
    BY <1>3, OnlyIsOf DEF RemovalFails
  <2>2. QED
    BY <1>3, <2>1, StopsBooks DEF RemovalFails
<1>4. QED
  BY <1>1, <1>2, <1>3

\* Between runs: a revision moves no file, and an edit leaves its mark.
LEMMA BetweenBooks ==
  ASSUME Books, Owned', NEW p, Revise(p) \/ Edit(p)
  PROVE  Books'
<1> USE DEF manifest, work
<1>1. pc = "rest" /\ UNCHANGED <<parked, entries, pc, todo, drop, done, strayed>>
  BY DEF Revise, Edit
<1>2. \A f, q : q \in DOMAIN f =>
        Changed(f, {p}, "edited")[q] = f[q] \/ Changed(f, {p}, "edited")[q].state = "edited"
  BY DEF Changed
<1>3. /\ DOMAIN out' = DOMAIN out /\ DOMAIN tree' = DOMAIN tree
      /\ \A q \in DOMAIN out : out'[q] = out[q] \/ out'[q].state = "edited"
      /\ \A q \in DOMAIN tree : tree'[q] = tree[q] \/ tree'[q].state = "edited"
  BY <1>2, ChangedIsOf DEF Revise, Edit
<1>4. Places'
  BY <1>1, <1>3 DEF Books, Places
<1>5. Shaped' /\ Origins' /\ ModKept' /\ UnderWay'
  BY <1>1 DEF Books, Shaped, Origins, ModKept, UnderWay, SdkSteps, ProviderSteps, Saved
<1>6. SdkOutcome'
  BY <1>1, <1>3 DEF Books, SdkOutcome
<1>7. ProviderOutcome'
  <2> SUFFICES ASSUME NEW d \in Docs, NEW s, done["provider"] = <<d, s>>
               PROVE  /\ \A q \in ProviderOf[d] :
                           /\ q \in DOMAIN tree' /\ q \in DOMAIN entries
                           /\ \/ tree'[q].state = "edited"
                              \/ /\ q # GoMod => tree'[q] = Emitted(d, s)
                                 /\ entries[q].digest = tree'[q]
                      /\ \A q \in DOMAIN entries :
                           entries[q].origin = "provider" /\ ~entries[q].authored => q \in ProviderOf[d]
    BY <1>1 DEF ProviderOutcome
  <2>1. QED
    BY <1>3 DEF Books, ProviderOutcome
<1>8. Accounts'
  BY <1>1, <1>3 DEF Books, Accounts, SdkSteps
<1>9. QED
  BY <1>4, <1>5, <1>6, <1>7, <1>8 DEF Books

-----------------------------------------------------------------------------
\* The steps of the swap, before its save: only the SDK's own directories move.
LEMMA SwapBooks ==
  ASSUME Books, Owned', SdkGenerate \/ Clear \/ Park \/ Install \/ Unpark
  PROVE  Books'
<1> USE DEF manifest, work
<1>1. UNCHANGED <<doc, tree, entries, todo, drop, strayed>> /\ pc \in SdkSteps \cup {"rest"}
      /\ pc' \in SdkSteps
  BY DEF SdkGenerate, Begins, Clear, Park, Install, Unpark, SdkSteps
<1>2. done' = [v \in Verbs |-> done'[v]] /\ done'["sdk"] = NoRun /\ done'["provider"] = done["provider"]
  <2>1. CASE SdkGenerate
    BY <2>1 DEF SdkGenerate, Begins, Books, UnderWay, Verbs
  <2>2. CASE Clear \/ Park \/ Install \/ Unpark
    BY <2>2 DEF Clear, Park, Install, Unpark, Books, UnderWay, SdkSteps
  <2>3. QED
    BY <2>1, <2>2
<1>3. DOMAIN out' \cup DOMAIN parked' \subseteq SdkFiles
  <2>1. DOMAIN SdkWanted \subseteq SdkFiles
    BY PathsApart DEF SdkWanted, Books, Owned
  <2>2. QED
    BY <2>1, EmptyTree DEF SdkGenerate, Clear, Park, Install, Unpark, Books, Places
<1>4. Places'
  BY <1>1, <1>3 DEF Books, Places, SdkSteps
<1>5. Shaped' /\ Origins' /\ ModKept'
  BY <1>1 DEF Books, Shaped, Origins, ModKept
<1>6. pc' \in {"unpark", "sdkSave"} => out' = SdkWanted /\ SdkWanted' = SdkWanted
  <2>1. CASE SdkGenerate \/ Clear \/ Park
    BY <2>1 DEF SdkGenerate, Begins, Clear, Park
  <2>2. CASE Install
    BY <2>2 DEF Install, SdkWanted
  <2>3. CASE Unpark
    BY <2>3 DEF Unpark, SdkWanted, Books, UnderWay
  <2>4. QED
    BY <2>1, <2>2, <2>3
<1>7. UnderWay'
  BY <1>1, <1>2, <1>6 DEF UnderWay, SdkSteps, ProviderSteps, Saved, Points
<1>8. SdkOutcome'
  BY <1>2, PathsApart DEF SdkOutcome, NoRun
<1>9. ProviderOutcome'
  BY <1>1, <1>2 DEF Books, ProviderOutcome
<1>10. Accounts'
  <2> SUFFICES ASSUME ~strayed
               PROVE  /\ pc' \notin {"unpark", "sdkSave"} => DOMAIN out' \subseteq DOMAIN entries
                      /\ pc' = "install" => DOMAIN parked' \subseteq DOMAIN entries
                      /\ DOMAIN tree \subseteq DOMAIN entries
    BY <1>1 DEF Accounts, SdkSteps
  <2>1. DOMAIN tree \subseteq DOMAIN entries
    BY <1>1 DEF Books, Accounts
  <2>2. CASE SdkGenerate \/ Clear
    BY <2>1, <2>2 DEF SdkGenerate, Begins, Clear, Books, Accounts
  <2>3. CASE Park
    BY <2>1, <2>3, EmptyTree DEF Park, Books, Accounts
  <2>4. CASE Install \/ Unpark
    BY <2>1, <2>4 DEF Install, Unpark
  <2>5. QED
    BY <2>2, <2>3, <2>4
<1>11. QED
  BY <1>4, <1>5, <1>7, <1>8, <1>9, <1>10 DEF Books

\* What a save keeps, and what it writes.
LEMMA RecordedIs ==
  ASSUME NEW kept, NEW wanted, NEW origin, entries' = Recorded(kept, wanted, origin)
  PROVE  /\ DOMAIN entries' = kept \cup DOMAIN wanted
         /\ \A p \in DOMAIN wanted :
              entries'[p] = [digest |-> wanted[p], origin |-> origin, authored |-> FALSE]
         /\ \A p \in kept \ DOMAIN wanted : entries'[p] = entries[p]
  BY DEF Recorded

\* Whom an entry is kept for.
LEMMA KeptOf ==
  ASSUME Books, NEW p \in DOMAIN entries
  PROVE  /\ p \in Authored \cup (ProviderFiles \ SdkFiles) => p \in NotOf("sdk")
         /\ p \in Authored \cup SdkFiles \cup {GoSum} => p \in NotOf("provider")
<1>1. p \in Authored => entries[p].authored
  BY DEF Books, Owned
<1>2. p \in ProviderFiles \ Authored => entries[p].origin # "sdk"
  BY DEF Books, Origins
<1>3. p \in (SdkFiles \cup {GoSum}) \ Authored => entries[p].origin # "provider"
  BY DEF Books, Origins
<1>4. QED
  BY <1>1, <1>2, <1>3 DEF NotOf

\* The SDK's save records its tree, and leaves every record of the provider's.
LEMMA SdkSaveBooks ==
  ASSUME Books, Owned', SdkSave
  PROVE  Books'
<1> USE DEF manifest, work
<1>1. /\ pc = "sdkSave" /\ pc' = "rest" /\ entries' = Recorded(NotOf("sdk"), SdkWanted, "sdk")
      /\ done' = [done EXCEPT !["sdk"] = <<doc, doc>>]
      /\ UNCHANGED <<doc, out, parked, tree, todo, drop, strayed>>
  BY DEF SdkSave
<1>2. /\ out = SdkWanted /\ DOMAIN SdkWanted = SdkOf[doc] /\ doc \in Docs
      /\ \A p \in SdkOf[doc] : SdkWanted[p] = Emitted(doc, doc)
  BY <1>1 DEF Books, Owned, UnderWay, SdkWanted
<1>3. /\ DOMAIN entries' = NotOf("sdk") \cup SdkOf[doc] /\ NotOf("sdk") \subseteq DOMAIN entries
      /\ \A p \in SdkOf[doc] :
           entries'[p] = [digest |-> Emitted(doc, doc), origin |-> "sdk", authored |-> FALSE]
      /\ \A p \in NotOf("sdk") \ SdkOf[doc] : entries'[p] = entries[p]
  <2>1. NotOf("sdk") \subseteq DOMAIN entries
    BY DEF NotOf
  <2>2. /\ DOMAIN entries' = NotOf("sdk") \cup DOMAIN SdkWanted
        /\ \A p \in DOMAIN SdkWanted :
             entries'[p] = [digest |-> SdkWanted[p], origin |-> "sdk", authored |-> FALSE]
        /\ \A p \in NotOf("sdk") \ DOMAIN SdkWanted : entries'[p] = entries[p]
    BY <1>1, RecordedIs
  <2>3. QED
    BY <1>2, <2>1, <2>2
<1>30. \A p \in SdkOf[doc] : /\ entries'[p].digest = Emitted(doc, doc)
                            /\ entries'[p].origin = "sdk" /\ entries'[p].authored = FALSE
  BY <1>3
<1>4. /\ SdkOf[doc] \subseteq SdkFiles /\ SdkFiles \cap (ProviderFiles \cup Authored) = {}
      /\ GoMod \in ProviderFiles /\ GoSum \in ProviderFiles
  BY <1>2, PathsApart
<1>5. \A p \in DOMAIN entries : p \in ProviderFiles \cup Authored =>
        p \in NotOf("sdk") \ SdkOf[doc] /\ p \in DOMAIN entries' /\ entries'[p] = entries[p]
  BY <1>3, <1>4, KeptOf
<1>6. Places'
  BY <1>1, <1>3, <1>4 DEF Books, Places
<1>7. Shaped'
  <2> SUFFICES ASSUME NEW p \in DOMAIN entries'
               PROVE  entries'[p] = [digest |-> entries'[p].digest, origin |-> entries'[p].origin,
                                     authored |-> entries'[p].authored]
    BY DEF Shaped
  <2>1. CASE p \in SdkOf[doc]
    BY <1>3, <2>1
  <2>2. CASE p \notin SdkOf[doc]
    BY <1>3, <2>2 DEF Books, Shaped
  <2>3. QED
    BY <2>1, <2>2
<1>8. Origins'
  <2> SUFFICES ASSUME NEW p \in DOMAIN entries' \ Authored
               PROVE  /\ ~entries'[p].authored
                      /\ p \in SdkFiles => entries'[p].origin = "sdk"
                      /\ p \in ProviderFiles \ {GoSum} => entries'[p].origin = "provider"
                      /\ p = GoSum => entries'[p].origin = "toolchain"
    BY DEF Origins
  <2>1. CASE p \in SdkOf[doc]
    BY <1>30, <1>4, <2>1
  <2>2. CASE p \notin SdkOf[doc]
    BY <1>3, <2>2 DEF Books, Origins
  <2>3. QED
    BY <2>1, <2>2
<1>9. ModKept'
  BY <1>3, <1>4 DEF Books, ModKept
<1>10. done'["sdk"] = <<doc, doc>> /\ done'["provider"] = done["provider"]
       /\ done' = [v \in Verbs |-> done'[v]]
  BY <1>1 DEF Books, UnderWay, Verbs
<1>11. UnderWay'
  BY <1>1, <1>10 DEF UnderWay, SdkSteps, ProviderSteps, Saved, Points
<1>12. SdkOutcome'
  <2> SUFFICES ASSUME NEW d \in Docs, <<doc, doc>> = <<d, d>>
               PROVE  /\ DOMAIN out = SdkOf[d]
                      /\ \A p \in SdkOf[d] :
                           /\ out[p] = Emitted(d, d) \/ out[p].state = "edited"
                           /\ p \in DOMAIN entries' => entries'[p].digest = Emitted(d, d)
    BY <1>1, <1>10 DEF SdkOutcome
  <2>1. d = doc
    OBVIOUS
  <2>2. QED
    BY <1>2, <1>30, <2>1
<1>13. ProviderOutcome'
  <2> SUFFICES ASSUME NEW d \in Docs, NEW s, done["provider"] = <<d, s>>
               PROVE  /\ \A p \in ProviderOf[d] :
                           /\ p \in DOMAIN tree /\ p \in DOMAIN entries'
                           /\ \/ tree[p].state = "edited"
                              \/ /\ p # GoMod => tree[p] = Emitted(d, s)
                                 /\ entries'[p].digest = tree[p]
                      /\ \A p \in DOMAIN entries' :
                           entries'[p].origin = "provider" /\ ~entries'[p].authored => p \in ProviderOf[d]
    BY <1>1, <1>10 DEF ProviderOutcome
  <2>1. \A p \in ProviderOf[d] : p \in ProviderFiles
    BY PathsApart
  <2>2. \A p \in ProviderOf[d] :
          /\ p \in DOMAIN tree /\ p \in DOMAIN entries
          /\ \/ tree[p].state = "edited"
             \/ /\ p # GoMod => tree[p] = Emitted(d, s)
                /\ entries[p].digest = tree[p]
    BY DEF Books, ProviderOutcome
  <2>3. \A p \in DOMAIN entries :
          entries[p].origin = "provider" /\ ~entries[p].authored => p \in ProviderOf[d]
    BY DEF Books, ProviderOutcome
  <2>4. ASSUME NEW p \in DOMAIN entries', entries'[p].origin = "provider", ~entries'[p].authored
        PROVE  p \in ProviderOf[d]
    <3>1. p \in NotOf("sdk") \ SdkOf[doc]
      BY <1>3, <1>30, <2>4
    <3>2. QED
      BY <1>3, <2>3, <2>4, <3>1
  <2>5. QED
    BY <1>5, <2>1, <2>2, <2>4
<1>14. Accounts'
  <2> SUFFICES ASSUME ~strayed PROVE DOMAIN out \cup DOMAIN tree \subseteq DOMAIN entries'
    BY <1>1 DEF Accounts, SdkSteps
  <2>1. DOMAIN tree \subseteq DOMAIN entries /\ DOMAIN tree \subseteq ProviderFiles \cup Authored
    BY <1>1 DEF Books, Accounts, Places, SdkSteps
  <2>2. QED
    BY <1>2, <1>3, <1>5, <2>1
<1>15. QED
  BY <1>6, <1>7, <1>8, <1>9, <1>11, <1>12, <1>13, <1>14 DEF Books

-----------------------------------------------------------------------------
\* While the provider is generated its last run's outcome is forgotten.
LEMMA NoOutcome ==
  ASSUME done'["provider"] = NoRun
  PROVE  ProviderOutcome'
  BY PathsApart DEF ProviderOutcome, NoRun

\* A provider step that leaves the manifest and the SDK alone.
LEMMA ProviderIdle ==
  ASSUME Books, UNCHANGED <<doc, out, parked, entries>>, done'["sdk"] = done["sdk"]
  PROVE  /\ Shaped' /\ Origins' /\ ModKept' /\ SdkOutcome'
         /\ DOMAIN out' \cup DOMAIN parked' \subseteq SdkFiles
         /\ DOMAIN entries' \subseteq SdkFiles \cup ProviderFiles \cup Authored
<1>1. Shaped' /\ Origins' /\ ModKept'
  BY DEF Books, Shaped, Origins, ModKept
<1>2. SdkOutcome'
  BY DEF Books, SdkOutcome
<1>3. QED
  BY <1>1, <1>2 DEF Books, Places

\* A run of the provider begins with all of its files to write and the rest to remove.
LEMMA ProviderBeginBooks ==
  ASSUME Books, Owned', ProviderGenerate
  PROVE  Books'
<1> USE DEF manifest
<1>1. /\ pc = "rest" /\ pc' = "provider" /\ todo' = ProviderOf[doc] /\ drop' = Unproduced
      /\ done' = [done EXCEPT !["provider"] = NoRun]
      /\ UNCHANGED <<doc, out, parked, tree, entries, strayed>>
  BY DEF ProviderGenerate, Begins
<1>2. done'["provider"] = NoRun /\ done'["sdk"] = done["sdk"] /\ done' = [v \in Verbs |-> done'[v]]
  BY <1>1 DEF Books, UnderWay, Verbs
<1>3. /\ Shaped' /\ Origins' /\ ModKept' /\ SdkOutcome' /\ ProviderOutcome'
      /\ DOMAIN out' \cup DOMAIN parked' \subseteq SdkFiles
      /\ DOMAIN entries' \subseteq SdkFiles \cup ProviderFiles \cup Authored
  BY <1>1, <1>2, ProviderIdle, NoOutcome
<1>4. Places'
  BY <1>1, <1>3 DEF Books, Places, Unproduced
<1>5. UnderWay'
  BY <1>1, <1>2 DEF UnderWay, SdkSteps, ProviderSteps, Saved, Points
<1>6. Accounts'
  BY <1>1 DEF Books, Accounts, SdkSteps, Unproduced, OwnFiles
<1>7. QED
  BY <1>3, <1>4, <1>5, <1>6 DEF Books

\* A file written, removed or left; the last of them.
LEMMA ProviderFileBooks ==
  ASSUME Books, Owned', NEW p, InstallFile(p) \/ RemoveFile(p) \/ LeaveFile(p) \/ AllRemoved
  PROVE  Books'
<1> USE DEF manifest, work
<1>1. /\ pc \in {"provider", "remove"} /\ pc' \in {"provider", "remove", "providerSave"}
      /\ UNCHANGED <<doc, out, parked, entries, done>>
  BY DEF InstallFile, RemoveFile, LeaveFile, AllRemoved
<1>2. done["provider"] = NoRun
  BY <1>1 DEF Books, UnderWay, ProviderSteps
<1>3. /\ Shaped' /\ Origins' /\ ModKept' /\ SdkOutcome' /\ ProviderOutcome'
      /\ DOMAIN out' \cup DOMAIN parked' \subseteq SdkFiles
      /\ DOMAIN entries' \subseteq SdkFiles \cup ProviderFiles \cup Authored
  BY <1>1, <1>2, ProviderIdle, NoOutcome
<1>4. /\ todo \subseteq ProviderOf[doc] /\ drop \cap ProviderOf[doc] = {}
      /\ ProviderOf[doc] \subseteq ProviderFiles /\ DOMAIN tree \subseteq ProviderFiles \cup Authored
      /\ pc # "provider" => todo = {}
  BY PathsApart DEF Books, Owned, Places
<1>5. ProviderWanted' = ProviderWanted /\ Tidied' = Tidied
  BY <1>1, SameWanted
<1>6. CASE InstallFile(p)
  <2>1. /\ pc = "provider" /\ p \in todo /\ todo' = todo \ {p} /\ drop' = drop
        /\ tree' = With(tree, p, ProviderWanted[p]) /\ strayed' = strayed
        /\ pc' \in {"provider", "remove"} /\ (pc' # "provider" => todo' = {})
    BY <1>6 DEF InstallFile
  <2>2. /\ DOMAIN tree' = DOMAIN tree \cup {p} /\ tree'[p] = ProviderWanted[p]
        /\ \A q \in DOMAIN tree \ {p} : tree'[q] = tree[q]
    BY <2>1 DEF With
  <2>3. Places'
    BY <1>1, <1>3, <1>4, <2>1, <2>2 DEF Books, Places
  <2>4. UnderWay'
    <3>1. \A q \in ProviderOf[doc] \ todo' :
            q \in DOMAIN tree' /\ (tree'[q] = ProviderWanted[q] \/ (q = GoMod /\ tree'[q] = Tidied))
      BY <2>1, <2>2 DEF Books, UnderWay, ProviderSteps
    <3>2. QED
      BY <1>1, <1>2, <1>5, <2>1, <3>1 DEF Books, UnderWay, SdkSteps, ProviderSteps, Saved, Points
  <2>5. Accounts'
    <3>1. Unproduced' \subseteq Unproduced
      BY <1>1, <1>4, <2>1, <2>2 DEF Unproduced, OwnFiles
    <3>2. QED
      BY <1>1, <1>4, <2>1, <2>2, <3>1 DEF Books, Accounts, SdkSteps
  <2>6. QED
    BY <1>3, <2>3, <2>4, <2>5 DEF Books
<1>7. CASE RemoveFile(p)
  <2>1. /\ pc = "remove" /\ pc' = pc /\ p \in drop /\ drop' = drop \ {p} /\ todo' = todo
        /\ tree' = Only(tree, DOMAIN tree \ {p}) /\ strayed' = strayed
    BY <1>7 DEF RemoveFile
  <2>2. /\ DOMAIN tree' = DOMAIN tree \ {p} /\ \A q \in DOMAIN tree \ {p} : tree'[q] = tree[q]
    BY <2>1 DEF Only, Restrict
  <2>3. Places'
    BY <1>1, <1>3, <1>4, <2>1, <2>2 DEF Books, Places
  <2>4. UnderWay'
    <3>1. \A q \in ProviderOf[doc] \ todo' :
            q \in DOMAIN tree' /\ (tree'[q] = ProviderWanted[q] \/ (q = GoMod /\ tree'[q] = Tidied))
      BY <1>4, <2>1, <2>2 DEF Books, UnderWay, ProviderSteps
    <3>2. QED
      BY <1>1, <1>2, <1>5, <2>1, <3>1 DEF Books, UnderWay, SdkSteps, ProviderSteps, Saved, Points
  <2>5. Accounts'
    <3>1. Unproduced' \subseteq Unproduced \ {p}
      BY <1>1, <2>2 DEF Unproduced, OwnFiles
    <3>2. QED
      BY <1>1, <2>1, <2>2, <3>1 DEF Books, Accounts, SdkSteps
  <2>6. QED
    BY <1>3, <2>3, <2>4, <2>5 DEF Books
<1>8. CASE LeaveFile(p) \/ AllRemoved
  <2>1. /\ pc = "remove" /\ pc' \in {"remove", "providerSave"} /\ todo' = todo /\ tree' = tree
        /\ drop' \subseteq drop /\ (pc' # "remove" => drop' = {})
        /\ strayed' = TRUE \/ (strayed' = strayed /\ drop' = drop)
    BY <1>8 DEF LeaveFile, AllRemoved
  <2>2. Places'
    BY <1>1, <1>3, <1>4, <2>1 DEF Books, Places
  <2>3. UnderWay'
    BY <1>1, <1>2, <1>5, <2>1 DEF Books, UnderWay, SdkSteps, ProviderSteps, Saved, Points
  <2>4. Accounts'
    <3>1. Unproduced' = Unproduced
      BY <1>1, <2>1 DEF Unproduced, OwnFiles
    <3>2. QED
      BY <1>1, <2>1, <3>1 DEF Books, Accounts, SdkSteps
  <2>5. QED
    BY <1>3, <2>2, <2>3, <2>4 DEF Books
<1>9. QED
  BY <1>6, <1>7, <1>8

\* The provider's save records what it wrote, and leaves every record of the SDK's.
LEMMA ProviderSaveBooks ==
  ASSUME Books, Owned', ProviderSave
  PROVE  Books'
<1> USE DEF manifest, work
<1>1. /\ pc = "providerSave" /\ pc' = "tidy" /\ todo = {} /\ drop = {}
      /\ entries' = Recorded(NotOf("provider"), ProviderWanted, "provider")
      /\ UNCHANGED <<doc, out, parked, tree, todo, drop, done, strayed>>
  BY DEF ProviderSave, Books, Places
<1>2. /\ DOMAIN ProviderWanted = ProviderOf[doc]
      /\ \A p \in ProviderOf[doc] : ProviderWanted[p] = Emitted(doc, SdkDoc)
  BY DEF ProviderWanted
<1>3. /\ doc \in Docs /\ ProviderOf[doc] \cap Authored = {}
      /\ ProviderOf[doc] \subseteq ProviderFiles \ {GoSum}
      /\ SdkFiles \cap (ProviderFiles \cup Authored) = {}
      /\ GoMod \in ProviderOf[doc] /\ GoSum \notin ProviderOf[doc]
  BY <1>1, PathsApart DEF Books, Owned, Installing
<1>4. /\ DOMAIN entries' = NotOf("provider") \cup ProviderOf[doc]
      /\ NotOf("provider") \subseteq DOMAIN entries
      /\ \A p \in ProviderOf[doc] :
           entries'[p] = [digest |-> Emitted(doc, SdkDoc), origin |-> "provider", authored |-> FALSE]
      /\ \A p \in NotOf("provider") \ ProviderOf[doc] : entries'[p] = entries[p]
  <2>1. NotOf("provider") \subseteq DOMAIN entries
    BY DEF NotOf
  <2>2. /\ DOMAIN entries' = NotOf("provider") \cup DOMAIN ProviderWanted
        /\ \A p \in DOMAIN ProviderWanted :
             entries'[p] = [digest |-> ProviderWanted[p], origin |-> "provider", authored |-> FALSE]
        /\ \A p \in NotOf("provider") \ DOMAIN ProviderWanted : entries'[p] = entries[p]
    BY <1>1, RecordedIs
  <2>3. QED
    BY <1>2, <2>1, <2>2
<1>5. \A p \in ProviderOf[doc] : /\ entries'[p].digest = Emitted(doc, SdkDoc)
                                 /\ entries'[p].origin = "provider" /\ entries'[p].authored = FALSE
  BY <1>4
<1>6. \A p \in NotOf("provider") : entries[p].origin # "provider" \/ entries[p].authored
  BY DEF NotOf
<1>7. ProviderWanted' = ProviderWanted /\ Tidied' = Tidied
  BY <1>1, SameWanted
<1>8. Places'
  BY <1>1, <1>3, <1>4 DEF Books, Places
<1>9. Shaped'
  <2> SUFFICES ASSUME NEW p \in DOMAIN entries'
               PROVE  entries'[p] = [digest |-> entries'[p].digest, origin |-> entries'[p].origin,
                                     authored |-> entries'[p].authored]
    BY DEF Shaped
  <2>1. CASE p \in ProviderOf[doc]
    BY <1>4, <2>1
  <2>2. CASE p \notin ProviderOf[doc]
    BY <1>4, <2>2 DEF Books, Shaped
  <2>3. QED
    BY <2>1, <2>2
<1>10. Origins'
  <2> SUFFICES ASSUME NEW p \in DOMAIN entries' \ Authored
               PROVE  /\ ~entries'[p].authored
                      /\ p \in SdkFiles => entries'[p].origin = "sdk"
                      /\ p \in ProviderFiles \ {GoSum} => entries'[p].origin = "provider"
                      /\ p = GoSum => entries'[p].origin = "toolchain"
    BY DEF Origins
  <2>1. CASE p \in ProviderOf[doc]
    BY <1>3, <1>5, <2>1
  <2>2. CASE p \notin ProviderOf[doc]
    BY <1>4, <2>2 DEF Books, Origins
  <2>3. QED
    BY <2>1, <2>2
<1>11. ModKept'
  <2>1. Emitted(doc, SdkDoc).state # "edited"
    BY DEF Emitted
  <2>2. QED
    BY <1>2, <1>3, <1>5, <2>1 DEF ModKept
<1>12. UnderWay'
  <2>1. \A p \in DOMAIN entries' :
          entries'[p].origin = "provider" /\ ~entries'[p].authored => p \in ProviderOf[doc]
    BY <1>4, <1>6
  <2>2. /\ done = [v \in Verbs |-> done[v]] /\ done["provider"] = NoRun
        /\ \A p \in ProviderOf[doc] \ todo :
             p \in DOMAIN tree /\ (tree[p] = ProviderWanted[p] \/ (p = GoMod /\ tree[p] = Tidied))
    BY <1>1 DEF Books, UnderWay, ProviderSteps
  <2>3. QED
    BY <1>1, <1>2, <1>4, <1>5, <1>7, <2>1, <2>2 DEF UnderWay, SdkSteps, ProviderSteps, Saved, Points
<1>13. SdkOutcome'
  <2> SUFFICES ASSUME NEW d \in Docs, done["sdk"] = <<d, d>>,
                      NEW p \in SdkOf[d], p \in DOMAIN entries'
               PROVE  entries'[p] = entries[p] /\ p \in DOMAIN entries
    BY <1>1 DEF SdkOutcome, Books
  <2>1. p \notin ProviderOf[doc]
    BY <1>3, PathsApart
  <2>2. QED
    BY <1>4, <2>1
<1>14. ProviderOutcome'
  BY <1>12, <1>1, NoOutcome DEF UnderWay, ProviderSteps
<1>15. Accounts'
  <2> SUFFICES ASSUME ~strayed PROVE DOMAIN out \cup DOMAIN tree \subseteq DOMAIN entries'
    BY <1>1 DEF Accounts, SdkSteps
  <2>1. /\ DOMAIN out \subseteq DOMAIN entries /\ DOMAIN tree \subseteq DOMAIN entries \cup ProviderOf[doc]
        /\ Unproduced = {} /\ DOMAIN out \subseteq SdkFiles
    BY <1>1 DEF Books, Accounts, Places
  <2>2. DOMAIN out \subseteq NotOf("provider")
    BY <2>1, KeptOf
  <2>3. ASSUME NEW p \in DOMAIN tree, p \notin ProviderOf[doc] PROVE p \in NotOf("provider")
    <3>1. p \in DOMAIN entries /\ p \notin OwnFiles
      BY <2>1, <2>3 DEF Unproduced
    <3>2. QED
      BY <3>1 DEF OwnFiles, NotOf
  <2>4. QED
    BY <1>4, <2>2, <2>3
<1>16. QED
  BY <1>8, <1>9, <1>10, <1>11, <1>12, <1>13, <1>14, <1>15 DEF Books

\* What the toolchain does to the tree before the manifest records it.
LEMMA ToolchainBooks ==
  ASSUME Books, Owned', SkipVerification \/ Tidy \/ Build
  PROVE  Books'
<1> USE DEF manifest, work
<1>1. /\ pc \in {"tidy", "build"} /\ pc' \in {"build", "refresh"} /\ todo = {} /\ drop = {}
      /\ UNCHANGED <<doc, out, parked, entries, todo, drop, done, strayed>>
  BY DEF SkipVerification, Tidy, Build, Books, Places
<1>2. done["provider"] = NoRun
  BY <1>1 DEF Books, UnderWay, ProviderSteps
<1>3. /\ Shaped' /\ Origins' /\ ModKept' /\ SdkOutcome' /\ ProviderOutcome'
      /\ DOMAIN out' \cup DOMAIN parked' \subseteq SdkFiles
      /\ DOMAIN entries' \subseteq SdkFiles \cup ProviderFiles \cup Authored
  BY <1>1, <1>2, ProviderIdle, NoOutcome
<1>4. ProviderWanted' = ProviderWanted /\ Tidied' = Tidied
  BY <1>1, SameWanted
<1>5. /\ GoMod \in ProviderOf[doc] /\ GoSum \notin ProviderOf[doc] /\ GoSum \in ProviderFiles
      /\ GoMod \in ProviderFiles
  BY PathsApart DEF Books, Owned
<1>6. \/ tree' = tree /\ (pc = "build" \/ pc' = "refresh")
      \/ /\ pc = "tidy" /\ DOMAIN tree' = DOMAIN tree \cup {GoMod, GoSum} /\ tree'[GoMod] = Tidied
         /\ \A p \in DOMAIN tree \ {GoMod, GoSum} : tree'[p] = tree[p]
  <2>1. CASE SkipVerification \/ Build
    BY <2>1 DEF SkipVerification, Build
  <2>2. CASE Tidy
    <3>1. pc = "tidy" /\ tree' = With(With(tree, GoMod, Tidied), GoSum, Tidied)
      BY <2>2 DEF Tidy
    <3>2. DOMAIN tree' = DOMAIN tree \cup {GoMod, GoSum}
      BY <3>1 DEF With
    <3>3. tree'[GoMod] = Tidied /\ \A p \in DOMAIN tree \ {GoMod, GoSum} : tree'[p] = tree[p]
      BY <3>1 DEF With
    <3>4. QED
      BY <3>1, <3>2, <3>3
  <2>3. QED
    BY <2>1, <2>2
<1>7. Places'
  BY <1>1, <1>3, <1>5, <1>6 DEF Books, Places
<1>8. UnderWay'
  <2>1. \A p \in ProviderOf[doc] :
          p \in DOMAIN tree' /\ (tree'[p] = ProviderWanted[p] \/ (p = GoMod /\ tree'[p] = Tidied))
    BY <1>1, <1>5, <1>6 DEF Books, UnderWay, ProviderSteps
  <2>2. QED
    BY <1>1, <1>4, <2>1 DEF Books, UnderWay, SdkSteps, ProviderSteps, Saved, Points
<1>9. Accounts'
  <2> SUFFICES ASSUME ~strayed
               PROVE  DOMAIN out \subseteq DOMAIN entries /\ DOMAIN tree' \subseteq DOMAIN entries \cup {GoSum}
    BY <1>1 DEF Accounts, SdkSteps
  <2>1. GoMod \in DOMAIN entries
    BY <1>1, <1>5 DEF Books, UnderWay, Saved
  <2>2. QED
    BY <1>1, <1>6, <2>1 DEF Books, Accounts
<1>10. QED
  BY <1>3, <1>7, <1>8, <1>9 DEF Books

\* A successful run ends with the toolchain's two files recorded as they stand.
LEMMA RefreshBooks ==
  ASSUME Books, Owned', Refresh
  PROVE  Books'
<1> USE DEF manifest, work
<1>1. /\ pc = "refresh" /\ pc' = "rest" /\ todo = {} /\ drop = {} /\ entries' = Refreshed
      /\ done' = [done EXCEPT !["provider"] = <<doc, SdkDoc>>]
      /\ UNCHANGED <<doc, out, parked, tree, todo, drop, strayed>>
  BY DEF Refresh, Books, Places
<1>2. /\ doc \in Docs /\ GoMod \in ProviderOf[doc] /\ GoSum \notin ProviderOf[doc]
      /\ ProviderOf[doc] \subseteq ProviderFiles /\ GoSum \in ProviderFiles /\ GoMod # GoSum
      /\ GoMod \notin SdkFiles /\ GoSum \notin SdkFiles /\ GoMod \notin Authored /\ GoSum \notin Authored
  BY PathsApart DEF Books, Owned
<1>3. /\ \A p \in ProviderOf[doc] :
           p \in DOMAIN tree /\ (tree[p] = Emitted(doc, SdkDoc) \/ (p = GoMod /\ tree[p] = Tidied))
      /\ \A p \in ProviderOf[doc] : p \in DOMAIN entries /\ entries[p].digest = Emitted(doc, SdkDoc)
      /\ \A p \in DOMAIN entries : entries[p].origin = "provider" /\ ~entries[p].authored => p \in ProviderOf[doc]
  BY <1>1 DEF Books, UnderWay, ProviderSteps, Saved, ProviderWanted
<1>4. GoMod \in DOMAIN tree /\ GoMod \in DOMAIN entries
  BY <1>2, <1>3
<1>5. /\ DOMAIN entries' = DOMAIN entries \cup ({GoSum} \cap DOMAIN tree)
      /\ \A p \in DOMAIN entries \ {GoMod, GoSum} : entries'[p] = entries[p]
      /\ entries'[GoMod] = [entries[GoMod] EXCEPT !.digest = tree[GoMod]]
      /\ GoSum \in DOMAIN entries' =>
           \/ entries'[GoSum] = entries[GoSum] /\ GoSum \in DOMAIN entries
           \/ entries'[GoSum] = [entries[GoSum] EXCEPT !.digest = tree[GoSum]] /\ GoSum \in DOMAIN entries
           \/ entries'[GoSum] = [digest |-> tree[GoSum], origin |-> "toolchain", authored |-> FALSE]
  BY <1>1, <1>2, <1>4 DEF Refreshed
<1>6. ASSUME NEW p \in DOMAIN entries, NEW c
      PROVE  LET e == [entries[p] EXCEPT !.digest = c]
             IN  /\ e = [digest |-> c, origin |-> entries[p].origin, authored |-> entries[p].authored]
                 /\ e.digest = c /\ e.origin = entries[p].origin /\ e.authored = entries[p].authored
  BY DEF Books, Shaped
<1>7. /\ entries'[GoMod].digest = tree[GoMod] /\ entries'[GoMod].origin = entries[GoMod].origin
      /\ entries'[GoMod].authored = entries[GoMod].authored
      /\ entries'[GoMod] = [digest |-> entries'[GoMod].digest, origin |-> entries'[GoMod].origin,
                            authored |-> entries'[GoMod].authored]
  BY <1>4, <1>5, <1>6
<1>8. GoSum \in DOMAIN entries' =>
        /\ entries'[GoSum].origin = "toolchain" /\ entries'[GoSum].authored = FALSE
        /\ entries'[GoSum] = [digest |-> entries'[GoSum].digest, origin |-> entries'[GoSum].origin,
                              authored |-> entries'[GoSum].authored]
  <2>1. GoSum \in DOMAIN entries => /\ entries[GoSum].origin = "toolchain" /\ entries[GoSum].authored = FALSE
                                    /\ entries[GoSum] = [digest |-> entries[GoSum].digest,
                                                         origin |-> entries[GoSum].origin,
                                                         authored |-> entries[GoSum].authored]
    BY <1>2 DEF Books, Shaped, Origins
  <2>2. QED
    BY <1>5, <1>6, <2>1
<1>9. Places'
  BY <1>1, <1>2, <1>5 DEF Books, Places
<1>10. Shaped'
  BY <1>5, <1>7, <1>8 DEF Books, Shaped
<1>11. Origins'
  BY <1>2, <1>4, <1>5, <1>7, <1>8 DEF Books, Origins
<1>12. tree[GoMod].state # "edited"
  BY <1>2, <1>3 DEF Emitted, Tidied
<1>13. ModKept'
  BY <1>7, <1>12 DEF ModKept
<1>14. /\ done' = [v \in Verbs |-> done'[v]] /\ done'["sdk"] = done["sdk"]
       /\ done'["provider"] = <<doc, SdkDoc>>
  BY <1>1 DEF Books, UnderWay, Verbs
<1>15. UnderWay'
  BY <1>1, <1>14 DEF UnderWay, SdkSteps, ProviderSteps, Saved, Points
<1>16. SdkOutcome'
  <2> SUFFICES ASSUME NEW d \in Docs, done["sdk"] = <<d, d>>,
                      NEW p \in SdkOf[d], p \in DOMAIN entries'
               PROVE  entries'[p] = entries[p] /\ p \in DOMAIN entries
    BY <1>1, <1>14 DEF SdkOutcome, Books
  <2>1. p \notin {GoMod, GoSum}
    BY <1>2, PathsApart
  <2>2. QED
    BY <1>5, <2>1
<1>17. ProviderOutcome'
  <2> SUFFICES ASSUME NEW d \in Docs, NEW s, <<doc, SdkDoc>> = <<d, s>>
               PROVE  /\ \A p \in ProviderOf[d] :
                           /\ p \in DOMAIN tree /\ p \in DOMAIN entries'
                           /\ p # GoMod => tree[p] = Emitted(d, s)
                           /\ entries'[p].digest = tree[p]
                      /\ \A p \in DOMAIN entries' :
                           entries'[p].origin = "provider" /\ ~entries'[p].authored => p \in ProviderOf[d]
    BY <1>1, <1>14 DEF ProviderOutcome
  <2>1. d = doc /\ s = SdkDoc
    OBVIOUS
  <2>2. \A p \in ProviderOf[doc] :
          /\ p \in DOMAIN tree /\ p \in DOMAIN entries'
          /\ p # GoMod => tree[p] = Emitted(doc, SdkDoc)
          /\ entries'[p].digest = tree[p]
    BY <1>2, <1>3, <1>5, <1>7
  <2>3. \A p \in DOMAIN entries' :
          entries'[p].origin = "provider" /\ ~entries'[p].authored => p \in ProviderOf[doc]
    BY <1>2, <1>3, <1>5, <1>8
  <2>4. QED
    BY <2>1, <2>2, <2>3
<1>18. Accounts'
  BY <1>1, <1>5 DEF Books, Accounts, SdkSteps
<1>19. QED
  BY <1>9, <1>10, <1>11, <1>13, <1>15, <1>16, <1>17, <1>18 DEF Books

\* Every step keeps the books.
LEMMA BooksStep == Books /\ [Next]_vars => Books'
<1> SUFFICES ASSUME Books, [Next]_vars PROVE Books'
  OBVIOUS
<1>0. Owned'
  BY OwnedStep DEF Books
<1>1. CASE \E d \in Docs : Revise(d)
  BY <1>0, <1>1, BetweenBooks
<1>2. CASE \E p \in SdkFiles \cup ProviderFiles : Edit(p)
  BY <1>0, <1>2, BetweenBooks
<1>3. CASE StepFails \/ SaveFails \/ Crash \/ InstallFails \/ RemovalFails \/ BuildFails
  BY <1>0, <1>3, StopBooks
<1>4. CASE SdkGenerate \/ Clear \/ Park \/ Install \/ Unpark
  BY <1>0, <1>4, SwapBooks
<1>5. CASE SdkSave
  BY <1>0, <1>5, SdkSaveBooks
<1>6. CASE ProviderGenerate
  BY <1>0, <1>6, ProviderBeginBooks
<1>7. CASE (\E p \in ProviderFiles : InstallFile(p) \/ RemoveFile(p) \/ LeaveFile(p)) \/ AllRemoved
  BY <1>0, <1>7, ProviderFileBooks
<1>8. CASE ProviderSave
  BY <1>0, <1>8, ProviderSaveBooks
<1>9. CASE SkipVerification \/ Tidy \/ Build
  BY <1>0, <1>9, ToolchainBooks
<1>10. CASE Refresh
  BY <1>0, <1>10, RefreshBooks
<1>11. CASE UNCHANGED vars
  <2> USE <1>11 DEF vars, manifest, work
  <2>1. ProviderWanted' = ProviderWanted /\ Tidied' = Tidied /\ SdkWanted' = SdkWanted
    BY SameWanted
  <2>2. Places' /\ Shaped' /\ Origins' /\ ModKept'
    BY DEF Books, Places, Shaped, Origins, ModKept
  <2>3. UnderWay'
    BY <2>1 DEF Books, UnderWay
  <2>4. SdkOutcome' /\ ProviderOutcome'
    BY DEF Books, SdkOutcome, ProviderOutcome
  <2>5. Accounts'
    BY DEF Books, Accounts, Unproduced, OwnFiles
  <2>6. QED
    BY <1>0, <2>2, <2>3, <2>4, <2>5 DEF Books
<1>12. QED
  BY <1>1, <1>2, <1>3, <1>4, <1>5, <1>6, <1>7, <1>8, <1>9, <1>10, <1>11 DEF Next

-----------------------------------------------------------------------------
\* An edited file still on disk is the SDK's or the provider's, and its verb's gate
\* regenerates it, finds it extra or holds it to its recorded digest.
LEMMA BooksCatch == Books => EditsCaught
<1> SUFFICES ASSUME Books, Answers, NEW p \in DOMAIN entries \ {GoSum}, IsEdited(p)
             PROVE  \E d \in SdkDrifts \cup ProviderDrifts : d[2] = p
  BY DEF EditsCaught
<1>1. <<"changed", p>>[2] = p /\ <<"extra", p>>[2] = p /\ <<"hand-edited", p>>[2] = p
  OBVIOUS
<1>2. CASE p \in DOMAIN out
  <2>1. out[p].state = "edited"
    BY <1>2 DEF IsEdited, StateOf
  <2>2. CASE p \in SdkOf[doc]
    <3>1. p \in DOMAIN SdkWanted /\ SdkWanted[p] # out[p]
      BY <2>1, <2>2 DEF SdkWanted, Emitted
    <3>2. <<"changed", p>> \in SdkDrifts
      BY <1>2, <3>1 DEF SdkDrifts, Differing
    <3>3. QED
      BY <1>1, <3>2
  <2>3. CASE p \notin SdkOf[doc]
    <3>1. <<"extra", p>> \in SdkDrifts
      BY <1>2, <2>3 DEF SdkDrifts, SdkWanted
    <3>2. QED
      BY <1>1, <3>1
  <2>4. QED
    BY <2>2, <2>3
<1>3. CASE p \notin DOMAIN out
  <2>1. p \in DOMAIN tree /\ tree[p].state = "edited"
    BY <1>3 DEF IsEdited, StateOf
  <2>2. p \notin Authored
    BY <2>1 DEF Books, Owned, AuthoredUntouched, Written
  <2>3. p \in OwnFiles
    BY <2>1, <2>2 DEF Books, Places, Origins, OwnFiles
  <2>4. CASE p \notin ProviderOf[doc]
    <3>1. <<"extra", p>> \in ProviderDrifts
      BY <2>3, <2>4 DEF ProviderDrifts, Unproduced
    <3>2. QED
      BY <1>1, <3>1
  <2>5. CASE p = GoMod
    <3>1. entries[p].digest # tree[p]
      BY <2>1, <2>5 DEF Books, ModKept
    <3>2. <<"hand-edited", p>> \in ProviderDrifts
      BY <2>3, <3>1 DEF ProviderDrifts, HandEdited
    <3>3. QED
      BY <1>1, <3>2
  <2>6. CASE p \in ProviderOf[doc] /\ p # GoMod
    <3>1. p \in DOMAIN ProviderWanted /\ ProviderWanted[p] # tree[p]
      BY <2>1, <2>6 DEF ProviderWanted, Emitted
    <3>2. <<"changed", p>> \in Differing(ProviderWanted, tree)
      BY <2>1, <3>1 DEF Differing
    <3>3. <<"changed", p>> \notin {<<"changed", q>> : q \in {GoMod, GoSum}}
      BY <2>6
    <3>4. <<"changed", p>> \in ProviderDrifts
      BY <3>2, <3>3 DEF ProviderDrifts
    <3>5. QED
      BY <1>1, <3>4
  <2>7. QED
    BY <2>4, <2>5, <2>6
<1>4. QED
  BY <1>2, <1>3

\* What a gate would report of a verb's outcome, but for an edit, the outcome excludes.
LEMMA BooksClean == Books => SuccessIsClean
<1> SUFFICES ASSUME Books, Answers
             PROVE  /\ done["sdk"] = <<doc, doc>> => \A d \in SdkDrifts : IsEdited(d[2])
                    /\ done["provider"] = <<doc, SdkDoc>> => \A d \in ProviderDrifts : IsEdited(d[2])
  BY DEF SuccessIsClean
<1>0. doc \in Docs
  BY DEF Books, Owned
<1>1. ASSUME done["sdk"] = <<doc, doc>>, NEW d \in SdkDrifts
      PROVE  IsEdited(d[2])
  <2>1. /\ DOMAIN out = SdkOf[doc] /\ DOMAIN SdkWanted = SdkOf[doc]
        /\ \A p \in SdkOf[doc] : /\ SdkWanted[p] = Emitted(doc, doc)
                                 /\ out[p] = Emitted(doc, doc) \/ out[p].state = "edited"
                                 /\ p \in DOMAIN entries => entries[p].digest = Emitted(doc, doc)
    BY <1>0, <1>1 DEF Books, SdkOutcome, SdkWanted
  <2>2. \A p \in DOMAIN out : out[p].state = "edited" => IsEdited(p)
    BY DEF IsEdited, StateOf
  <2>3. d \notin Missing(SdkWanted, out)
    BY <2>1 DEF Missing
  <2>4. CASE d \in Differing(SdkWanted, out)
    <3>1. PICK p \in SdkOf[doc] : d = <<"changed", p>> /\ SdkWanted[p] # out[p]
      BY <2>1, <2>4 DEF Differing
    <3>2. QED
      BY <2>1, <2>2, <3>1
  <2>5. d \notin {<<"extra", p>> : p \in DOMAIN out \ DOMAIN SdkWanted}
    BY <2>1
  <2>6. CASE d \in HandEdited(out, SdkWanted, SdkRecorded)
    <3>1. PICK p \in SdkRecorded : d = <<"hand-edited", p>> /\ entries[p].digest # out[p]
      BY <2>6 DEF HandEdited
    <3>2. p \in DOMAIN entries /\ p \in DOMAIN out
      BY DEF SdkRecorded
    <3>3. QED
      BY <2>1, <2>2, <3>1, <3>2
  <2>7. QED
    BY <1>1, <2>3, <2>4, <2>5, <2>6 DEF SdkDrifts
<1>2. ASSUME done["provider"] = <<doc, SdkDoc>>, NEW d \in ProviderDrifts
      PROVE  IsEdited(d[2])
  <2>1. /\ DOMAIN ProviderWanted = ProviderOf[doc]
        /\ \A p \in ProviderOf[doc] :
             /\ ProviderWanted[p] = Emitted(doc, SdkDoc)
             /\ p \in DOMAIN tree /\ p \in DOMAIN entries
             /\ \/ tree[p].state = "edited"
                \/ /\ p # GoMod => tree[p] = Emitted(doc, SdkDoc)
                   /\ entries[p].digest = tree[p]
    BY <1>0, <1>2 DEF Books, ProviderOutcome, ProviderWanted
  <2>2. \A p \in DOMAIN entries :
          entries[p].origin = "provider" /\ ~entries[p].authored => p \in ProviderOf[doc]
    BY <1>0, <1>2 DEF Books, ProviderOutcome
  <2>3. \A p \in ProviderOf[doc] : tree[p].state = "edited" => IsEdited(p)
    <3>1. \A p \in ProviderOf[doc] : p \notin DOMAIN out
      BY <1>0, PathsApart DEF Books, Places
    <3>2. QED
      BY <2>1, <3>1 DEF IsEdited, StateOf
  <2>4. d \notin Missing(ProviderWanted, tree)
    BY <2>1 DEF Missing
  <2>5. CASE d \in Differing(ProviderWanted, tree) \ {<<"changed", p>> : p \in {GoMod, GoSum}}
    <3>1. PICK p \in ProviderOf[doc] : d = <<"changed", p>> /\ ProviderWanted[p] # tree[p]
      BY <2>1, <2>5 DEF Differing
    <3>2. p # GoMod
      BY <2>5, <3>1
    <3>3. QED
      BY <2>1, <2>3, <3>1, <3>2
  <2>6. d \notin {<<"extra", p>> : p \in Unproduced}
    BY <2>2 DEF Unproduced, OwnFiles
  <2>7. CASE d \in HandEdited(tree, ProviderWanted, OwnFiles)
    <3>1. PICK p \in OwnFiles : d = <<"hand-edited", p>> /\ entries[p].digest # tree[p]
      BY <2>7 DEF HandEdited
    <3>2. p \in ProviderOf[doc]
      BY <2>2 DEF OwnFiles
    <3>3. QED
      BY <2>1, <2>3, <3>1, <3>2
  <2>8. QED
    BY <1>2, <2>4, <2>5, <2>6, <2>7 DEF ProviderDrifts
<1>3. QED
  BY <1>1, <1>2

\* However it came about, a file either verb recorded and a person has changed since
\* is reported by a gate that can answer, but for go.sum.
THEOREM EditsAreCaught == Spec => []EditsCaught
<1> QED
  BY BooksInit, BooksStep, BooksCatch, PTL DEF Spec

\* Whatever was killed, failed, edited or revised before it, a run that succeeds
\* leaves a tree its own gate passes, but for what is edited afterwards.
THEOREM SuccessLeavesClean == Spec => []SuccessIsClean
<1> QED
  BY BooksInit, BooksStep, BooksClean, PTL DEF Spec

\* Unless a run stopped before its save, or a file would not delete, every file on
\* disk is one the manifest accounts for: neither verb drops the other's records.
THEOREM EveryFileAccounted == Spec => []Accounted
<1>1. Books => Accounted
  BY DEF Books, Accounts, Accounted
<1> QED
  BY <1>1, BooksInit, BooksStep, PTL DEF Spec

=============================================================================
