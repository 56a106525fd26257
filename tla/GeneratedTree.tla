--------------------------- MODULE GeneratedTree ---------------------------
(***************************************************************************)
(* The two generating verbs over one provider repository.  `sdk generate`  *)
(* swaps a whole directory into place (sdkgen/generate.go); `provider      *)
(* generate` installs its files one by one, removes those it no longer     *)
(* produces, and hands the tree to the go toolchain, which rewrites two of *)
(* them (providergen/providergen.go).  Both record what they wrote in one  *)
(* manifest (manifest/manifest.go), and each has a drift gate that compares *)
(* the tree with a regeneration and with the manifest's digests            *)
(* (sdkgen/verify.go, providergen/verify.go).                              *)
(*                                                                         *)
(* A file's content is where it came from: the document, the SDK it was    *)
(* bound against, and whether the toolchain or a person has changed it     *)
(* since; what a person changes in the SDK is taken not to reach what the  *)
(* provider emits.  A digest is the content itself.  Whatever the verbs     *)
(* refuse before they write changes nothing and is not modelled.           *)
(***************************************************************************)
EXTENDS Integers, FiniteSets, Functions

CONSTANTS
  Docs,      \* The revised documents.
  SdkOf,     \* The paths the backend generates from each, under sdk.out.
  ProviderOf,\* The paths provider generate emits from each.
  GoMod,     \* The one emitted path the toolchain rewrites,
  GoSum,     \* and the path only the toolchain writes.
  Authored,  \* Paths a person owns, marked as authored in the manifest.
  NoDoc,     \* No document.
  Faults,    \* What may go wrong.
  MaxJobs,   \* Bound: generations begun.
  MaxEdits   \* Bound: files edited by hand.

SdkFiles      == UNION {SdkOf[d] : d \in Docs}
ProviderFiles == (UNION {ProviderOf[d] : d \in Docs}) \cup {GoSum}
AllFaults     == {"crash", "rename", "unremovable", "save", "build"}

ASSUME TreeAssumption ==
  /\ NoDoc \notin Docs
  /\ SdkOf \in [Docs -> SUBSET SdkFiles]
  /\ \A d \in Docs : SdkOf[d] # {} /\ GoMod \in ProviderOf[d] /\ GoSum \notin ProviderOf[d]
  /\ SdkFiles \cap (ProviderFiles \cup Authored) = {}
  /\ GoMod \notin Authored /\ GoSum \notin Authored
  /\ Faults \subseteq AllFaults
  /\ MaxJobs \in Nat /\ MaxEdits \in Nat

VARIABLES
  doc,      \* spec/revised.yaml.
  out,      \* The SDK's directory: a content per path, none when it is absent.
  parked,   \* The directory beside it that holds the previous one.
  tree,     \* The provider's files.
  entries,  \* The manifest: a digest, an origin and a mark per path.
  readable, \* Whether the manifest can be parsed.
  pc,       \* Where the running verb is; "rest" when none runs.
  todo,     \* Paths still to install.
  drop,     \* Paths still to remove.
  done,     \* What each verb's last run, if it succeeded, was given.
  strayed,  \* Whether the provider's tree and manifest have parted.
  jobs,     \* Generations begun.
  edits     \* Files edited by hand.

manifest == <<entries, readable>>
work == <<todo, drop>>
vars == <<doc, out, parked, tree, manifest, pc, work, done, strayed, jobs, edits>>

Content == [doc : Docs \cup {NoDoc}, sdk : Docs \cup {NoDoc},
            state : {"emitted", "tidied", "edited", "authored"}]
\* The provider's origin is empty in the file itself.
Entry   == [digest : Content, origin : {"sdk", "provider", "toolchain"}, authored : BOOLEAN]
Points  == {"rest", "clear", "park", "install", "unpark", "sdkSave",
            "provider", "remove", "providerSave", "tidy", "build", "refresh"}
Verbs   == {"sdk", "provider"}
NoTree  == <<>>
NoRun   == <<NoDoc, NoDoc>>

Emitted(d, s) == [doc |-> d, sdk |-> s, state |-> "emitted"]
Changed(f, S, state) ==
  [p \in DOMAIN f |->
     IF p \in S THEN [doc |-> f[p].doc, sdk |-> f[p].sdk, state |-> state] ELSE f[p]]
Written == [doc |-> NoDoc, sdk |-> NoDoc, state |-> "authored"]
With(f, p, c) == [q \in DOMAIN f \cup {p} |-> IF q = p THEN c ELSE f[q]]
Only(f, S)    == Restrict(f, DOMAIN f \cap S)

\* The document a tree was generated from; the SDK's.
DocOf(f) == f[CHOOSE p \in DOMAIN f : TRUE].doc
SdkDoc   == DocOf(out)

SdkWanted      == [p \in SdkOf[doc] |-> Emitted(doc, doc)]
ProviderWanted == [p \in ProviderOf[doc] |-> Emitted(doc, SdkDoc)]

Init ==
  /\ doc \in Docs
  /\ out = NoTree
  /\ parked = NoTree
  /\ tree = [p \in Authored |-> Written]
  /\ entries = [p \in Authored |-> [digest |-> Written, origin |-> "provider", authored |-> TRUE]]
  /\ readable = TRUE
  /\ pc = "rest"
  /\ todo = {}
  /\ drop = {}
  /\ done = [v \in Verbs |-> NoRun]
  /\ strayed = FALSE
  /\ jobs = 0
  /\ edits = 0

-----------------------------------------------------------------------------
(***************************************************************************)
(* Between runs: the document moves, a person edits a file.                *)
(***************************************************************************)
Revise(d) ==
  /\ pc = "rest"
  /\ d # doc
  /\ doc' = d
  /\ UNCHANGED <<out, parked, tree, manifest, pc, work, done, strayed, jobs, edits>>

Edit(p) ==
  /\ pc = "rest"
  /\ edits < MaxEdits
  /\ p \in (DOMAIN out \cup DOMAIN tree) \ Authored
  /\ out' = Changed(out, {p}, "edited")
  /\ tree' = Changed(tree, {p}, "edited")
  /\ edits' = edits + 1
  /\ UNCHANGED <<doc, parked, manifest, pc, work, done, strayed, jobs>>

-----------------------------------------------------------------------------
(***************************************************************************)
(* How a run starts and stops.                                             *)
(***************************************************************************)
Begins(verb, step) ==
  /\ pc = "rest"
  /\ readable
  /\ jobs < MaxJobs
  /\ jobs' = jobs + 1
  /\ done' = [done EXCEPT ![verb] = NoRun]
  /\ pc' = step

\* The steps between a file's change on disk and the manifest that records it.
Unrecorded == {"unpark", "sdkSave", "provider", "remove", "providerSave", "build", "refresh"}

Stops ==
  /\ pc' = "rest"
  /\ todo' = {}
  /\ drop' = {}
  /\ strayed' = (strayed \/ pc \in Unrecorded)
  /\ UNCHANGED <<doc, done, jobs, edits>>

\* recordToolchainWritten: the two files as they stand on disk.
Refreshed ==
  [p \in DOMAIN entries \cup ({GoMod, GoSum} \cap DOMAIN tree) |->
     IF p \notin {GoMod, GoSum} \cap DOMAIN tree THEN entries[p]
     ELSE IF p \in DOMAIN entries THEN [entries[p] EXCEPT !.digest = tree[p]]
     ELSE [digest |-> tree[p], origin |-> "toolchain", authored |-> FALSE]]

\* A filesystem error ends the run where it is.
StepFails ==
  /\ "rename" \in Faults
  /\ pc \in {"park", "provider"}
  /\ Stops
  /\ UNCHANGED <<out, parked, tree, manifest>>

\* manifest.Save truncates and rewrites the file: an error, or a kill, leaves
\* the old manifest or one that cannot be read.
SaveFails ==
  /\ Faults \cap {"save", "crash"} # {}
  /\ \/ pc \in {"sdkSave", "providerSave"}
     \/ pc = "refresh" /\ Refreshed # entries
  /\ Stops
  /\ readable' \in BOOLEAN
  /\ UNCHANGED <<out, parked, tree, entries>>

Crash ==
  /\ "crash" \in Faults
  /\ pc # "rest"
  /\ Stops
  /\ UNCHANGED <<out, parked, tree, manifest>>

-----------------------------------------------------------------------------
(***************************************************************************)
(* sdk generate.                                                           *)
(***************************************************************************)
\* RefusesWrites: no path to be written is marked.
MayWrite(S) == \A p \in S \cap DOMAIN entries : ~entries[p].authored

SdkGenerate ==
  /\ MayWrite(SdkOf[doc])
  /\ Begins("sdk", "clear")
  /\ UNCHANGED <<doc, out, parked, tree, manifest, work, strayed, edits>>

\* What an interrupted run left parked is removed first, file by file.
Clear ==
  /\ pc = "clear"
  /\ parked' = NoTree
  /\ pc' = "park"
  /\ UNCHANGED <<doc, out, tree, manifest, work, done, strayed, jobs, edits>>

\* Mutant: the previous directory is removed, not parked.
ParkNothing ==
  /\ pc = "park"
  /\ out' = NoTree
  /\ pc' = "install"
  /\ UNCHANGED <<doc, parked, tree, manifest, work, done, strayed, jobs, edits>>

Park ==
  /\ pc = "park"
  /\ parked' = out
  /\ out' = NoTree
  /\ pc' = "install"
  /\ UNCHANGED <<doc, tree, manifest, work, done, strayed, jobs, edits>>

Install ==
  /\ pc = "install"
  /\ out' = SdkWanted
  /\ pc' = "unpark"
  /\ UNCHANGED <<doc, parked, tree, manifest, work, done, strayed, jobs, edits>>

\* The parked directory is put back, unless that fails too.
InstallFails ==
  /\ "rename" \in Faults
  /\ pc = "install"
  /\ Stops
  /\ \/ out' = parked /\ parked' = NoTree
     \/ UNCHANGED <<out, parked>>
  /\ UNCHANGED <<tree, manifest>>

Unpark ==
  /\ pc = "unpark"
  /\ parked' = NoTree
  /\ pc' = "sdkSave"
  /\ UNCHANGED <<doc, out, tree, manifest, work, done, strayed, jobs, edits>>

\* A removal that fails, or a kill in it, leaves some of the files.
RemovalFails ==
  /\ Faults \cap {"unremovable", "crash"} # {}
  /\ pc \in {"clear", "unpark"}
  /\ \E S \in SUBSET DOMAIN parked : parked' = Only(parked, S)
  /\ Stops
  /\ UNCHANGED <<out, tree, manifest>>

\* Mutant: the marks are not carried forward.
NotOfUnmarked(origin) == {p \in DOMAIN entries : entries[p].origin # origin}

\* Mutant: a verb's inventory replaces the whole manifest.
NotOfAny(origin) == {p \in DOMAIN entries : entries[p].authored}

\* EntriesNotOf: what the other verbs recorded, and every mark, is carried forward.
NotOf(origin) == {p \in DOMAIN entries : entries[p].origin # origin \/ entries[p].authored}

\* Mutant: a path already recorded keeps its entry.
RecordedOnce(kept, wanted, origin) ==
  [p \in kept \cup DOMAIN wanted |->
     IF p \in DOMAIN entries THEN entries[p]
     ELSE [digest |-> wanted[p], origin |-> origin, authored |-> FALSE]]

Recorded(kept, wanted, origin) ==
  [p \in kept \cup DOMAIN wanted |->
     IF p \in DOMAIN wanted THEN [digest |-> wanted[p], origin |-> origin, authored |-> FALSE]
     ELSE entries[p]]

SdkSave ==
  /\ pc = "sdkSave"
  /\ entries' = Recorded(NotOf("sdk"), SdkWanted, "sdk")
  /\ done' = [done EXCEPT !["sdk"] = <<doc, doc>>]
  /\ pc' = "rest"
  /\ UNCHANGED <<doc, out, parked, tree, readable, work, strayed, jobs, edits>>

-----------------------------------------------------------------------------
(***************************************************************************)
(* provider generate.                                                      *)
(***************************************************************************)
OwnFiles == {p \in DOMAIN entries \cap DOMAIN tree :
               entries[p].origin = "provider" /\ ~entries[p].authored}
Unproduced == OwnFiles \ ProviderOf[doc]

ProviderGenerate ==
  /\ out # NoTree
  /\ MayWrite(ProviderOf[doc])
  /\ Begins("provider", "provider")
  /\ todo' = ProviderOf[doc]
  /\ drop' = Unproduced
  /\ UNCHANGED <<doc, out, parked, tree, manifest, strayed, edits>>

InstallFile(p) ==
  /\ pc = "provider"
  /\ p \in todo
  /\ tree' = With(tree, p, ProviderWanted[p])
  /\ todo' = todo \ {p}
  /\ pc' = IF todo' # {} THEN pc ELSE "remove"
  /\ UNCHANGED <<doc, out, parked, manifest, drop, done, strayed, jobs, edits>>

RemoveFile(p) ==
  /\ pc = "remove"
  /\ p \in drop
  /\ tree' = Only(tree, DOMAIN tree \ {p})
  /\ drop' = drop \ {p}
  /\ UNCHANGED <<doc, out, parked, manifest, pc, todo, done, strayed, jobs, edits>>

\* A file that will not delete is left.
LeaveFile(p) ==
  /\ "unremovable" \in Faults
  /\ pc = "remove"
  /\ p \in drop
  /\ drop' = drop \ {p}
  /\ strayed' = TRUE
  /\ UNCHANGED <<doc, out, parked, tree, manifest, pc, todo, done, jobs, edits>>

AllRemoved ==
  /\ pc = "remove"
  /\ drop = {}
  /\ pc' = "providerSave"
  /\ UNCHANGED <<doc, out, parked, tree, manifest, work, done, strayed, jobs, edits>>

ProviderSave ==
  /\ pc = "providerSave"
  /\ entries' = Recorded(NotOf("provider"), ProviderWanted, "provider")
  /\ pc' = "tidy"
  /\ UNCHANGED <<doc, out, parked, tree, readable, work, done, strayed, jobs, edits>>

\* Verification is off, there is no go tool, or it cannot reach the network.
SkipVerification ==
  /\ pc \in {"tidy", "build"}
  /\ pc' = "refresh"
  /\ UNCHANGED <<doc, out, parked, tree, manifest, work, done, strayed, jobs, edits>>

\* go mod tidy rewrites go.mod and writes go.sum.
Tidied == [Emitted(doc, SdkDoc) EXCEPT !.state = "tidied"]

Tidy ==
  /\ pc = "tidy"
  /\ tree' = With(With(tree, GoMod, Tidied), GoSum, Tidied)
  /\ pc' = "build"
  /\ UNCHANGED <<doc, out, parked, manifest, work, done, strayed, jobs, edits>>

Build ==
  /\ pc = "build"
  /\ pc' = "refresh"
  /\ UNCHANGED <<doc, out, parked, tree, manifest, work, done, strayed, jobs, edits>>

\* The run returns the toolchain's error and leaves the manifest as it saved it.
BuildFails ==
  /\ "build" \in Faults
  /\ pc \in {"tidy", "build"}
  /\ Stops
  /\ UNCHANGED <<out, parked, tree, manifest>>

Refresh ==
  /\ pc = "refresh"
  /\ entries' = Refreshed
  /\ done' = [done EXCEPT !["provider"] = <<doc, SdkDoc>>]
  /\ pc' = "rest"
  /\ UNCHANGED <<doc, out, parked, tree, readable, work, strayed, jobs, edits>>

-----------------------------------------------------------------------------
Next ==
  \/ \E d \in Docs : Revise(d)
  \/ \E p \in SdkFiles \cup ProviderFiles : Edit(p)
  \/ StepFails \/ SaveFails \/ Crash
  \/ SdkGenerate \/ Clear \/ Park \/ Install \/ InstallFails \/ Unpark \/ RemovalFails \/ SdkSave
  \/ ProviderGenerate
  \/ \E p \in ProviderFiles : InstallFile(p) \/ RemoveFile(p) \/ LeaveFile(p)
  \/ AllRemoved \/ ProviderSave
  \/ SkipVerification \/ Tidy \/ Build \/ BuildFails \/ Refresh

Spec == Init /\ [][Next]_vars

-----------------------------------------------------------------------------
(***************************************************************************)
(* The drift gates, as they answer of the repository as it stands.         *)
(***************************************************************************)
Missing(want, have) == {<<"missing", p>> : p \in DOMAIN want \ DOMAIN have}
Differing(want, have) ==
  {<<"changed", p>> : p \in {q \in DOMAIN want \cap DOMAIN have : want[q] # have[q]}}

\* Mutant: a file the regeneration covers is not held to its digest too.
HandEditedElse(have, want, mine) ==
  {<<"hand-edited", p>> : p \in {q \in mine \ DOMAIN want : entries[q].digest # have[q]}}

\* A verb's recorded files whose bytes are not those recorded.
HandEdited(have, want, mine) ==
  {<<"hand-edited", p>> : p \in {q \in mine : entries[q].digest # have[q]}}

SdkRecorded == {p \in DOMAIN entries \cap DOMAIN out :
                  entries[p].origin = "sdk" /\ ~entries[p].authored}

SdkDrifts ==
  Missing(SdkWanted, out) \cup Differing(SdkWanted, out)
    \cup {<<"extra", p>> : p \in DOMAIN out \ DOMAIN SdkWanted}
    \cup HandEdited(out, SdkWanted, SdkRecorded)

ProviderDrifts ==
  Missing(ProviderWanted, tree)
    \cup (Differing(ProviderWanted, tree) \ {<<"changed", p>> : p \in {GoMod, GoSum}})
    \cup {<<"extra", p>> : p \in Unproduced}
    \cup HandEdited(tree, ProviderWanted, OwnFiles)

-----------------------------------------------------------------------------
(***************************************************************************)
(* Properties.                                                             *)
(***************************************************************************)

\* What a gate can be asked: it needs the manifest, and the provider's the SDK.
Answers == pc = "rest" /\ readable /\ out # NoTree

StateOf(p) == IF p \in DOMAIN out THEN out[p].state
              ELSE IF p \in DOMAIN tree THEN tree[p].state ELSE "absent"
IsEdited(p) == StateOf(p) = "edited"

\* Whatever was interrupted, edited or revised before it, a verb that succeeds
\* leaves a tree its own gate has nothing to say of while its inputs stand,
\* but for the files edited since.
SuccessIsClean ==
  Answers =>
    /\ done["sdk"] = <<doc, doc>> => \A d \in SdkDrifts : IsEdited(d[2])
    /\ done["provider"] = <<doc, SdkDoc>> => \A d \in ProviderDrifts : IsEdited(d[2])

\* An edit to a file either verb recorded never passes its gate.
EditsCaught ==
  Answers =>
    \A p \in DOMAIN entries \ {GoSum} :
      IsEdited(p) => \E d \in SdkDrifts \cup ProviderDrifts : d[2] = p

\* Neither verb strands what the other recorded: unless a run was stopped
\* before it had saved, or a file would not delete, the manifest accounts for
\* every file on disk.
Accounted ==
  pc = "rest" /\ readable /\ ~strayed => DOMAIN out \cup DOMAIN tree \subseteq DOMAIN entries

\* No sequence of generations writes or removes a file a person owns.
AuthoredUntouched == \A p \in Authored : p \in DOMAIN tree /\ tree[p] = Written

-----------------------------------------------------------------------------
(***************************************************************************)
(* The SDK's replacement implements the one AtomicTree promises.           *)
(***************************************************************************)
\* f is what the backend generates from one document, whole.
Whole(f) == \E d \in Docs : DOMAIN f = SdkOf[d] /\ \A p \in DOMAIN f : f[p].doc = d

Exposed  == DOMAIN out = {} /\ DOMAIN parked # {}
Standing == IF Exposed THEN parked ELSE out

\* What AtomicTree sees: the document the tree is whole of, and where it stands.
Value == IF Whole(Standing) THEN DocOf(Standing) ELSE NoDoc
Stage == IF ~Exposed THEN "held" ELSE IF pc = "clear" THEN "risk" ELSE "exposed"

Replacement == INSTANCE AtomicTree WITH value <- Value, stage <- Stage

\* sdk generate's swap loses or mixes a tree nowhere but where the abstract
\* replacement does: killed between its two renames, and run again.
SwapIsAtomic == Replacement!Spec
=============================================================================
