---------------------------- MODULE SpecRevision ----------------------------
(***************************************************************************)
(* The specification directory and the verbs that move it: import pins a   *)
(* vendor's document, the audit records what the live API does, propose    *)
(* compiles what the document does not say into corrections, a person      *)
(* accepts or rejects each, and revise writes the document the generators  *)
(* read.                                                                   *)
(*                                                                         *)
(* Every file is state: a verb may be killed between two of its writes and *)
(* finds, when it runs again, what it left.                                *)
(***************************************************************************)
EXTENDS CorrectionCompiler

CONSTANTS
    Documents,   \* the documents the vendor publishes, by digest
    Published,   \* what the vendor may publish once a document is pinned, by digest
    Scenarios,   \* what successive audits find, and a correction a person proposed
    AutoAccept,  \* audit.auto_accept: the kinds that skip review
    NoFile,      \* nothing there
    TornFile,    \* a lock a kill left unreadable
    LastOrdinal, \* bound: the largest number a file is given
    MaxKills     \* bound: how many verbs are killed

\* A person's own file has a name without a number, and a number three
\* digits: a file of four is not known for a numbered one.
ASSUME HandAssumption ==
    /\ LastOrdinal \in 0 .. 999
    /\ \A s \in Scenarios : \A f \in DOMAIN s.hand : f.class = 3 /\ f.n = 0

VARIABLES
    document,   \* spec/openapi document, by digest
    pin,        \* the digest its lock names; NoFile when absent, TornFile when torn
    audits,     \* what this audit and those after it find
    stamp,      \* the digest the committed observations name
    accepted,   \* corrections/*.correction.json, by file name
    proposed,   \* corrections/proposed/*.correction.json, by file name
    rejected,   \* observations with a marker in corrections/rejected/
    revised,    \* the document revised.yaml was written from; NoFile when there is none
    verb,       \* "propose" while corrections are written, "revise" from then until
                \* spec revise has written the revision
    due,        \* the corrections compiled and not yet written
    next,       \* the number the next file written takes
    broken,     \* whether propose met a correction of its own that does not apply
    kills       \* how many verbs were killed

imported == <<document, pin>>
files    == <<accepted, proposed, rejected>>
writing  == <<verb, due, next>>
vars     == <<document, pin, audits, stamp, accepted, proposed, rejected,
              revised, verb, due, next, broken, kills>>

NoEvidence   == <<>>
Found        == audits[1]
Verified     == pin \notin {NoFile, TornFile} /\ document = pin

\* NNN-entity sorts before auto-NNN-entity, and a person's own name after.
Name(auto, n, entity) == [class |-> IF auto THEN 2 ELSE 1, n |-> n, entity |-> entity]
HandName      == [class |-> 3, n |-> 0, entity |-> Alphabet[1]]
NameRank(f)   == <<f.class, f.n, Position(f.entity)>>
InFileOrder(files_) ==
    LET names == SetToSortSeq(DOMAIN files_, LAMBDA a, b : Precedes(NameRank(a), NameRank(b)))
    IN  [i \in DOMAIN names |-> files_[names[i]] @@ [file |-> names[i]]]

State(files_) == Apply(Documents[document], InFileOrder(files_))

-----------------------------------------------------------------------------
(* What one run of propose gathers before it compiles. *)

VetoSet(obs)     == {<<o.entity, o.attr>> : o \in {x \in obs : x.kind = "derivedDefault"}}
VariantSets(obs) ==
    LET edges == {o \in obs : o.kind = "validWhen"}
    IN  [f \in {Last(o.attr) : o \in edges} |->
            {<<o.entity, o.cond.field, o.cond.equals>> : o \in {e \in edges : Last(e.attr) = f}}]

\* Each pointer an accepted correction wrote, by the last evidence to do so.
AcceptedEvidence(files_) ==
    LET seq   == SelectSeq(InFileOrder(files_), LAMBDA c : c.evidence # NoEvidence)
        wrote(p) == {i \in DOMAIN seq : \E j \in DOMAIN seq[i].ops : seq[i].ops[j].path = p}
    IN  [p \in UNION {{op.path : op \in ToSet(seq[i].ops)} : i \in DOMAIN seq} |->
            seq[CHOOSE i \in wrote(p) : \A j \in wrote(p) : j <= i].evidence]

\* Values known to be taken at an enum: accepted additions, and the
\* observations' own.
AcceptedValueSites(d, obs, files_) ==
    LET added == {<<Front(op.path), op.value[<<>>].value>> :
                     op \in {x \in UNION {ToSet(files_[f].ops) : f \in DOMAIN files_} :
                               /\ x.op = "add" /\ Len(x.path) > 1 /\ Last(x.path) = "-"
                               /\ Last(Front(x.path)) = "enum"}}
        site(o) == Extension(d, PropertySite(d, o), "enum")
        seen  == UNION {{<<site(o), v>> : v \in o.taken} :
                           o \in {x \in obs : x.kind \in {"values", "writable"}}}
        all   == {pair \in added \cup seen : pair[1] # NoPlace}
    IN  [list \in {pair[1] : pair \in all} |-> {pair[2] : pair \in {q \in all : q[1] = list}}]

-----------------------------------------------------------------------------
(* One observation after another, each compiled against what the ones      *)
(* before it leave.                                                        *)

Confirmed(obs)  == {o \in obs : o.outcome = "confirmed"}

Making(s, o, made, after) ==
    [ok        |-> after.ok,
     doc       |-> after.doc,
     defaulted |-> IF o.kind = "serverDefault"
                   THEN (made.ops[1].path :> o.value) @@ s.defaulted ELSE s.defaulted,
     made      |-> Append(s.made, [evidence |-> Identity(o), ops |-> made.ops])]
Applied(s, o, made) ==
    IF made.category # "compiled" THEN s
    ELSE Making(s, o, made, Apply(s.doc, <<made @@ [file |-> NoFile]>>))
CompileOne(s, o, c) ==
    IF ~s.ok THEN s ELSE Applied(s, o, Compile(s.doc, o, c @@ [defaulted |-> s.defaulted]))

Gathered(doc, obs, files_) ==
    [vetoes       |-> VetoSet(obs),
     valid        |-> VariantSets(obs),
     restated     |-> AcceptedEvidence(files_),
     enumAccepted |-> AcceptedValueSites(doc, obs, files_)]
CompileAll(doc, obs, c) ==
    FoldLeft(LAMBDA s, o : CompileOne(s, o, c),
             [ok |-> TRUE, doc |-> doc, defaulted |-> <<>>, made |-> <<>>], obs)

\* The corrections a run makes of the observations, `ok` unless one does not
\* apply where it was compiled.
CompileFrom(doc, obs, files_, markers) ==
    CompileAll(doc,
               SelectSeq(SortObservations(obs), LAMBDA o : Identity(o) \notin markers),
               Gathered(doc, obs, files_))
Compilation(obs, files_, markers) ==
    CompileFrom(State(files_).doc, Confirmed(obs), files_, markers)

Kind(correction)     == correction.evidence[3]
Entity(correction)   == correction.evidence[1]
HighestOrdinalByCount(names) == Cardinality(names)
HighestOrdinal(names) == Max({0} \cup {f.n : f \in names})

\* autoFileFor: an auto-accepted file made from the same evidence.
AutoFileFor(files_, correction) ==
    {f \in DOMAIN files_ : f.class = 2 /\ files_[f].evidence = correction.evidence}

\* A file written, or written over, and one removed.
Placed(files_, f, correction) ==
    [g \in DOMAIN files_ \cup {f} |-> IF g = f THEN correction ELSE files_[g]]
Dropped(files_, f) == [g \in DOMAIN files_ \ {f} |-> files_[g]]

\* Where the next correction goes, and the number after it.
WriteOne(s, correction) ==
    LET own == AutoFileFor(s.accepted, correction)
        auto == Kind(correction) \in AutoAccept
        name == IF auto /\ own # {} THEN CHOOSE f \in own : TRUE
                ELSE Name(auto, s.next, Entity(correction))
    IN  [accepted |-> IF auto THEN Placed(s.accepted, name, correction) ELSE s.accepted,
         proposed |-> IF auto THEN s.proposed ELSE Placed(s.proposed, name, correction),
         next     |-> IF auto /\ own # {} THEN s.next ELSE s.next + 1]

\* clearCompiled: the proposals propose itself wrote.
HandAuthored(files_) == [f \in {g \in DOMAIN files_ : g.class = 3} |-> files_[f]]

-----------------------------------------------------------------------------
(* The verbs. *)

Init ==
    /\ document = NoFile /\ pin = NoFile /\ stamp = NoFile
    /\ \E s \in Scenarios : audits = s.finds /\ proposed = s.hand
    /\ accepted = <<>> /\ rejected = {}
    /\ revised = NoFile /\ verb = "idle" /\ due = <<>> /\ next = 0
    /\ broken = FALSE /\ kills = 0

Killed == kills < MaxKills /\ kills' = kills + 1

\* Import: the published document, then its lock.  A kill leaves the old
\* lock, or one torn, over which nothing is imported again.
Import ==
    /\ verb = "idle" /\ pin # TornFile
    /\ \E d \in Published[document] :
         /\ ~(document = d /\ pin = d)
         /\ document' = d
         /\ \/ pin' = d /\ kills' = kills
            \/ pin' \in {pin, TornFile} /\ Killed
    /\ UNCHANGED <<audits, stamp, files, revised, writing, broken>>

\* The audit replaces the observations, which name the document they are of.
Audit ==
    /\ verb = "idle" /\ Verified
    /\ audits' = IF stamp = NoFile THEN audits ELSE Tail(audits)
    /\ audits' # <<>>
    /\ stamp' = pin
    /\ UNCHANGED <<imported, files, revised, writing, broken, kills>>

\* ProposeWith, with --propose-only or without.  It begins by clearing what
\* it wrote before, whatever comes of it.
Begins(made) ==
    /\ verb' = "propose" /\ due' = made
    /\ next' = HighestOrdinal(DOMAIN accepted \cup DOMAIN HandAuthored(proposed)) + 1
    /\ UNCHANGED broken
Ran(run) ==
    IF run.ok THEN Begins(run.made) ELSE broken' = TRUE /\ UNCHANGED writing

Propose ==
    /\ verb = "idle" /\ Verified
    /\ proposed' = HandAuthored(proposed)
    /\ IF stamp = NoFile THEN Begins(<<>>)
       ELSE IF ~State(accepted).ok       \* a stale correction is named
       THEN UNCHANGED <<writing, broken>>
       ELSE \E run \in {Compilation(Found, accepted, rejected)} : Ran(run)
    /\ UNCHANGED <<imported, audits, stamp, accepted, rejected, revised, kills>>

\* One file at a time.
WriteCorrection ==
    /\ verb = "propose" /\ due # <<>>
    /\ \E s \in {WriteOne([accepted |-> accepted, proposed |-> proposed, next |-> next],
                          Head(due))} :
         /\ s.next <= LastOrdinal + 1
         /\ accepted' = s.accepted /\ proposed' = s.proposed /\ next' = s.next
    /\ due' = Tail(due)
    /\ UNCHANGED <<imported, audits, stamp, rejected, revised, verb, broken, kills>>

Rests(as) == verb' = as /\ due' = <<>> /\ next' = 0

Proposed ==
    /\ verb = "propose" /\ due = <<>>
    /\ \E as \in {"idle", "revise"} : Rests(as)
    /\ UNCHANGED <<imported, audits, stamp, files, revised, broken, kills>>

\* A kill before all is written, and one before all is cleared, file by file
\* in the order of their names.
Kill ==
    /\ verb # "idle" /\ Rests("idle") /\ Killed
    /\ UNCHANGED <<imported, audits, stamp, files, revised, broken>>
KillClearing ==
    /\ verb = "idle" /\ Verified /\ Killed
    /\ \E f \in DOMAIN proposed \ DOMAIN HandAuthored(proposed) :
         proposed' = [g \in DOMAIN HandAuthored(proposed) \cup
                            {h \in DOMAIN proposed : Precedes(NameRank(f), NameRank(h))}
                        |-> proposed[g]]
    /\ UNCHANGED <<imported, audits, stamp, accepted, rejected, revised, writing, broken>>

\* Revised whatever awaits a decision.
RevisableUnheld == Verified /\ State(accepted).ok

\* WriteRevision, at once after proposing, or its refusal.
Revisable == Verified /\ proposed = <<>> /\ State(accepted).ok

WriteRevision ==
    /\ verb = "revise" /\ Rests("idle")
    /\ revised' = IF Revisable THEN document ELSE revised
    /\ UNCHANGED <<imported, audits, stamp, files, broken, kills>>

-----------------------------------------------------------------------------
(* The person. *)

Accept(f) ==
    /\ verb = "idle"
    /\ accepted' = Placed(accepted, f, proposed[f])
    /\ proposed' = Dropped(proposed, f)
    /\ UNCHANGED <<imported, audits, stamp, rejected, revised, writing, broken, kills>>

Reject(f) ==
    /\ verb = "idle"
    /\ proposed' = Dropped(proposed, f)
    /\ rejected' = rejected \cup ({proposed[f].evidence} \ {NoEvidence})
    /\ UNCHANGED <<imported, audits, stamp, accepted, revised, writing, broken, kills>>

Reconsider(o) ==
    /\ verb = "idle"
    /\ rejected' = rejected \ {o}
    /\ UNCHANGED <<imported, audits, stamp, accepted, proposed, revised, writing, broken, kills>>

\* An accepted correction the document no longer admits is deleted.
Withdraw(f) ==
    /\ verb = "idle" /\ Verified
    /\ ~State(accepted).ok /\ State(accepted).at = f
    /\ accepted' = Dropped(accepted, f)
    /\ UNCHANGED <<imported, audits, stamp, proposed, rejected, revised, writing, broken, kills>>

Next ==
    \/ Import
    \/ Audit
    \/ Propose
    \/ WriteCorrection
    \/ Proposed
    \/ Kill
    \/ KillClearing
    \/ WriteRevision
    \/ \E f \in DOMAIN proposed : Accept(f) \/ Reject(f)
    \/ \E o \in rejected : Reconsider(o)
    \/ \E f \in DOMAIN accepted : Withdraw(f)

Spec == Init /\ [][Next]_vars

-----------------------------------------------------------------------------
(* Properties. *)

\* What propose compiles applies where it was compiled: indices into lists
\* and containers to be created are those of the document as the corrections
\* before it leave it ("internal: the correction compiled ... does not apply").
CompiledApplies == ~broken

\* Two conditions on one property share the one key that holds a condition.
OneConditionEach(obs) ==
    \A o, p \in {x \in obs : x.kind \in DOMAIN ConditionKeys} :
        <<o.kind, o.entity, o.attr>> = <<p.kind, p.entity, p.attr>> => o = p

\* The corrections as they would be, were everything that is proposed now
\* accepted.
AllAccepted(made) ==
    LET from == HighestOrdinal(DOMAIN accepted) + 1
        all  == FoldLeft(WriteOne, [accepted |-> accepted, proposed |-> <<>>, next |-> from], made)
    IN  all.accepted @@ all.proposed

Settles(after) == State(after).ok /\ Compilation(Found, after, rejected).made = <<>>

\* Accepting settles: whatever was decided before, if every correction that
\* propose would make now were accepted they would apply to the document
\* together, and proposing again would make none.
AcceptingSettles ==
    Verified /\ stamp # NoFile /\ State(accepted).ok /\ OneConditionEach(Found) =>
        Settles(AllAccepted(Compilation(Found, accepted, rejected).made))

\* A verb never loses a decision: an accepted correction is rewritten only by
\* the same evidence, and goes only when a person withdraws it.
DecisionsKept ==
    [][ \A f \in DOMAIN accepted :
          \/ f \in DOMAIN accepted' /\ accepted'[f].evidence = accepted[f].evidence
          \/ ~State(accepted).ok ]_vars

KeepsTaken(before, after) ==
    \A o \in {x \in Confirmed(Found) : x.kind = "writable"} :
        \A site \in {PropertySite(after, o)} :
            LET list == Extension(after, site, "enum")
                was  == Extension(before, site, "enum")
            IN  list # NoPlace /\ was # NoPlace =>
                    o.taken \cap ToSet(before[was].items) \subseteq ToSet(after[list].items)

\* A value some entity is known to send stays declared: no correction of
\* another entity's takes it out of the enum they share.
TakenStayDeclared ==
    Verified /\ stamp # NoFile /\ State(accepted).ok =>
        KeepsTaken(State(accepted).doc, Compilation(Found, accepted, rejected).doc)

\* What a revision is written from leaves nothing open: with the document,
\* the observations and the markers it saw, propose would find no correction
\* still to be decided.
RevisionSettled ==
    [][ WriteRevision /\ Revisable /\ stamp # NoFile /\ OneConditionEach(Found) =>
          Compilation(Found, accepted, rejected).made = <<>> ]_vars

=============================================================================
