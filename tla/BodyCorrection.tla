--------------------------- MODULE BodyCorrection ---------------------------
(***************************************************************************)
(* How the audit turns a refused request body into one the API takes, and  *)
(* what it writes down on the way: the bounded loop that makes one change  *)
(* per refusal (adjust.go), the values it cycles through when the refusal  *)
(* names no change (cycle.go), the ids it borrows (borrow.go) and the      *)
(* search that adds one field after another (steps_create.go).             *)
(*                                                                         *)
(* A behaviour is one step of an entity's program, on a run with a         *)
(* strategy.  The API answers every body as it likes; what matters of an   *)
(* answer is how it is classified and which fields it mentions.  A body    *)
(* gives each field a value or leaves it out; the members of a composite   *)
(* value are not told apart.  Where the code goes through fields in        *)
(* alphabetical order, the order is left open.                             *)
(***************************************************************************)
EXTENDS Integers, Sequences, FiniteSets

CONSTANTS
  Fields,        \* The fields a refusal may name.
  Declared,      \* Those the entity's hints declare.
  Enumerated,    \* The declared ones with an enum of two members or more.
  Composite,     \* The declared ones with members the document attests.
  Members,       \* The members of every enum.
  Segments,      \* The static segments of the collection path.
  Gate,          \* The field the strategy ranks first as a discriminator.
  NoField,       \* No field.
  Jobs,          \* The steps a behaviour may be of.
  Answers,       \* The answers the API may give.
  Attempts,      \* maxBodyCorrectionAttempts.
  ProbeAttempts, \* maxConditionalProbeAttempts.
  CycleAttempts, \* maxCycleAttempts.
  SearchLimit    \* fieldAdditionAttemptLimit's cap.

Absent == "absent"
\* What synthesiseField, a revaluing, an attested widening and a borrow put in.
Values == {Absent, "plain", "moved", "wide", "lent"} \cup Members \cup Segments
Body   == [Fields -> Values]

Kinds == {"minimal", "probe", "half", "parent", "update"}
\* held: the field the step pins; attribute: the one it exercises.
Job == [kind : Kinds, held : Fields \cup {NoField},
        attribute : Fields \cup {NoField}, body : Body]

Acts == {"add", "requires", "revalue", "postpone", "remove", "borrow", "stop"}
\* kind "unseen" is an error of the request itself, "other" any status that is
\* neither success, refusal nor 5xx.  fields: what the refusal says to change,
\* first choice first; loose: mustBeDeclared; beside: mutuallyExclusiveWith;
\* quoted: the field whose present value the message quotes.
Answer == [kind : {"created", "refused", "conflict", "server", "other", "unseen"},
           act : Acts, fields : Seq(Fields), loose : BOOLEAN,
           beside : Fields \cup {NoField}, names : SUBSET Fields,
           quoted : Fields \cup {NoField}]
NoAnswer == [kind |-> "other", act |-> "stop", fields |-> <<>>, loose |-> FALSE,
             beside |-> NoField, names |-> {}, quoted |-> NoField]

ASSUME CorrectionAssumption ==
  /\ IsFiniteSet(Fields) /\ IsFiniteSet(Members) /\ IsFiniteSet(Segments)
  /\ Declared \subseteq Fields /\ Enumerated \subseteq Declared
  /\ Composite \subseteq Declared /\ Enumerated \cap Composite = {}
  /\ NoField \notin Fields
  /\ Gate \in Enumerated \cup {NoField}
  /\ Absent \notin Members \cup Segments
  /\ Jobs \subseteq Job
  /\ Answers \subseteq Answer
  /\ \A a \in Answers : a.act # "stop" => a.fields # <<>>
  /\ Attempts \in Nat /\ ProbeAttempts \in Nat
  /\ CycleAttempts \in Nat /\ SearchLimit \in Nat

VARIABLES
  job,      \* The step.
  at,       \* Where it is.
  body,     \* The body being corrected.
  i,        \* Passes of the loop.
  res,      \* The answer being dealt with.
  pending,  \* An answer already had for the body as it is, or NoAnswer.
  applied,  \* The changes made, each at most once: <<kind, field>>.
  adds,     \* Fields added, to be claimed when a body is taken.
  choice,   \* The added field that was one of several offered.
  adjusted, \* bodyCorrected.
  trial,    \* The field whose values are being tried, its own, those left.
  tries,    \* Values cycled through.
  search,   \* The additive search: its candidates, the index, fields tried.
  lent,     \* The borrow cache for the collection.
  evidence, \* What has been written down.
  answered, \* The body that res, or else pending, was the answer to.
  taken     \* The body the API took, and whether it did.

loopVars  == <<i, res, pending, applied, adds, choice>>
trialVars == <<trial, tries, search>>
vars == <<job, at, body, loopVars, adjusted, trialVars, lent, evidence,
          answered, taken>>

NoChoice == [field |-> NoField, among |-> <<>>]
NoTrial  == [field |-> NoField, own |-> Absent, left |-> {}]
Nothing  == [is |-> FALSE, body |-> [f \in Fields |-> Absent]]

Init ==
  /\ job \in Jobs
  /\ at = "loop"
  /\ body = job.body
  /\ i = 0
  /\ res = NoAnswer
  /\ pending = NoAnswer
  /\ applied = {}
  /\ adds = {}
  /\ choice = NoChoice
  /\ adjusted = FALSE
  /\ trial = NoTrial
  /\ tries = 0
  /\ search = [fields |-> <<>>, n |-> 1, tried |-> 0]
  /\ lent = "unread"
  /\ evidence = {}
  /\ answered = job.body
  /\ taken = Nothing

-----------------------------------------------------------------------------
(***************************************************************************)
(* Ends of a step, and what each writes down.                              *)
(***************************************************************************)
Record == job.kind # "parent"
Limit  == IF job.kind \in {"probe", "half"} THEN ProbeAttempts ELSE Attempts

Refused(a)    == a.kind \in {"refused", "conflict"}
Present(b, f) == b[f] # Absent
With(b, f, v) == [b EXCEPT ![f] = v]

Claims(fields) == {<<"add", f>> : f \in fields}

ValueConcluded(accepted, corrected, a) ==
  IF accepted THEN {<<"accepted", job.attribute, job.body[job.attribute]>>}
  ELSE IF ~corrected /\ a.quoted = job.attribute
       THEN {<<"rejected", job.attribute, job.body[job.attribute]>>}
       ELSE {}

\* ... and one half of a required-when pair about the attribute.
Concluded(accepted, corrected, a) ==
  CASE job.kind = "probe" /\ (accepted \/ Refused(a)) ->
         ValueConcluded(accepted, corrected, a)
    [] job.kind = "half" /\ (accepted \/ Refused(a)) ->
         {<<"half", job.attribute, Present(job.body, job.attribute), accepted>>}
    [] OTHER -> {}

\* The API took b.
Taken(b, claims) ==
  /\ taken' = [is |-> TRUE, body |-> b]
  /\ evidence' = evidence \cup claims \cup Concluded(TRUE, TRUE, res)
  /\ at' = "done"

TakenByLoop(b, facts) ==
  Taken(b, facts \cup (IF Record THEN Claims(adds) ELSE {}))

\* The loop gives up with the answer a; a minimal create then searches.
Unresolved(a, facts) ==
  /\ at' = IF job.kind = "minimal" /\ (Refused(a) \/ a.kind = "server")
           THEN "fields" ELSE "done"
  /\ evidence' = evidence \cup facts \cup Concluded(FALSE, adjusted, a)
  /\ UNCHANGED taken

Fails == at' = "done" /\ UNCHANGED <<evidence, taken>>

Goes(where) == at' = where /\ UNCHANGED <<evidence, taken>>

-----------------------------------------------------------------------------
(***************************************************************************)
(* The loop: send the body, or take up an answer already had.              *)
(***************************************************************************)
Attempt ==
  /\ at = "loop" /\ i < Limit
  /\ pending = NoAnswer
  /\ res' \in Answers
  /\ answered' = body
  /\ i' = i + 1
  /\ Goes("answer")
  /\ UNCHANGED <<job, body, pending, applied, adds, choice, adjusted, trialVars, lent>>

Resume ==
  /\ at = "loop" /\ i < Limit
  /\ pending # NoAnswer
  /\ res' = pending
  /\ pending' = NoAnswer
  /\ i' = i + 1
  /\ Goes("answer")
  /\ UNCHANGED <<job, body, applied, adds, choice, adjusted, trialVars, lent,
                 answered>>

\* The bound: the last refusal dealt with is the result.
Exhausted ==
  /\ at = "loop" /\ i = Limit
  /\ IF job.kind = "update" THEN Goes("done") ELSE Unresolved(res, {})
  /\ UNCHANGED <<job, body, loopVars, adjusted, trialVars, lent, answered>>

\* adjustUpdate claims its adds on any answer that is not a refusal.
Ends ==
  /\ at = "answer"
  /\ \/ res.kind = "unseen" /\ Fails
     \/ res.kind = "created" /\ TakenByLoop(body, {})
     \/ /\ res.kind \in {"server", "other", "conflict"}
        /\ job.kind # "update"
        /\ Unresolved(res, {})
     \/ /\ res.kind \in {"server", "other"}
        /\ job.kind = "update"
        /\ at' = "done"
        /\ evidence' = evidence \cup Claims(adds)
        /\ UNCHANGED taken
  /\ UNCHANGED <<job, body, loopVars, adjusted, trialVars, lent, answered>>

Classifying ==
  /\ at = "answer"
  /\ res.kind = "refused" \/ (res.kind = "conflict" /\ job.kind = "update")

\* nextChoice: the declared fields offered after the refused one, if any.
NextChoices ==
  LET Open(k) == choice.among[k] \in Declared /\ ~Present(body, choice.among[k])
  IN {choice.among[k] : k \in {k \in DOMAIN choice.among :
        /\ Open(k)
        /\ \E j \in 1 .. k - 1 :
             /\ choice.among[j] = choice.field /\ choice.field \in Declared
             /\ \A m \in j + 1 .. k - 1 : ~Open(m)}}

ChoiceRefused ==
  /\ job.kind # "update"
  /\ choice.field \in res.names
  /\ NextChoices # {}

\* withoutAdd: what the API refused by name is not claimed.
GivenWayKept(next) == adds \cup {next}

GivenWay(next) == (adds \ {choice.field}) \cup {next}

NextChoice ==
  /\ Classifying
  /\ ChoiceRefused
  /\ \E next \in NextChoices :
       /\ body' = With(With(body, choice.field, Absent), next, "plain")
       /\ adds' = GivenWay(next)
       /\ applied' = applied \cup {<<"a", next>>}
       /\ choice' = [choice EXCEPT !.field = next]
  /\ adjusted' = TRUE
  /\ Goes("loop")
  /\ UNCHANGED <<job, i, res, pending, trialVars, lent, answered>>

-----------------------------------------------------------------------------
(***************************************************************************)
(* One change, read out of the refusal.                                    *)
(***************************************************************************)
\* addField: the first candidate declared and absent; failing that the word
\* itself, or any declared field named where the sentence is a loose one.
AddFields ==
  LET Open(f) == f \in Declared /\ ~Present(body, f)
      offered == {res.fields[k] : k \in {k \in DOMAIN res.fields :
                    Open(res.fields[k]) /\ \A j \in 1 .. k - 1 : ~Open(res.fields[j])}}
  IN IF offered # {} THEN offered
     ELSE {f \in IF res.loose THEN res.names \cap Declared ELSE {res.fields[1]} :
             ~Present(body, f)}

\* A change of the field f to v, made once under its mark, and the fact it
\* records.
Change(mark, f, v, fact) ==
  IF <<mark, f>> \in applied THEN {}
  ELSE {[body |-> With(body, f, v), mark |-> <<mark, f>>,
         facts |-> IF Record THEN fact ELSE {}, adds |-> {}, choice |-> NoChoice]}

\* The choice an add leaves open.
Offered(f) == IF Len(res.fields) > 1 THEN [field |-> f, among |-> res.fields]
              ELSE NoChoice

Additions == UNION {
  {[c EXCEPT !.adds = {f}, !.choice = Offered(f)] : c \in Change("a", f, "plain", {})} :
  f \in AddFields}

\* applyAdjustment: what the refusal lets the loop do, if anything. A
\* timestamp moved ahead is written down whoever asked.
Corrections ==
  LET f == res.fields[1]
  IN CASE res.act = "add" -> Additions
       [] res.act = "requires" /\ ~Present(body, f) ->
            Change("a", f, "plain", {<<"requires", f>>})
       [] res.act = "revalue" /\ body[f] = "plain" -> Change("v", f, "moved", {})
       [] res.act = "postpone" /\ body[f] = "plain" ->
            {[c EXCEPT !.facts = {<<"future", f>>}] : c \in Change("v", f, "moved", {})}
       [] res.act = "remove" /\ Present(body, f)
            /\ (res.beside # NoField => Present(body, res.beside)) ->
            Change("r", f, Absent, {<<"remove", f>>})
       [] res.act = "borrow" /\ lent = "lent" /\ body[f] # "lent" ->
            {[body |-> With(body, f, "lent"), mark |-> <<"b", f>>,
              facts |-> IF Record THEN {<<"borrow", f>>} ELSE {},
              adds |-> {}, choice |-> NoChoice]}
       [] OTHER -> {}

\* borrow: the collection is read once, and remembered as empty if it fails.
ReadCollection ==
  /\ Classifying
  /\ ~ChoiceRefused
  /\ res.act = "borrow" /\ lent = "unread"
  /\ lent' \in {"lent", "empty"}
  /\ UNCHANGED <<job, at, body, loopVars, adjusted, trialVars, evidence,
                 answered, taken>>

Adjust ==
  /\ Classifying
  /\ ~ChoiceRefused
  /\ \E c \in Corrections :
       /\ body' = c.body
       /\ applied' = applied \cup {c.mark}
       /\ adds' = adds \cup c.adds
       /\ choice' = c.choice
       /\ evidence' = evidence \cup c.facts
  /\ adjusted' = TRUE
  /\ at' = "loop"
  /\ UNCHANGED <<job, i, res, pending, trialVars, lent, answered, taken>>

\* No change to make: an update is answered, a create tries the values below.
Unclassified ==
  /\ Classifying
  /\ ~ChoiceRefused
  /\ Corrections = {}
  /\ ~(res.act = "borrow" /\ lent = "unread")
  /\ Goes(IF job.kind = "update" THEN "done" ELSE "widen")
  /\ UNCHANGED <<job, body, loopVars, adjusted, trialVars, lent, answered>>

-----------------------------------------------------------------------------
(***************************************************************************)
(* Composite fields, each sent once with the members the document attests. *)
(***************************************************************************)
\* The API took the body a trial sent, or answered it with something new.
TrialTaken(b, facts) ==
  /\ TakenByLoop(b, facts)
  /\ adjusted' = TRUE
  /\ UNCHANGED <<pending, answered>>

MovedOn(b, a, facts) ==
  /\ pending' = a
  /\ answered' = b
  /\ adjusted' = TRUE
  /\ at' = "loop"
  /\ evidence' = evidence \cup facts
  /\ UNCHANGED taken

\* The trial's request failed, or taught nothing.
TrialFails == Fails /\ UNCHANGED <<pending, answered, adjusted>>
TrialGoes(where, facts) ==
  /\ at' = where
  /\ evidence' = evidence \cup facts
  /\ UNCHANGED <<taken, pending, answered, adjusted>>

Narrow == {f \in Composite : /\ Present(body, f) /\ body[f] # "wide"
                             /\ <<"w", f>> \notin applied}

MovesOn(a, f)  == Refused(a) /\ f \notin a.names /\ a # res
SaysSame(a, f) == Refused(a) /\ ~MovesOn(a, f)

Widen ==
  /\ at = "widen"
  /\ \E f \in Narrow, a \in Answers :
       LET wider == With(body, f, "wide") IN
       /\ applied' = applied \cup {<<"w", f>>}
       /\ body' = IF a.kind = "created" \/ MovesOn(a, f) THEN wider ELSE body
       /\ CASE a.kind = "unseen" -> TrialFails
            [] a.kind = "created" -> TrialTaken(wider, {})
            [] MovesOn(a, f) -> MovedOn(wider, a, {})
            [] SaysSame(a, f) -> TrialGoes("widen", {})
            [] OTHER -> TrialGoes("segments", {})
  /\ UNCHANGED <<job, i, res, adds, choice, trialVars, lent>>

Widened ==
  /\ at = "widen"
  /\ Narrow = {}
  /\ Goes("segments")
  /\ UNCHANGED <<job, body, loopVars, adjusted, trialVars, lent, answered>>

-----------------------------------------------------------------------------
(***************************************************************************)
(* A documented value the refusal quotes, exchanged for the collection's   *)
(* own name for it.                                                        *)
(***************************************************************************)
Trying == trial.field # NoField

\* quotedEnumField: the field of b whose value the answer quotes.
Quoted(a, b) == IF a.quoted \in Enumerated /\ Present(b, a.quoted)
                THEN a.quoted ELSE NoField

SegmentField ==
  LET f == Quoted(res, body)
  IN IF f = job.held \/ <<"s", f>> \in applied THEN NoField ELSE f

\* Recorded against the entity being probed, whatever is being created.
SegmentFacts(v) ==
  {<<"accepted", trial.field, v>>} \cup
  (IF trial.own \in Members THEN {<<"rejected", trial.field, trial.own>>} ELSE {})

BeginSegments ==
  /\ at = "segments" /\ ~Trying
  /\ IF SegmentField = NoField
     THEN Goes("cycle") /\ UNCHANGED <<applied, trial>>
     ELSE /\ Goes("segments")
          /\ applied' = applied \cup {<<"s", SegmentField>>}
          /\ trial' = [field |-> SegmentField, own |-> body[SegmentField],
                       left |-> Segments \ {body[SegmentField]}]
  /\ UNCHANGED <<job, body, i, res, pending, adds, choice, adjusted, tries,
                 search, lent, answered>>

TrySegment ==
  /\ at = "segments" /\ Trying
  /\ \E v \in trial.left, a \in Answers :
       LET tried == With(body, trial.field, v)
           moved == Refused(a) /\ Quoted(a, tried) # trial.field
       IN
       /\ body' = tried
       /\ trial' = IF a.kind = "created" \/ moved THEN NoTrial
                   ELSE IF Refused(a) THEN [trial EXCEPT !.left = @ \ {v}]
                   ELSE [trial EXCEPT !.left = {}]
       /\ CASE a.kind = "unseen" -> TrialFails
            [] a.kind = "created" -> TrialTaken(tried, SegmentFacts(v))
            [] moved -> MovedOn(tried, a, SegmentFacts(v))
            [] OTHER -> TrialGoes("segments", {})
  /\ UNCHANGED <<job, i, res, applied, adds, choice, tries, search, lent>>

\* No value was taken: the field has its own again.
RestoredNot == body

Restored == With(body, trial.field, trial.own)

SegmentsTried ==
  /\ at = "segments" /\ Trying
  /\ trial.left = {}
  /\ body' = Restored
  /\ trial' = NoTrial
  /\ Goes("cycle")
  /\ UNCHANGED <<job, loopVars, adjusted, tries, search, lent, answered>>

-----------------------------------------------------------------------------
(***************************************************************************)
(* The other members of every enum the refusal names, except the pinned    *)
(* field's.                                                                *)
(***************************************************************************)
Named   == res.names \cap Declared

Targets == {f \in Named \cap Enumerated : f # job.held /\ Present(body, f)}
UntriedAgain == Targets

Untried == {f \in Targets : <<"c", f>> \notin applied}

gate == IF Gate # NoField THEN Gate ELSE job.held

\* valueOutcomeKey: the gate's value, and the field constrained under it.
Constrained(f) == IF f = gate THEN job.held ELSE f

Combination(b, f, accepted) ==
  IF gate = NoField \/ Constrained(f) = NoField THEN {}
  ELSE {<<"combination", b[gate], Constrained(f), b[Constrained(f)], accepted>>}

\* The value just refused is not sent again.
OthersAll(f) == Members
Others(f) == Members \ {body[f]}

NextTarget ==
  /\ at = "cycle" /\ ~Trying
  /\ \E f \in Untried :
       /\ applied' = applied \cup {<<"c", f>>}
       /\ trial' = [field |-> f, own |-> body[f], left |-> Others(f)]
       /\ evidence' = evidence \cup Combination(body, f, FALSE)
  /\ UNCHANGED <<job, at, body, i, res, pending, adds, choice, adjusted, tries,
                 search, lent, answered, taken>>

TryAnyValue ==
  /\ at = "cycle" /\ Trying
  /\ tries' = tries + 1
  /\ \E v \in trial.left, a \in Answers :
       LET tried == With(body, trial.field, v)
           fact  == Combination(tried, trial.field, a.kind = "created")
       IN
       /\ body' = tried
       /\ trial' = IF a.kind = "created" THEN NoTrial
                   ELSE IF Refused(a) THEN [trial EXCEPT !.left = @ \ {v}]
                   ELSE [trial EXCEPT !.left = {}]
       /\ CASE a.kind = "unseen" -> TrialFails
            [] a.kind = "created" -> TrialTaken(tried, fact)
            [] OTHER -> TrialGoes("cycle", fact)
  /\ UNCHANGED <<job, i, res, applied, adds, choice, search, lent>>

TryValue == tries < CycleAttempts /\ TryAnyValue

TargetTried ==
  /\ at = "cycle" /\ Trying
  /\ trial.left = {} \/ tries = CycleAttempts
  /\ body' = Restored
  /\ trial' = NoTrial
  /\ UNCHANGED <<job, at, loopVars, adjusted, tries, search, lent, evidence,
                 answered, taken>>

Inconclusive(f) ==
  IF gate = NoField \/ Constrained(f) = NoField THEN {}
  ELSE {<<"inconclusive", body[gate], Constrained(f)>>}

CycleEnds ==
  /\ at = "cycle" /\ ~Trying
  /\ Untried = {}
  /\ Unresolved(res, UNION {Inconclusive(f) : f \in Targets})
  /\ UNCHANGED <<job, body, loopVars, adjusted, trialVars, lent, answered>>

-----------------------------------------------------------------------------
(***************************************************************************)
(* The additive search: one declared field after another, those the last   *)
(* refusal mentions first, until the API takes the body.                   *)
(***************************************************************************)
Candidates == {f \in Declared : ~Present(body, f)}

\* fieldsToTry; what the document says of a field only orders it further.
Orders ==
  {q \in [1 .. Cardinality(Candidates) -> Candidates] :
     /\ \A f \in Candidates : \E k \in DOMAIN q : q[k] = f
     /\ \A j, k \in DOMAIN q : j < k /\ q[k] \in res.names => q[j] \in res.names}

BeginSearch ==
  /\ at = "fields"
  /\ \E q \in Orders : search' = [search EXCEPT !.fields = q]
  /\ adjusted' = TRUE
  /\ Goes("search")
  /\ UNCHANGED <<job, body, loopVars, trial, tries, lent, answered>>

Allowance == IF Len(search.fields) < SearchLimit THEN Len(search.fields)
             ELSE SearchLimit

\* The candidates up to the n-th that the body b carries.
Carried(n, b) == {search.fields[k] : k \in {k \in 1 .. n : Present(b, search.fields[k])}}

\* What the search makes of an answer: a refusal or a 5xx is about the body.
AboutBody(a)    == Refused(a) \/ a.kind = "server"
Objects(a, f)   == AboutBody(a) /\ f \in a.names
WorthWidening(f) == f \in Composite /\ search.n < Allowance

SearchGoes(a, where) == Goes(IF AboutBody(a) THEN where ELSE "done")

AddCandidate ==
  /\ at = "search"
  /\ search.n <= Allowance
  /\ \E a \in Answers :
       LET f     == search.fields[search.n]
           wider == With(body, f, "plain")
           again == Objects(a, f) /\ WorthWidening(f)
       IN
       /\ search' = [search EXCEPT !.tried = @ + 1, !.n = IF again THEN @ ELSE @ + 1]
       /\ body' = IF Objects(a, f) /\ ~again THEN body ELSE wider
       /\ IF a.kind = "created"
          THEN Taken(wider, Claims(Carried(search.n, wider)))
          ELSE SearchGoes(a, IF again THEN "wider" ELSE "search")
  /\ UNCHANGED <<job, loopVars, adjusted, trial, tries, lent, answered>>

\* The composite once more, with its attested members. Both this attempt and
\* the one before it advance the index.
WidenCandidate ==
  /\ at = "wider"
  /\ \E a \in Answers :
       LET f     == search.fields[search.n]
           wider == With(body, f, "wide")
       IN
       /\ search' = [search EXCEPT !.n = @ + 2]
       /\ body' = IF Objects(a, f) THEN With(body, f, Absent) ELSE wider
       /\ IF a.kind = "created"
          THEN Taken(wider, Claims(Carried(search.tried, wider)))
          ELSE SearchGoes(a, "search")
  /\ UNCHANGED <<job, loopVars, adjusted, trial, tries, lent, answered>>

SearchEnds ==
  /\ at = "search"
  /\ search.n > Allowance
  /\ Goes("done")
  /\ UNCHANGED <<job, body, loopVars, adjusted, trialVars, lent, answered>>

-----------------------------------------------------------------------------
Finished == at = "done" /\ UNCHANGED vars

Next ==
  \/ Attempt \/ Resume \/ Exhausted \/ Ends
  \/ NextChoice \/ ReadCollection \/ Adjust \/ Unclassified
  \/ Widen \/ Widened
  \/ BeginSegments \/ TrySegment \/ SegmentsTried
  \/ NextTarget \/ TryValue \/ TargetTried \/ CycleEnds
  \/ BeginSearch \/ AddCandidate \/ WidenCandidate \/ SearchEnds
  \/ Finished

\* Every request is answered or times out: the step goes on.
Spec == Init /\ [][Next]_vars /\ WF_vars(Next)

-----------------------------------------------------------------------------
(***************************************************************************)
(* What correcting a body may and may not do.                              *)
(***************************************************************************)
TypeOK ==
  /\ job \in Jobs
  /\ at \in {"loop", "answer", "widen", "segments", "cycle", "fields",
             "search", "wider", "done"}
  /\ body \in Body
  /\ i \in 0 .. Limit
  /\ res \in Answers \cup {NoAnswer}
  /\ pending \in Answers \cup {NoAnswer}
  /\ applied \subseteq {"a", "r", "v", "b", "w", "s", "c"} \X Fields
  /\ adds \subseteq Fields
  /\ choice \in [field : Fields \cup {NoField}, among : Seq(Fields)]
  /\ adjusted \in BOOLEAN
  /\ trial \in [field : Fields \cup {NoField}, own : Values, left : SUBSET Values]
  /\ tries \in 0 .. CycleAttempts
  /\ search \in [fields : Seq(Fields), n : Nat \ {0}, tried : Nat]
  /\ lent \in {"unread", "empty", "lent"}
  /\ answered \in Body
  /\ taken \in [is : BOOLEAN, body : Body]

\* Whatever is decided from a refusal is decided for the body that was refused:
\* a trial that did not work leaves no trace in the body (adjust.go:469,
\* cycle.go:100 and 315), and one that moved the create on takes its new answer
\* with it.
RefusalIsOfBody ==
  /\ at \in {"answer", "widen", "segments", "cycle"} /\ ~Trying => body = answered
  /\ at = "loop" /\ pending # NoAnswer => body = answered

\* What the code says of the fields a refusal had it add: the body the API took
\* carries every one that is recorded as required (adjust.go:227-229).
ClaimsWereTaken ==
  job.kind # "update" =>
    \A f \in Fields : <<"add", f>> \in evidence =>
      taken.is /\ Present(taken.body, f)

\* What it does: a field is recorded as required only once the step has been
\* answered, for a create by taking the body; and one the body no longer
\* carries then, because a later refusal had it removed, is on record as
\* removed too (adjust.go:568-586).
FalseClaimsAreContradicted ==
  \A f \in Fields : <<"add", f>> \in evidence =>
    /\ at = "done" /\ (job.kind # "update" => taken.is /\ taken.body = body)
    /\ Present(body, f) \/ <<"remove", f>> \in evidence

\* No combination of a gate's value and a sibling's is recorded both ways
\* (cycle.go:72-97): the inference reads an edge out of each.
NoContradiction ==
  \A e \in evidence : e[1] = "combination" /\ e[5] =>
    <<e[1], e[2], e[3], e[4], FALSE>> \notin evidence

\* Every step comes to an end.
Terminates == <>(at = "done")

=============================================================================
