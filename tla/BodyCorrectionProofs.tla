------------------------ MODULE BodyCorrectionProofs ------------------------
(***************************************************************************)
(* What holds of correcting a body for every set of fields, every step and *)
(* every API.                                                              *)
(***************************************************************************)
EXTENDS BodyCorrection, FiniteSetTheorems, WellFoundedInduction, TLAPS

-----------------------------------------------------------------------------
(***************************************************************************)
(* Types.                                                                  *)
(***************************************************************************)

\* Giving a field a value keeps a body a body.
LEMMA WithType ==
  ASSUME NEW b \in Body, NEW f, NEW v \in Values
  PROVE  With(b, f, v) \in Body
  BY DEF With, Body

\* The values the code itself puts in are values.
LEMMA OwnValues ==
  /\ {Absent, "plain", "moved", "wide", "lent"} \subseteq Values
  /\ Members \subseteq Values /\ Segments \subseteq Values
  BY DEF Values

\* A job's body is a body.
LEMMA JobBody ==
  ASSUME job \in Jobs
  PROVE  /\ job.body \in Body
         /\ job.held \in Fields \cup {NoField}
         /\ job.kind \in Kinds
  BY CorrectionAssumption DEF Job

\* An answer names what it would change, and there are fields in its fields.
LEMMA AnswerFields ==
  ASSUME NEW a \in Answers, a.act # "stop"
  PROVE  a.fields \in Seq(Fields) /\ a.fields[1] \in Fields
  BY CorrectionAssumption DEF Answer

\* The fields an add may put in are fields.
LEMMA AddFieldsType ==
  ASSUME res \in Answers, res.act # "stop"
  PROVE  AddFields \subseteq Fields
<1>1. res.fields \in Seq(Fields) /\ res.fields[1] \in Fields
  BY AnswerFields
<1>2. Declared \subseteq Fields
  BY CorrectionAssumption
<1>3. QED
  BY <1>1, <1>2 DEF AddFields

\* What one correction may do.
CorrectionType ==
  [body : Body, mark : {"a", "r", "v", "b"} \X Fields,
   facts : SUBSET ({"requires", "future", "remove", "borrow"} \X Fields),
   adds : SUBSET Fields,
   choice : [field : Fields \cup {NoField}, among : Seq(Fields)]]

LEMMA NoChoiceType == NoChoice \in [field : Fields \cup {NoField}, among : Seq(Fields)]
  BY DEF NoChoice

LEMMA ChangeType ==
  ASSUME body \in Body, NEW mark \in {"a", "r", "v"}, NEW f \in Fields,
         NEW v \in Values,
         NEW fact \in SUBSET ({"requires", "future", "remove", "borrow"} \X Fields)
  PROVE  \A c \in Change(mark, f, v, fact) : 
           /\ c \in CorrectionType 
           /\ c.body = With(body, f, v)
           /\ c.mark = <<mark, f>>
           /\ c.adds = {}
<1>1. With(body, f, v) \in Body
  BY WithType
<1>2. (IF Record THEN fact ELSE {}) \in SUBSET ({"requires", "future", "remove", "borrow"} \X Fields)
  OBVIOUS
<1>3. QED
  BY <1>1, <1>2, NoChoiceType DEF Change, CorrectionType

LEMMA OfferedType ==
  ASSUME res \in Answers, res.act # "stop", NEW f \in Fields
  PROVE  Offered(f) \in [field : Fields \cup {NoField}, among : Seq(Fields)]
<1>1. res.fields \in Seq(Fields)
  BY AnswerFields
<1>2. QED
  BY <1>1, NoChoiceType DEF Offered

LEMMA AdditionsType ==
  ASSUME body \in Body, res \in Answers, res.act # "stop"
  PROVE  \A c \in Additions : c \in CorrectionType
<1> SUFFICES ASSUME NEW c \in Additions
             PROVE  c \in CorrectionType
  OBVIOUS
<1>0. PICK f \in AddFields :
        c \in {[d EXCEPT !.adds = {f}, !.choice = Offered(f)] : d \in Change("a", f, "plain", {})}
  BY Zenon DEF Additions
<1>5. PICK d \in Change("a", f, "plain", {}) :
        c = [d EXCEPT !.adds = {f}, !.choice = Offered(f)]
  BY <1>0
<1>1. f \in Fields
  BY AddFieldsType
<1>2. d \in CorrectionType
  <2>1. "plain" \in Values
    BY OwnValues
  <2>2. {} \in SUBSET ({"requires", "future", "remove", "borrow"} \X Fields)
    OBVIOUS
  <2>3. QED
    BY <1>1, <2>1, <2>2, ChangeType
<1>3. Offered(f) \in [field : Fields \cup {NoField}, among : Seq(Fields)]
  BY <1>1, OfferedType
<1>4. QED
  BY <1>1, <1>2, <1>3, <1>5 DEF CorrectionType

LEMMA CorrectionsType ==
  ASSUME body \in Body, res \in Answers
  PROVE  \A c \in Corrections : c \in CorrectionType
<1> SUFFICES ASSUME NEW c \in Corrections PROVE c \in CorrectionType
  OBVIOUS
<1> DEFINE f == res.fields[1]
<1>1. CASE res.act = "add"
  BY <1>1, AdditionsType DEF Corrections
<1>2. CASE res.act # "add"
  <2>1. res.act # "stop"
    BY <1>2 DEF Corrections
  <2>2. f \in Fields
    BY <2>1, AnswerFields
  <2>3. \A tag \in {"requires", "future", "remove", "borrow"} :
          {<<tag, f>>} \in SUBSET ({"requires", "future", "remove", "borrow"} \X Fields)
    BY <2>2
  <2>4. Absent \in Values /\ "plain" \in Values /\ "moved" \in Values /\ "lent" \in Values
    BY OwnValues
  <2>5. {} \in SUBSET ({"requires", "future", "remove", "borrow"} \X Fields)
    OBVIOUS
  <2>6. CASE res.act = "requires"
    <3>1. c \in Change("a", f, "plain", {<<"requires", f>>})
      BY <2>6 DEF Corrections
    <3>2. QED
      BY <3>1, <2>2, <2>3, <2>4, ChangeType
  <2>7. CASE res.act = "revalue"
    <3>1. c \in Change("v", f, "moved", {})
      BY <2>7 DEF Corrections
    <3>2. QED
      BY <3>1, <2>2, <2>5, <2>4, ChangeType
  <2>8. CASE res.act = "postpone"
    <3>1. PICK d \in Change("v", f, "moved", {}) : c = [d EXCEPT !.facts = {<<"future", f>>}]
      BY <2>8 DEF Corrections
    <3>2. d \in CorrectionType
      BY <2>2, <2>5, <2>4, ChangeType
    <3>3. {<<"future", f>>} \in SUBSET ({"requires", "future", "remove", "borrow"} \X Fields)
      BY <2>3
    <3>4. QED
      BY <3>1, <3>2, <3>3 DEF CorrectionType
  <2>9. CASE res.act = "remove"
    <3>1. c \in Change("r", f, Absent, {<<"remove", f>>})
      BY <2>9 DEF Corrections
    <3>2. QED
      BY <3>1, <2>2, <2>3, <2>4, ChangeType
  <2>10. CASE res.act = "borrow"
    <3>1. c = [body |-> With(body, f, "lent"), mark |-> <<"b", f>>,
               facts |-> IF Record THEN {<<"borrow", f>>} ELSE {},
               adds |-> {}, choice |-> NoChoice]
      BY <2>10 DEF Corrections
    <3>2. With(body, f, "lent") \in Body
      BY <2>2, <2>4, WithType
    <3>3. (IF Record THEN {<<"borrow", f>>} ELSE {})
            \in SUBSET ({"requires", "future", "remove", "borrow"} \X Fields)
      BY <2>3, <2>5
    <3>4. QED
      BY <3>1, <3>2, <3>3, <2>2, NoChoiceType DEF CorrectionType
  <2>11. QED
    BY <1>2, <2>6, <2>7, <2>8, <2>9, <2>10 DEF Corrections
<1>3. QED
  BY <1>1, <1>2

LEMMA Limits ==
  /\ Limit \in Nat
  /\ job' = job => Limit' = Limit
  BY CorrectionAssumption DEF Limit

\* While a refusal is being classified, res is an answer the API gave.
LEMMA ClassifiedAnswer ==
  ASSUME TypeOK, Classifying
  PROVE  res \in Answers
  BY DEF TypeOK, Classifying, NoAnswer

LEMMA NextChoicesType ==
  ASSUME TypeOK
  PROVE  NextChoices \subseteq Fields
  BY CorrectionAssumption DEF TypeOK, NextChoices

\* What the end of a step does to where it is and to the body taken.
LEMMA TakenType ==
  ASSUME NEW b \in Body, NEW claims, Taken(b, claims)
  PROVE  at' = "done" /\ taken' \in [is : BOOLEAN, body : Body]
  BY DEF Taken

LEMMA TypeInit == Init => TypeOK
<1> SUFFICES ASSUME Init PROVE TypeOK
  OBVIOUS
<1>1. job.body \in Body
  BY JobBody DEF Init
<1>2. Absent \in Values
  BY OwnValues
<1>3. NoTrial \in [field : Fields \cup {NoField}, own : Values, left : SUBSET Values]
  BY <1>2 DEF NoTrial
<1>4. Nothing \in [is : BOOLEAN, body : Body]
  BY <1>2 DEF Nothing, Body
<1>5. [fields |-> <<>>, n |-> 1, tried |-> 0] \in [fields : Seq(Fields), n : Nat \ {0}, tried : Nat]
  OBVIOUS
<1>6. job \in Jobs /\ at = "loop" /\ i \in 0 .. Limit /\ tries \in 0 .. CycleAttempts
  BY Limits, CorrectionAssumption DEF Init
<1>7. body \in Body /\ answered \in Body
  BY <1>1 DEF Init
<1>8. trial \in [field : Fields \cup {NoField}, own : Values, left : SUBSET Values]
  BY <1>3 DEF Init
<1>9. taken \in [is : BOOLEAN, body : Body]
  BY <1>4 DEF Init
<1>10. search \in [fields : Seq(Fields), n : Nat \ {0}, tried : Nat]
  BY <1>5 DEF Init
<1>11. choice \in [field : Fields \cup {NoField}, among : Seq(Fields)]
  BY NoChoiceType DEF Init
<1>12. /\ res \in Answers \cup {NoAnswer} /\ pending \in Answers \cup {NoAnswer}
       /\ applied = {} /\ adds = {} /\ adjusted = FALSE /\ lent = "unread"
  BY DEF Init
<1>13. QED
  BY <1>6, <1>7, <1>8, <1>9, <1>10, <1>11, <1>12 DEF TypeOK

LEMMA TypeStep == TypeOK /\ [Next]_vars => TypeOK'
<1> SUFFICES ASSUME TypeOK, [Next]_vars PROVE TypeOK'
  OBVIOUS
<1> USE DEF loopVars, trialVars
<1>1. CASE Attempt
  BY <1>1, Limits DEF Attempt, TypeOK, Goes
<1>2. CASE Resume
  BY <1>2, Limits DEF Resume, TypeOK, Goes
<1>3. CASE Exhausted
  BY <1>3, Limits DEF Exhausted, TypeOK, Goes, Unresolved
<1>4. CASE Ends
  <2>1. CASE Fails
    BY <1>4, <2>1, Limits DEF Ends, Fails, TypeOK
  <2>2. CASE TakenByLoop(body, {})
    <3>1. at' = "done" /\ taken' \in [is : BOOLEAN, body : Body]
      BY <2>2, TakenType DEF TakenByLoop, TypeOK
    <3>2. QED
      BY <1>4, <3>1, Limits DEF Ends, TypeOK
  <2>3. CASE Unresolved(res, {})
    BY <1>4, <2>3, Limits DEF Ends, Unresolved, TypeOK
  <2>4. CASE at' = "done" /\ UNCHANGED taken
    BY <1>4, <2>4, Limits DEF Ends, TypeOK
  <2>5. QED
    BY <1>4, <2>1, <2>2, <2>3, <2>4 DEF Ends
<1>5. CASE NextChoice
  <2>1. PICK next \in NextChoices :
          /\ body' = With(With(body, choice.field, Absent), next, "plain")
          /\ adds' = GivenWay(next)
          /\ applied' = applied \cup {<<"a", next>>}
          /\ choice' = [choice EXCEPT !.field = next]
    BY <1>5 DEF NextChoice
  <2>2. next \in Fields
    BY NextChoicesType
  <2>3. choice.field \in Fields
    <3>1. res \in Answers
      BY <1>5, ClassifiedAnswer DEF NextChoice
    <3>2. res.names \subseteq Fields
      BY <3>1, CorrectionAssumption DEF Answer
    <3>3. QED
      BY <1>5, <3>2 DEF NextChoice, ChoiceRefused
  <2>4. body' \in Body
    BY <2>1, <2>2, <2>3, WithType, OwnValues DEF TypeOK
  <2>5. adds' \subseteq Fields /\ applied' \subseteq {"a", "r", "v", "b", "w", "s", "c"} \X Fields
    BY <2>1, <2>2 DEF TypeOK, GivenWay
  <2>6. choice' \in [field : Fields \cup {NoField}, among : Seq(Fields)]
    BY <2>1, <2>2 DEF TypeOK
  <2>7. QED
    BY <1>5, <2>4, <2>5, <2>6, Limits DEF NextChoice, TypeOK, Goes
<1>6. CASE ReadCollection
  BY <1>6, Limits DEF ReadCollection, TypeOK
<1>7. CASE Adjust
  <2>1. PICK c \in Corrections :
          /\ body' = c.body
          /\ applied' = applied \cup {c.mark}
          /\ adds' = adds \cup c.adds
          /\ choice' = c.choice
    BY <1>7 DEF Adjust
  <2>2. res \in Answers
    BY <1>7, ClassifiedAnswer DEF Adjust
  <2>3. c \in CorrectionType
    BY <2>2, CorrectionsType DEF TypeOK
  <2>4. /\ body' \in Body
        /\ adds' \subseteq Fields
        /\ choice' \in [field : Fields \cup {NoField}, among : Seq(Fields)]
    BY <2>1, <2>3 DEF TypeOK, CorrectionType
  <2>5. applied' \subseteq {"a", "r", "v", "b", "w", "s", "c"} \X Fields
    BY <2>1, <2>3 DEF TypeOK, CorrectionType
  <2>6. QED
    BY <1>7, <2>4, <2>5, Limits DEF Adjust, TypeOK
<1>8. CASE Unclassified
  BY <1>8, Limits DEF Unclassified, TypeOK, Goes
<1>9. CASE Widen
  <2>1. PICK f \in Narrow, a \in Answers :
          /\ applied' = applied \cup {<<"w", f>>}
          /\ body' = IF a.kind = "created" \/ MovesOn(a, f)
                     THEN With(body, f, "wide") ELSE body
          /\ CASE a.kind = "unseen" -> TrialFails
               [] a.kind = "created" -> TrialTaken(With(body, f, "wide"), {})
               [] MovesOn(a, f) -> MovedOn(With(body, f, "wide"), a, {})
               [] SaysSame(a, f) -> TrialGoes("widen", {})
               [] OTHER -> TrialGoes("segments", {})
    BY <1>9 DEF Widen
  <2>2. f \in Fields
    BY CorrectionAssumption DEF Narrow
  <2> DEFINE wider == With(body, f, "wide")
  <2>3. wider \in Body
    BY <2>2, WithType, OwnValues DEF TypeOK
  <2>4. /\ at' \in {"loop", "widen", "segments", "done"}
        /\ pending' \in Answers \cup {NoAnswer}
        /\ answered' \in Body
        /\ taken' \in [is : BOOLEAN, body : Body]
        /\ adjusted' \in BOOLEAN
    <3> HIDE DEF wider
    <3>1. CASE a.kind = "unseen"
      <4>1. TrialFails
        <5>1. ~Refused(a)
          BY <3>1 DEF Refused
        <5>2. ~MovesOn(a, f) /\ ~SaysSame(a, f)
          BY <5>1 DEF MovesOn, SaysSame
        <5>3. QED
          BY <2>1, <3>1, <5>2
      <4>2. QED
        BY <4>1 DEF TrialFails, Fails, TypeOK
    <3>2. CASE a.kind = "created"
      <4>1. TrialTaken(wider, {})
        <5>1. a.kind # "unseen" /\ ~Refused(a)
          BY <3>2 DEF Refused
        <5>2. ~MovesOn(a, f) /\ ~SaysSame(a, f)
          BY <5>1 DEF MovesOn, SaysSame
        <5>3. QED
          BY <2>1, <3>2, <5>1, <5>2 DEF wider
      <4>2. at' = "done" /\ taken' \in [is : BOOLEAN, body : Body]
        BY <4>1, <2>3, TakenType DEF TrialTaken, TakenByLoop
      <4>3. QED
        BY <4>1, <4>2 DEF TrialTaken, TypeOK
    <3>3. CASE a.kind \notin {"unseen", "created"} /\ MovesOn(a, f)
      <4>1. MovedOn(wider, a, {})
        BY <2>1, <3>3 DEF SaysSame, wider
      <4>2. QED
        BY <4>1, <2>3 DEF MovedOn, TypeOK
    <3>4. CASE a.kind \notin {"unseen", "created"} /\ ~MovesOn(a, f)
      <4>1. TrialGoes("widen", {}) \/ TrialGoes("segments", {})
        BY <2>1, <3>4
      <4>2. QED
        BY <4>1 DEF TrialGoes, TypeOK
    <3>5. QED
      BY <3>1, <3>2, <3>3, <3>4
  <2>5. applied' \subseteq {"a", "r", "v", "b", "w", "s", "c"} \X Fields
    BY <2>1, <2>2 DEF TypeOK
  <2>6. body' \in Body
    BY <2>1, <2>3 DEF TypeOK
  <2>7. UNCHANGED <<job, i, res, adds, choice, trialVars, lent>>
    BY <1>9 DEF Widen, TypeOK
  <2>8. QED
    BY <2>4, <2>5, <2>6, <2>7, Limits DEF TypeOK
<1>10. CASE Widened
  BY <1>10, Limits DEF Widened, TypeOK, Goes
<1>11. CASE BeginSegments
  <2>1. CASE SegmentField = NoField
    BY <1>11, <2>1, Limits DEF BeginSegments, TypeOK, Goes
  <2>2. CASE SegmentField # NoField
    <3>1. SegmentField \in Fields
      BY <2>2, CorrectionAssumption DEF SegmentField, Quoted
    <3>2. /\ applied' = applied \cup {<<"s", SegmentField>>}
          /\ trial' = [field |-> SegmentField, own |-> body[SegmentField],
                       left |-> Segments \ {body[SegmentField]}]
          /\ at' = "segments" /\ UNCHANGED <<evidence, taken>>
      BY <1>11, <2>2 DEF BeginSegments, Goes
    <3>3. body[SegmentField] \in Values
      BY <3>1 DEF TypeOK, Body
    <3>4. trial' \in [field : Fields \cup {NoField}, own : Values, left : SUBSET Values]
      BY <3>1, <3>2, <3>3, OwnValues
    <3>5. applied' \subseteq {"a", "r", "v", "b", "w", "s", "c"} \X Fields
      BY <3>1, <3>2 DEF TypeOK
    <3>6. UNCHANGED <<job, body, i, res, pending, adds, choice, adjusted, tries,
                      search, lent, answered>>
      BY <1>11 DEF BeginSegments
    <3>7. QED
      BY <3>2, <3>4, <3>5, <3>6, Limits DEF TypeOK
  <2>3. QED
    BY <2>1, <2>2
<1>12. CASE TrySegment
  <2>1. PICK v \in trial.left, a \in Answers :
          LET tried == With(body, trial.field, v)
              moved == Refused(a) /\ Quoted(a, tried) # trial.field
          IN
          /\ body' = tried
          /\ trial' = IF a.kind = "created" \/ moved THEN NoTrial
                      ELSE IF Refused(a) THEN [trial EXCEPT !.left = @ \ {v}]
                      ELSE [trial EXCEPT !.left = {}]
          /\ CASE a.kind = "unseen" -> TrialFails
               [] a.kind = "created" -> TrialTaken(tried, SegmentFacts(v))
               [] moved -> MovedOn(tried, a, SegmentFacts(v))
               [] OTHER -> TrialGoes("segments", {})
    BY <1>12 DEF TrySegment
  <2> DEFINE tried == With(body, trial.field, v)
             moved == Refused(a) /\ Quoted(a, tried) # trial.field
  <2>2. tried \in Body
    BY WithType DEF TypeOK
  <2>3. trial' \in [field : Fields \cup {NoField}, own : Values, left : SUBSET Values]
    <3>1. NoTrial \in [field : Fields \cup {NoField}, own : Values, left : SUBSET Values]
      BY OwnValues DEF NoTrial
    <3>2. [trial EXCEPT !.left = @ \ {v}] \in [field : Fields \cup {NoField}, own : Values, left : SUBSET Values]
      BY DEF TypeOK
    <3>3. [trial EXCEPT !.left = {}] \in [field : Fields \cup {NoField}, own : Values, left : SUBSET Values]
      BY DEF TypeOK
    <3>4. QED
      BY <2>1, <3>1, <3>2, <3>3
  <2>4. /\ at' \in {"loop", "segments", "done"}
        /\ pending' \in Answers \cup {NoAnswer}
        /\ answered' \in Body
        /\ taken' \in [is : BOOLEAN, body : Body]
        /\ adjusted' \in BOOLEAN
    <3>0. (CASE a.kind = "unseen" -> TrialFails
             [] a.kind = "created" -> TrialTaken(tried, SegmentFacts(v))
             [] moved -> MovedOn(tried, a, SegmentFacts(v))
             [] OTHER -> TrialGoes("segments", {}))
      BY <2>1
    <3>6. a.kind \in {"unseen", "created"} => ~moved
      BY DEF Refused
    <3> HIDE DEF tried, moved
    <3>1. CASE a.kind = "unseen"
      BY <3>0, <3>1, <3>6 DEF TrialFails, Fails, TypeOK
    <3>2. CASE a.kind = "created"
      <4>1. TrialTaken(tried, SegmentFacts(v))
        BY <3>0, <3>2, <3>6
      <4>2. at' = "done" /\ taken' \in [is : BOOLEAN, body : Body]
        BY <4>1, <2>2, TakenType DEF TrialTaken, TakenByLoop
      <4>3. QED
        BY <4>1, <4>2 DEF TrialTaken, TypeOK
    <3>3. CASE moved
      BY <3>0, <2>2, <3>3, <3>6 DEF MovedOn, TypeOK
    <3>4. CASE a.kind \notin {"unseen", "created"} /\ ~moved
      BY <3>0, <3>4 DEF TrialGoes, TypeOK
    <3>5. QED
      BY <3>1, <3>2, <3>3, <3>4
  <2>5. body' \in Body
    BY <2>1, <2>2
  <2>6. UNCHANGED <<job, i, res, applied, adds, choice, tries, search, lent>>
    BY <1>12 DEF TrySegment, TypeOK
  <2>7. QED
    BY <2>3, <2>4, <2>5, <2>6, Limits DEF TypeOK
<1>14. NoTrial \in [field : Fields \cup {NoField}, own : Values, left : SUBSET Values]
  BY OwnValues DEF NoTrial
<1>15. Restored \in Body
  BY WithType DEF Restored, TypeOK
<1>13. CASE SegmentsTried
  BY <1>13, <1>14, <1>15, Limits DEF SegmentsTried, TypeOK, Goes
<1>16. CASE NextTarget
  <2>1. PICK f \in Untried :
          /\ applied' = applied \cup {<<"c", f>>}
          /\ trial' = [field |-> f, own |-> body[f], left |-> Others(f)]
    BY <1>16 DEF NextTarget
  <2>2. f \in Fields
    BY CorrectionAssumption DEF Untried, Targets
  <2>3. body[f] \in Values
    BY <2>2 DEF TypeOK, Body
  <2>4. trial' \in [field : Fields \cup {NoField}, own : Values, left : SUBSET Values]
    BY <2>1, <2>2, <2>3, OwnValues DEF Others
  <2>5. applied' \subseteq {"a", "r", "v", "b", "w", "s", "c"} \X Fields
    BY <2>1, <2>2 DEF TypeOK
  <2>6. UNCHANGED <<job, at, body, i, res, pending, adds, choice, adjusted, tries,
                    search, lent, answered, taken>>
    BY <1>16 DEF NextTarget
  <2>7. QED
    BY <2>4, <2>5, <2>6, Limits DEF TypeOK
<1>17. CASE TryValue
  <2>1. PICK v \in trial.left, a \in Answers :
          LET tried == With(body, trial.field, v)
              fact  == Combination(tried, trial.field, a.kind = "created")
          IN
          /\ body' = tried
          /\ trial' = IF a.kind = "created" THEN NoTrial
                      ELSE IF Refused(a) THEN [trial EXCEPT !.left = @ \ {v}]
                      ELSE [trial EXCEPT !.left = {}]
          /\ CASE a.kind = "unseen" -> TrialFails
               [] a.kind = "created" -> TrialTaken(tried, fact)
               [] OTHER -> TrialGoes("cycle", fact)
    BY <1>17 DEF TryValue, TryAnyValue
  <2> DEFINE tried == With(body, trial.field, v)
             fact  == Combination(tried, trial.field, a.kind = "created")
  <2>2. tried \in Body
    BY WithType DEF TypeOK
  <2>3. trial' \in [field : Fields \cup {NoField}, own : Values, left : SUBSET Values]
    <3>2. [trial EXCEPT !.left = @ \ {v}] \in [field : Fields \cup {NoField}, own : Values, left : SUBSET Values]
      BY DEF TypeOK
    <3>3. [trial EXCEPT !.left = {}] \in [field : Fields \cup {NoField}, own : Values, left : SUBSET Values]
      BY DEF TypeOK
    <3>4. QED
      BY <2>1, <1>14, <3>2, <3>3
  <2>4. /\ at' \in {"cycle", "done"}
        /\ pending' \in Answers \cup {NoAnswer}
        /\ answered' \in Body
        /\ taken' \in [is : BOOLEAN, body : Body]
        /\ adjusted' \in BOOLEAN
    <3>0. (CASE a.kind = "unseen" -> TrialFails
             [] a.kind = "created" -> TrialTaken(tried, fact)
             [] OTHER -> TrialGoes("cycle", fact))
      BY <2>1
    <3> HIDE DEF tried, fact
    <3>1. CASE a.kind = "unseen"
      BY <3>0, <3>1 DEF TrialFails, Fails, TypeOK
    <3>2. CASE a.kind = "created"
      <4>1. TrialTaken(tried, fact)
        BY <3>0, <3>2
      <4>2. at' = "done" /\ taken' \in [is : BOOLEAN, body : Body]
        BY <4>1, <2>2, TakenType DEF TrialTaken, TakenByLoop
      <4>3. QED
        BY <4>1, <4>2 DEF TrialTaken, TypeOK
    <3>3. CASE a.kind \notin {"unseen", "created"}
      BY <3>0, <3>3 DEF TrialGoes, TypeOK
    <3>5. QED
      BY <3>1, <3>2, <3>3
  <2>5. body' \in Body
    BY <2>1, <2>2
  <2>6. tries' \in 0 .. CycleAttempts
    BY <1>17, CorrectionAssumption DEF TryValue, TryAnyValue, TypeOK
  <2>8. UNCHANGED <<job, i, res, applied, adds, choice, search, lent>>
    BY <1>17 DEF TryValue, TryAnyValue, TypeOK
  <2>7. QED
    BY <2>3, <2>4, <2>5, <2>6, <2>8, Limits DEF TypeOK
<1>18. CASE TargetTried
  BY <1>18, <1>14, <1>15, Limits DEF TargetTried, TypeOK
<1>19. CASE CycleEnds
  BY <1>19, Limits DEF CycleEnds, TypeOK, Unresolved
<1>20. CASE BeginSearch
  <2>1. PICK q \in Orders : search' = [search EXCEPT !.fields = q]
    BY <1>20 DEF BeginSearch
  <2>2. q \in Seq(Fields)
    <3>1. Candidates \subseteq Fields
      BY CorrectionAssumption DEF Candidates
    <3>2. Cardinality(Candidates) \in Nat
      BY <3>1, CorrectionAssumption, FS_Subset, FS_CardinalityType
    <3>3. q \in [1 .. Cardinality(Candidates) -> Candidates]
      BY DEF Orders
    <3>4. QED
      BY <3>1, <3>2, <3>3
  <2>3. search' \in [fields : Seq(Fields), n : Nat \ {0}, tried : Nat]
    BY <2>1, <2>2 DEF TypeOK
  <2>4. QED
    BY <1>20, <2>3, Limits DEF BeginSearch, TypeOK, Goes
<1>21. CASE AddCandidate
  <2>1. PICK a \in Answers :
          LET f     == search.fields[search.n]
              wider == With(body, f, "plain")
              again == Objects(a, f) /\ WorthWidening(f)
          IN
          /\ search' = [search EXCEPT !.tried = @ + 1, !.n = IF again THEN @ ELSE @ + 1]
          /\ body' = IF Objects(a, f) /\ ~again THEN body ELSE wider
          /\ IF a.kind = "created"
             THEN Taken(wider, Claims(Carried(search.n, wider)))
             ELSE SearchGoes(a, IF again THEN "wider" ELSE "search")
    BY <1>21 DEF AddCandidate
  <2> DEFINE f     == search.fields[search.n]
             wider == With(body, f, "plain")
             again == Objects(a, f) /\ WorthWidening(f)
  <2>2. wider \in Body
    BY WithType, OwnValues DEF TypeOK
  <2>3. search' \in [fields : Seq(Fields), n : Nat \ {0}, tried : Nat]
    <3> HIDE DEF again
    <3>1. search' = [search EXCEPT !.tried = @ + 1, !.n = IF again THEN @ ELSE @ + 1]
      BY <2>1 DEF again
    <3>2. search.n + 1 \in Nat \ {0} /\ search.tried + 1 \in Nat
      BY DEF TypeOK
    <3>3. CASE again
      BY <3>1, <3>2, <3>3 DEF TypeOK
    <3>4. CASE ~again
      BY <3>1, <3>2, <3>4 DEF TypeOK
    <3>5. QED
      BY <3>3, <3>4
  <2>4. body' \in Body
    BY <2>1, <2>2 DEF TypeOK
  <2>5. at' \in {"search", "wider", "done"} /\ taken' \in [is : BOOLEAN, body : Body]
    <3>1. CASE a.kind = "created"
      <4>1. Taken(wider, Claims(Carried(search.n, wider)))
        BY <2>1, <3>1, Zenon
      <4>2. QED
        BY <4>1, <2>2, TakenType
    <3>2. CASE a.kind # "created"
      <4>1. SearchGoes(a, "wider") \/ SearchGoes(a, "search")
        BY <2>1, <3>2
      <4>2. QED
        BY <4>1 DEF SearchGoes, Goes, TypeOK
    <3>3. QED
      BY <3>1, <3>2
  <2>6. UNCHANGED <<job, loopVars, adjusted, trial, tries, lent, answered>>
    BY <1>21 DEF AddCandidate, TypeOK
  <2>7. QED
    BY <2>3, <2>4, <2>5, <2>6, Limits DEF TypeOK
<1>22. CASE WidenCandidate
  <2>1. PICK a \in Answers :
          LET f     == search.fields[search.n]
              wider == With(body, f, "wide")
          IN
          /\ search' = [search EXCEPT !.n = @ + 2]
          /\ body' = IF Objects(a, f) THEN With(body, f, Absent) ELSE wider
          /\ IF a.kind = "created"
             THEN Taken(wider, Claims(Carried(search.tried, wider)))
             ELSE SearchGoes(a, "search")
    BY <1>22 DEF WidenCandidate
  <2> DEFINE f     == search.fields[search.n]
             wider == With(body, f, "wide")
  <2>2. wider \in Body /\ With(body, f, Absent) \in Body
    BY WithType, OwnValues DEF TypeOK
  <2>3. search' \in [fields : Seq(Fields), n : Nat \ {0}, tried : Nat]
    <3>1. search' = [search EXCEPT !.n = @ + 2]
      BY <2>1
    <3>2. search.n + 2 \in Nat \ {0}
      BY DEF TypeOK
    <3>3. QED
      BY <3>1, <3>2 DEF TypeOK
  <2>4. body' \in Body
    BY <2>1, <2>2
  <2>5. at' \in {"search", "done"} /\ taken' \in [is : BOOLEAN, body : Body]
    <3>1. CASE a.kind = "created"
      <4>1. Taken(wider, Claims(Carried(search.tried, wider)))
        BY <2>1, <3>1, Zenon
      <4>2. QED
        BY <4>1, <2>2, TakenType
    <3>2. CASE a.kind # "created"
      <4>1. SearchGoes(a, "search")
        BY <2>1, <3>2
      <4>2. QED
        BY <4>1 DEF SearchGoes, Goes, TypeOK
    <3>3. QED
      BY <3>1, <3>2
  <2>6. UNCHANGED <<job, loopVars, adjusted, trial, tries, lent, answered>>
    BY <1>22 DEF WidenCandidate, TypeOK
  <2>7. QED
    BY <2>3, <2>4, <2>5, <2>6, Limits DEF TypeOK
<1>23. CASE SearchEnds
  BY <1>23, Limits DEF SearchEnds, TypeOK, Goes
<1>24. CASE UNCHANGED vars
  BY <1>24, Limits DEF vars, TypeOK
<1>25. CASE Finished
  BY <1>24, <1>25 DEF Finished
<1>26. QED
  BY <1>1, <1>2, <1>3, <1>4, <1>5, <1>6, <1>7, <1>8, <1>9, <1>10, <1>11, <1>12,
     <1>13, <1>16, <1>17, <1>18, <1>19, <1>20, <1>21, <1>22, <1>23, <1>24, <1>25
  DEF Next

\* Every variable has its type in every reachable state.
THEOREM CorrectionTypeCorrect == Spec => []TypeOK
<1>1. Init => TypeOK
  BY TypeInit
<1>2. TypeOK /\ [Next]_vars => TypeOK'
  BY TypeStep
<1>3. QED
  BY <1>1, <1>2, PTL DEF Spec

-----------------------------------------------------------------------------
(***************************************************************************)
(* What is decided from a refusal is decided for the body refused.  A      *)
(* trial in progress may have changed the body, but only in the field it   *)
(* tries: put back, the body is the one that was answered.                 *)
(***************************************************************************)
NoTrialEarlier == at \in {"loop", "answer", "widen"} => ~Trying
NothingPending == at \in {"answer", "widen", "segments", "cycle"} => pending = NoAnswer
TrialUndone    == at \in {"segments", "cycle"} /\ Trying => Restored = answered

RefusalInv == RefusalIsOfBody /\ NoTrialEarlier /\ NothingPending /\ TrialUndone

\* A field given its own value, or one value after another.
LEMMA WithOwn ==
  ASSUME NEW b \in Body, NEW f
  PROVE  With(b, f, b[f]) = b
  BY DEF With, Body

LEMMA WithTwice ==
  ASSUME NEW b \in Body, NEW f, NEW v, NEW w
  PROVE  With(With(b, f, v), f, w) = With(b, f, w)
  BY DEF With, Body

LEMMA RefusalInit == Init => RefusalInv
  BY DEF Init, RefusalInv, RefusalIsOfBody, NoTrialEarlier, NothingPending,
         TrialUndone, Trying, NoTrial

LEMMA RefusalStep == TypeOK /\ RefusalInv /\ [Next]_vars => RefusalInv'
<1> SUFFICES ASSUME TypeOK, RefusalInv, [Next]_vars PROVE RefusalInv'
  OBVIOUS
<1> USE DEF loopVars, trialVars, RefusalInv, RefusalIsOfBody, NoTrialEarlier,
            NothingPending, TrialUndone, Trying
<1>a. NoTrial.field = NoField
  BY DEF NoTrial
<1>1. CASE Attempt
  BY <1>1 DEF Attempt, Goes
<1>2. CASE Resume
  BY <1>2 DEF Resume, Goes
<1>3. CASE at' \in {"fields", "search", "wider", "done"}
  BY <1>3
<1>4. CASE NextChoice
  BY <1>4 DEF NextChoice, Classifying, Goes
<1>5. CASE ReadCollection
  BY <1>5 DEF ReadCollection, Classifying
<1>6. CASE Adjust
  BY <1>6 DEF Adjust, Classifying
<1>7. CASE Unclassified
  BY <1>7 DEF Unclassified, Classifying, Goes
<1>8. CASE Widen
  <2>1. PICK f \in Narrow, a \in Answers :
          /\ body' = IF a.kind = "created" \/ MovesOn(a, f)
                     THEN With(body, f, "wide") ELSE body
          /\ CASE a.kind = "unseen" -> TrialFails
               [] a.kind = "created" -> TrialTaken(With(body, f, "wide"), {})
               [] MovesOn(a, f) -> MovedOn(With(body, f, "wide"), a, {})
               [] SaysSame(a, f) -> TrialGoes("widen", {})
               [] OTHER -> TrialGoes("segments", {})
    BY <1>8 DEF Widen
  <2>2. at = "widen" /\ UNCHANGED trial
    BY <1>8 DEF Widen
  <2>3. CASE a.kind \in {"created", "unseen"}
    <3>1. ~Refused(a)
      BY <2>3 DEF Refused
    <3>2. ~MovesOn(a, f) /\ ~SaysSame(a, f)
      BY <3>1 DEF MovesOn, SaysSame
    <3>3. TrialFails \/ TrialTaken(With(body, f, "wide"), {})
      BY <2>1, <2>3, <3>2
    <3>4. at' = "done"
      BY <3>3 DEF TrialFails, Fails, TrialTaken, TakenByLoop, Taken
    <3>5. QED
      BY <1>3, <3>4
  <2>4. CASE a.kind \notin {"created", "unseen"} /\ MovesOn(a, f)
    <3>1. MovedOn(With(body, f, "wide"), a, {})
      BY <2>1, <2>4 DEF SaysSame
    <3>2. body' = With(body, f, "wide")
      BY <2>1, <2>4
    <3>3. QED
      BY <2>2, <3>1, <3>2 DEF MovedOn
  <2>5. CASE a.kind \notin {"created", "unseen"} /\ ~MovesOn(a, f)
    <3>1. TrialGoes("widen", {}) \/ TrialGoes("segments", {})
      BY <2>1, <2>5
    <3>2. body' = body
      BY <2>1, <2>5
    <3>3. QED
      BY <2>2, <3>1, <3>2 DEF TrialGoes
  <2>6. QED
    BY <2>3, <2>4, <2>5
<1>9. CASE Widened
  BY <1>9 DEF Widened, Goes
<1>10. CASE BeginSegments
  <2>1. CASE SegmentField = NoField
    BY <1>10, <2>1 DEF BeginSegments, Goes
  <2>2. CASE SegmentField # NoField
    <3>1. /\ trial' = [field |-> SegmentField, own |-> body[SegmentField],
                       left |-> Segments \ {body[SegmentField]}]
          /\ at' = "segments" /\ at = "segments" /\ ~Trying
          /\ UNCHANGED <<body, answered, pending>>
      BY <1>10, <2>2 DEF BeginSegments, Goes
    <3>2. With(body, SegmentField, body[SegmentField]) = body
      BY WithOwn DEF TypeOK
    <3>3. Restored' = body
      BY <3>1, <3>2 DEF Restored, With
    <3>4. QED
      BY <3>1, <3>3
  <2>3. QED
    BY <2>1, <2>2
<1>11. CASE TrySegment
  <2> DEFINE tried(v) == With(body, trial.field, v)
             moved(v, a) == Refused(a) /\ Quoted(a, tried(v)) # trial.field
  <2>1. PICK v \in trial.left, a \in Answers :
          /\ body' = tried(v)
          /\ trial' = IF a.kind = "created" \/ moved(v, a) THEN NoTrial
                      ELSE IF Refused(a) THEN [trial EXCEPT !.left = @ \ {v}]
                      ELSE [trial EXCEPT !.left = {}]
          /\ (CASE a.kind = "unseen" -> TrialFails
                [] a.kind = "created" -> TrialTaken(tried(v), SegmentFacts(v))
                [] moved(v, a) -> MovedOn(tried(v), a, SegmentFacts(v))
                [] OTHER -> TrialGoes("segments", {}))
    BY <1>11 DEF TrySegment
  <2>2. at = "segments" /\ Trying /\ pending = NoAnswer
    BY <1>11 DEF TrySegment
  <2>3. a.kind \in {"created", "unseen"} => ~moved(v, a)
    BY DEF Refused
  <2> HIDE DEF moved, tried
  <2>4. CASE a.kind \in {"created", "unseen"}
    <3>1. TrialFails \/ TrialTaken(tried(v), SegmentFacts(v))
      BY <2>1, <2>3, <2>4
    <3>2. at' = "done"
      BY <3>1 DEF TrialFails, Fails, TrialTaken, TakenByLoop, Taken
    <3>3. QED
      BY <1>3, <3>2
  <2>5. CASE moved(v, a)
    <3>1. MovedOn(tried(v), a, SegmentFacts(v)) /\ trial' = NoTrial
      BY <2>1, <2>3, <2>5
    <3>2. QED
      BY <1>a, <2>1, <3>1 DEF MovedOn
  <2>6. CASE a.kind \notin {"created", "unseen"} /\ ~moved(v, a)
    <3>1. TrialGoes("segments", {})
      BY <2>1, <2>6
    <3>2. trial'.field = trial.field /\ trial'.own = trial.own
      BY <2>1, <2>6 DEF TypeOK
    <3>3. Restored' = Restored
      BY <2>1, <3>2, WithTwice DEF Restored, TypeOK, tried, With
    <3>4. QED
      BY <2>2, <3>1, <3>2, <3>3 DEF TrialGoes
  <2>7. QED
    BY <2>4, <2>5, <2>6
<1>12. CASE SegmentsTried
  BY <1>a, <1>12 DEF SegmentsTried, Goes
<1>13. CASE NextTarget
  <2>1. PICK f \in Untried :
          trial' = [field |-> f, own |-> body[f], left |-> Others(f)]
    BY <1>13 DEF NextTarget
  <2>2. at = "cycle" /\ ~Trying /\ UNCHANGED <<at, body, answered, pending>>
    BY <1>13 DEF NextTarget
  <2>3. With(body, f, body[f]) = body
    BY WithOwn DEF TypeOK
  <2>4. Restored' = body
    BY <2>1, <2>2, <2>3 DEF Restored, With
  <2>5. QED
    BY <2>2, <2>4
<1>14. CASE TryValue
  <2> DEFINE tried(v) == With(body, trial.field, v)
             fact(v, a) == Combination(tried(v), trial.field, a.kind = "created")
  <2>1. PICK v \in trial.left, a \in Answers :
          /\ body' = tried(v)
          /\ trial' = IF a.kind = "created" THEN NoTrial
                      ELSE IF Refused(a) THEN [trial EXCEPT !.left = @ \ {v}]
                      ELSE [trial EXCEPT !.left = {}]
          /\ (CASE a.kind = "unseen" -> TrialFails
                [] a.kind = "created" -> TrialTaken(tried(v), fact(v, a))
                [] OTHER -> TrialGoes("cycle", fact(v, a)))
    BY <1>14 DEF TryValue, TryAnyValue
  <2>2. at = "cycle" /\ Trying /\ pending = NoAnswer
    BY <1>14 DEF TryValue, TryAnyValue
  <2> HIDE DEF fact, tried
  <2>4. CASE a.kind \in {"created", "unseen"}
    <3>1. TrialFails \/ TrialTaken(tried(v), fact(v, a))
      BY <2>1, <2>4
    <3>2. at' = "done"
      BY <3>1 DEF TrialFails, Fails, TrialTaken, TakenByLoop, Taken
    <3>3. QED
      BY <1>3, <3>2
  <2>6. CASE a.kind \notin {"created", "unseen"}
    <3>1. TrialGoes("cycle", fact(v, a))
      BY <2>1, <2>6
    <3>2. trial'.field = trial.field /\ trial'.own = trial.own
      BY <2>1, <2>6 DEF TypeOK
    <3>3. Restored' = Restored
      BY <2>1, <3>2, WithTwice DEF Restored, TypeOK, tried, With
    <3>4. QED
      BY <2>2, <3>1, <3>2, <3>3 DEF TrialGoes
  <2>7. QED
    BY <2>4, <2>6
<1>15. CASE TargetTried
  BY <1>a, <1>15 DEF TargetTried
<1>16. CASE Exhausted \/ Ends \/ CycleEnds \/ BeginSearch \/ SearchEnds
  BY <1>3, <1>16
  DEF Exhausted, Ends, CycleEnds, BeginSearch, SearchEnds, Unresolved, Goes,
      Fails, TakenByLoop, Taken
<1>17. CASE AddCandidate
  <2>1. at' \in {"search", "wider", "done"}
    BY <1>17 DEF AddCandidate, Taken, SearchGoes, Goes
  <2>2. QED
    BY <1>3, <2>1
<1>18. CASE WidenCandidate
  <2>1. at' \in {"search", "done"}
    BY <1>18 DEF WidenCandidate, Taken, SearchGoes, Goes
  <2>2. QED
    BY <1>3, <2>1
<1>19. CASE UNCHANGED vars
  BY <1>19 DEF vars, Restored
<1>20. CASE Finished
  BY <1>19, <1>20 DEF Finished
<1>21. QED
  BY <1>1, <1>2, <1>4, <1>5, <1>6, <1>7, <1>8, <1>9, <1>10, <1>11, <1>12, <1>13,
     <1>14, <1>15, <1>16, <1>17, <1>18, <1>19, <1>20 DEF Next

\* Whatever is decided from a refusal is decided for the body that was refused
\* (adjust.go:469, cycle.go:100 and 315).
THEOREM RefusalStaysOfBody == Spec => []RefusalIsOfBody
<1>1. Init => TypeOK /\ RefusalInv
  BY TypeInit, RefusalInit
<1>2. TypeOK /\ RefusalInv /\ [Next]_vars => TypeOK' /\ RefusalInv'
  BY TypeStep, RefusalStep
<1>3. RefusalInv => RefusalIsOfBody
  BY DEF RefusalInv
<1>4. QED
  BY <1>1, <1>2, <1>3, PTL DEF Spec

-----------------------------------------------------------------------------
(***************************************************************************)
(* A field is claimed only when the step is answered.  Until then nothing  *)
(* is claimed, and every field waiting to be claimed is in the body or its *)
(* removal is on record: no trial takes a field out.                       *)
(***************************************************************************)
NoClaim(facts)  == \A f \in Fields : <<"add", f>> \notin facts
Removed(f)      == <<"remove", f>> \in evidence
Waiting(b)      == Record => \A f \in adds : Present(b, f) \/ Removed(f)

UnclaimedYet == at # "done" => NoClaim(evidence)
AddsWait     == at \in {"loop", "answer", "widen", "segments", "cycle"} => Waiting(body)
TrialPresent == Trying => trial.own # Absent /\ Absent \notin trial.left

ClaimInv == FalseClaimsAreContradicted /\ UnclaimedYet /\ AddsWait /\ TrialPresent

\* Nothing else that is written down claims a field.
LEMMA ConcludedClaimsNothing ==
  ASSUME NEW x \in BOOLEAN, NEW y \in BOOLEAN, NEW a
  PROVE  NoClaim(Concluded(x, y, a))
<1>1. NoClaim(ValueConcluded(x, y, a))
  BY DEF NoClaim, ValueConcluded
<1>2. QED
  BY <1>1 DEF NoClaim, Concluded

LEMMA TrialsClaimNothing ==
  /\ \A v : NoClaim(SegmentFacts(v))
  /\ \A b, f, x : NoClaim(Combination(b, f, x))
  /\ \A f : NoClaim(Inconclusive(f))
<1>1. \A v : NoClaim(SegmentFacts(v))
  BY DEF NoClaim, SegmentFacts
<1>2. \A b, f, x : NoClaim(Combination(b, f, x))
  BY DEF NoClaim, Combination
<1>3. \A f : NoClaim(Inconclusive(f))
  BY DEF NoClaim, Inconclusive
<1>4. QED
  BY <1>1, <1>2, <1>3

\* Giving a field a value leaves every other as it was.
LEMMA WithPresent ==
  ASSUME NEW b \in Body, NEW f, NEW v, v # Absent, NEW g \in Fields,
         Present(b, g)
  PROVE  Present(With(b, f, v), g)
  BY DEF With, Body, Present

LEMMA PutIn ==
  ASSUME NEW b \in Body, NEW f \in Fields, NEW v, v # Absent
  PROVE  Present(With(b, f, v), f)
  BY DEF With, Body, Present

LEMMA TookOut ==
  ASSUME NEW b \in Body, NEW f, NEW v, NEW g \in Fields, g # f, Present(b, g)
  PROVE  Present(With(b, f, v), g)
  BY DEF With, Body, Present

\* A correction that takes a field out writes the removal down, unless nothing is
\* written down at all, and adds what it says it adds.
LEMMA CorrectionKeeps ==
  ASSUME body \in Body, res \in Answers, NEW c \in Corrections
  PROVE  /\ \A g \in Fields : Present(body, g) /\ ~Present(c.body, g) /\ Record =>
                              <<"remove", g>> \in c.facts
         /\ \A g \in c.adds : g \in Fields /\ Present(c.body, g)
         /\ NoClaim(c.facts)
<1> DEFINE f == res.fields[1]
<1>0. "plain" # Absent /\ "moved" # Absent /\ "lent" # Absent
  BY DEF Absent
<1>9. NoClaim(c.facts)
  BY CorrectionsType DEF CorrectionType, NoClaim
<1>1. CASE res.act = "add"
  <2>1. c \in Additions
    BY <1>1 DEF Corrections
  <2>2. PICK g \in AddFields :
          c \in {[d EXCEPT !.adds = {g}, !.choice = Offered(g)] : d \in Change("a", g, "plain", {})}
    BY <2>1, Zenon DEF Additions
  <2>3. PICK d \in Change("a", g, "plain", {}) :
          c = [d EXCEPT !.adds = {g}, !.choice = Offered(g)]
    BY <2>2
  <2>4. g \in Fields
    BY <1>1, AddFieldsType
  <2>5. d \in CorrectionType /\ d.body = With(body, g, "plain")
    <3>1. "plain" \in Values
      BY OwnValues
    <3>2. {} \in SUBSET ({"requires", "future", "remove", "borrow"} \X Fields)
      OBVIOUS
    <3>3. QED
      BY <2>4, <3>1, <3>2, ChangeType
  <2>6. c.body = With(body, g, "plain") /\ c.adds = {g}
    BY <2>3, <2>5 DEF CorrectionType
  <2>7. QED
    BY <1>0, <1>9, <2>4, <2>6, WithPresent, PutIn
<1>2. CASE res.act # "add"
  <2>1. res.act # "stop"
    BY <1>2 DEF Corrections
  <2>2. f \in Fields
    BY <2>1, AnswerFields
  <2>3. \A tag \in {"requires", "future", "remove", "borrow"} :
          {<<tag, f>>} \in SUBSET ({"requires", "future", "remove", "borrow"} \X Fields)
    BY <2>2
  <2>4. Absent \in Values /\ "plain" \in Values /\ "moved" \in Values /\ "lent" \in Values
    BY OwnValues
  <2>5. {} \in SUBSET ({"requires", "future", "remove", "borrow"} \X Fields)
    OBVIOUS
  <2>6. CASE res.act = "requires"
    <3>1. c \in Change("a", f, "plain", {<<"requires", f>>})
      BY <2>6 DEF Corrections
    <3>2. c.body = With(body, f, "plain") /\ c.adds = {}
      BY <3>1, <2>2, <2>3, <2>4, ChangeType
    <3>3. QED
      BY <1>0, <1>9, <3>2, WithPresent
  <2>7. CASE res.act = "revalue"
    <3>1. c \in Change("v", f, "moved", {})
      BY <2>7 DEF Corrections
    <3>2. c.body = With(body, f, "moved") /\ c.adds = {}
      BY <3>1, <2>2, <2>4, <2>5, ChangeType
    <3>3. QED
      BY <1>0, <1>9, <3>2, WithPresent
  <2>8. CASE res.act = "postpone"
    <3>1. PICK d \in Change("v", f, "moved", {}) : c = [d EXCEPT !.facts = {<<"future", f>>}]
      BY <2>8 DEF Corrections
    <3>2. d \in CorrectionType /\ d.body = With(body, f, "moved") /\ d.adds = {}
      BY <2>2, <2>5, <2>4, ChangeType
    <3>3. c.body = With(body, f, "moved") /\ c.adds = {}
      BY <3>1, <3>2 DEF CorrectionType
    <3>4. QED
      BY <1>0, <1>9, <3>3, WithPresent
  <2>9. CASE res.act = "remove"
    <3>1. c \in Change("r", f, Absent, {<<"remove", f>>})
      BY <2>9 DEF Corrections
    <3>2. c.body = With(body, f, Absent) /\ c.adds = {}
      BY <3>1, <2>2, <2>3, <2>4, ChangeType
    <3>4. Record => <<"remove", f>> \in c.facts
      BY <3>1 DEF Change
    <3>3. QED
      BY <1>9, <3>2, <3>4, TookOut
  <2>10. CASE res.act = "borrow"
    <3>1. c = [body |-> With(body, f, "lent"), mark |-> <<"b", f>>,
               facts |-> IF Record THEN {<<"borrow", f>>} ELSE {},
               adds |-> {}, choice |-> NoChoice]
      BY <2>10 DEF Corrections
    <3>2. c.body = With(body, f, "lent") /\ c.adds = {}
      BY <3>1
    <3>3. QED
      BY <1>0, <1>9, <3>2, WithPresent
  <2>11. QED
    BY <1>2, <2>6, <2>7, <2>8, <2>9, <2>10 DEF Corrections
<1>3. QED
  BY <1>1, <1>2

\* What a step that ends here has claimed is in its body, or on record as removed.
LEMMA Answered ==
  ASSUME at' = "done", job' = job, job.kind # "update" => taken'.is /\ taken'.body = body',
         \A f \in Fields : <<"add", f>> \in evidence' =>
           Present(body', f) \/ <<"remove", f>> \in evidence'
  PROVE  FalseClaimsAreContradicted' /\ UnclaimedYet' /\ AddsWait'
<1>1. FalseClaimsAreContradicted'
  BY DEF FalseClaimsAreContradicted, Present
<1>2. UnclaimedYet' /\ AddsWait'
  BY DEF UnclaimedYet, AddsWait
<1>3. QED
  BY <1>1, <1>2

\* The API takes a body the loop sent.
LEMMA LoopTakes ==
  ASSUME UnclaimedYet, at # "done", NEW facts, NoClaim(facts), Waiting(body'),
         TakenByLoop(body', facts), job' = job
  PROVE  FalseClaimsAreContradicted' /\ UnclaimedYet' /\ AddsWait'
<1>1. NoClaim(Concluded(TRUE, TRUE, res))
  BY ConcludedClaimsNothing
<1>2. /\ at' = "done" /\ taken' = [is |-> TRUE, body |-> body']
      /\ evidence \subseteq evidence'
      /\ \A e \in evidence' : e \in evidence \/ e \in facts \/ (Record /\ e \in Claims(adds))
                                \/ e \in Concluded(TRUE, TRUE, res)
  BY DEF TakenByLoop, Taken
<1>3. ASSUME NEW f \in Fields, <<"add", f>> \in evidence'
      PROVE  Record /\ f \in adds
  <2>1. Record /\ <<"add", f>> \in Claims(adds)
    BY <1>1, <1>2, <1>3 DEF NoClaim, UnclaimedYet
  <2>2. QED
    BY <2>1 DEF Claims
<1>4. \A f \in Fields : <<"add", f>> \in evidence' =>
        Present(body', f) \/ <<"remove", f>> \in evidence'
  BY <1>2, <1>3 DEF Waiting, Removed
<1>5. QED
  BY <1>2, <1>4, Answered

\* The API takes a body the search sent.
LEMMA SearchTakes ==
  ASSUME UnclaimedYet, at # "done", NEW n,
         Taken(body', Claims(Carried(n, body'))), job' = job
  PROVE  FalseClaimsAreContradicted' /\ UnclaimedYet' /\ AddsWait'
<1>1. NoClaim(Concluded(TRUE, TRUE, res))
  BY ConcludedClaimsNothing
<1>2. /\ at' = "done" /\ taken' = [is |-> TRUE, body |-> body']
      /\ \A e \in evidence' : e \in evidence \/ e \in Claims(Carried(n, body'))
                                \/ e \in Concluded(TRUE, TRUE, res)
  BY DEF Taken
<1>3. ASSUME NEW f \in Fields, <<"add", f>> \in evidence'
      PROVE  Present(body', f)
  <2>1. <<"add", f>> \in Claims(Carried(n, body'))
    BY <1>1, <1>2, <1>3 DEF NoClaim, UnclaimedYet
  <2>2. f \in Carried(n, body')
    BY <2>1 DEF Claims
  <2>3. QED
    BY <2>2 DEF Carried
<1>4. QED
  BY <1>2, <1>3, Answered

\* A step that claims nothing.
LEMMA Unclaiming ==
  ASSUME ClaimInv, at # "done", NEW facts, NoClaim(facts),
         evidence' = evidence \cup facts
  PROVE  FalseClaimsAreContradicted' /\ UnclaimedYet'
<1>1. NoClaim(evidence')
  BY DEF ClaimInv, UnclaimedYet, NoClaim
<1>2. UnclaimedYet'
  BY <1>1 DEF UnclaimedYet, NoClaim
<1>3. FalseClaimsAreContradicted'
  BY <1>1 DEF FalseClaimsAreContradicted, NoClaim
<1>4. QED
  BY <1>2, <1>3

LEMMA ClaimInit == Init => ClaimInv
  BY DEF Init, ClaimInv, FalseClaimsAreContradicted, UnclaimedYet, AddsWait,
         TrialPresent, NoClaim, Waiting, Trying, NoTrial

LEMMA ClaimStep == TypeOK /\ NoTrialEarlier /\ ClaimInv /\ [Next]_vars => ClaimInv'
<1> SUFFICES ASSUME TypeOK, NoTrialEarlier, ClaimInv, [Next]_vars PROVE ClaimInv'
  OBVIOUS
<1> USE DEF loopVars, trialVars
<1>n. NoClaim({})
  BY DEF NoClaim
<1>v. "wide" # Absent /\ "plain" # Absent
  BY DEF Absent
\* Where nothing is claimed, the waiting fields and the trial are what is left.
<1>a. ASSUME at # "done", job' = job, evidence' = evidence, AddsWait', TrialPresent'
      PROVE  ClaimInv'
  <2>1. evidence' = evidence \cup {}
    BY <1>a
  <2>2. FalseClaimsAreContradicted' /\ UnclaimedYet'
    BY <1>a, <1>n, <2>1, Unclaiming
  <2>3. QED
    BY <1>a, <2>2 DEF ClaimInv
\* The loop gives up: a conclusion about a value claims no field.
<1>u. ASSUME NEW a, NEW facts, NoClaim(facts), Unresolved(a, facts),
             UNCHANGED <<job, trial, adjusted>>, at # "done"
      PROVE  ClaimInv'
  <2>1. NoClaim(Concluded(FALSE, adjusted, a))
    <3>1. adjusted \in BOOLEAN
      BY DEF TypeOK
    <3>2. QED
      BY <3>1, ConcludedClaimsNothing
  <2>2. NoClaim(facts \cup Concluded(FALSE, adjusted, a))
    BY <1>u, <2>1 DEF NoClaim
  <2>3. evidence' = evidence \cup (facts \cup Concluded(FALSE, adjusted, a))
    BY <1>u DEF Unresolved
  <2>4. at' \in {"fields", "done"}
    BY <1>u DEF Unresolved
  <2>5. FalseClaimsAreContradicted' /\ UnclaimedYet'
    BY <1>u, <2>2, <2>3, Unclaiming
  <2>6. QED
    BY <1>u, <2>4, <2>5 DEF ClaimInv, AddsWait, TrialPresent, Trying
\* A trial is taken, or goes on: what waits is still in the body.
<1>b. ASSUME at \in {"widen", "segments", "cycle"}, job' = job, NEW b, Waiting(b),
             NEW facts, NoClaim(facts), body' = b, TrialTaken(b, facts), TrialPresent'
      PROVE  ClaimInv'
  <2>1. TakenByLoop(body', facts) /\ Waiting(body')
    BY <1>b DEF TrialTaken
  <2>2. FalseClaimsAreContradicted' /\ UnclaimedYet' /\ AddsWait'
    BY <1>b, <2>1, LoopTakes DEF ClaimInv
  <2>3. QED
    BY <1>b, <2>2 DEF ClaimInv
<1>c. ASSUME at \in {"widen", "segments", "cycle"}, job' = job, Waiting(body'),
             NEW facts, NoClaim(facts), evidence' = evidence \cup facts, adds' = adds, TrialPresent'
      PROVE  ClaimInv'
  <2>1. FalseClaimsAreContradicted' /\ UnclaimedYet'
    BY <1>c, Unclaiming
  <2>2. AddsWait'
    BY <1>c DEF AddsWait, Waiting, Removed, Record, Present
  <2>3. QED
    BY <1>c, <2>1, <2>2 DEF ClaimInv
<1>d. ASSUME NEW f, NEW v, v # Absent, Waiting(body)
      PROVE  Waiting(With(body, f, v))
  BY <1>d, WithPresent DEF Waiting, TypeOK
<1>1. CASE Attempt
  <2>1. AddsWait' /\ TrialPresent'
    BY <1>1 DEF Attempt, Goes, ClaimInv, AddsWait, TrialPresent, Waiting, Removed, Record, Trying
  <2>2. QED
    BY <1>1, <1>a, <2>1 DEF Attempt, Goes
<1>2. CASE Resume
  <2>1. AddsWait' /\ TrialPresent'
    BY <1>2 DEF Resume, Goes, ClaimInv, AddsWait, TrialPresent, Waiting, Removed, Record, Trying
  <2>2. QED
    BY <1>2, <1>a, <2>1 DEF Resume, Goes
<1>3. CASE Exhausted
  <2>1. at = "loop" /\ UNCHANGED <<job, trial, adjusted>>
    BY <1>3 DEF Exhausted
  <2>2. CASE Unresolved(res, {})
    BY <1>n, <1>u, <2>1, <2>2
  <2>3. CASE Goes("done")
    <3>1. AddsWait' /\ TrialPresent'
      BY <2>1, <2>3 DEF Goes, ClaimInv, AddsWait, TrialPresent, Trying
    <3>2. QED
      BY <1>a, <2>1, <2>3, <3>1 DEF Goes
  <2>4. QED
    BY <1>3, <2>2, <2>3 DEF Exhausted
<1>4. CASE Ends
  <2>1. at = "answer" /\ UNCHANGED <<job, body, trial, adjusted>>
    BY <1>4 DEF Ends
  <2>2. TrialPresent'
    BY <2>1 DEF ClaimInv, TrialPresent, Trying
  <2>3. CASE Fails
    <3>1. AddsWait'
      BY <2>3 DEF Fails, AddsWait
    <3>2. QED
      BY <1>a, <2>1, <2>2, <2>3, <3>1 DEF Fails
  <2>4. CASE TakenByLoop(body, {})
    <3>1. Waiting(body') /\ TakenByLoop(body', {})
      BY <2>1, <2>4 DEF ClaimInv, AddsWait
    <3>2. QED
      BY <1>n, <2>1, <2>2, <3>1, LoopTakes DEF ClaimInv
  <2>5. CASE Unresolved(res, {})
    BY <1>n, <1>u, <2>1, <2>5
  <2>6. CASE /\ job.kind = "update" /\ at' = "done"
             /\ evidence' = evidence \cup Claims(adds)
    <3>1. Waiting(body) /\ NoClaim(evidence) /\ Record
      BY <2>1, <2>6 DEF ClaimInv, AddsWait, UnclaimedYet, Record
    <3>2. ASSUME NEW f \in Fields, <<"add", f>> \in evidence'
          PROVE  Present(body', f) \/ <<"remove", f>> \in evidence'
      <4>1. f \in adds
        BY <2>6, <3>1, <3>2 DEF NoClaim, Claims
      <4>2. QED
        BY <2>1, <2>6, <3>1, <4>1 DEF Waiting, Removed
    <3>3. QED
      BY <2>1, <2>2, <2>6, <3>2, Answered DEF ClaimInv
  <2>7. QED
    BY <1>4, <2>3, <2>4, <2>5, <2>6 DEF Ends
<1>5. CASE NextChoice
  <2>1. PICK next \in NextChoices :
          /\ body' = With(With(body, choice.field, Absent), next, "plain")
          /\ adds' = GivenWay(next)
    BY <1>5 DEF NextChoice
  <2>2. /\ at = "answer" /\ at' = "loop" /\ UNCHANGED <<job, trial, evidence>>
    BY <1>5 DEF NextChoice, Classifying, Goes
  <2>3. next \in Fields
    BY NextChoicesType
  <2>4. With(body, choice.field, Absent) \in Body
    BY WithType, OwnValues DEF TypeOK
  <2>5. ASSUME Record, NEW f \in Fields, f \in adds'
        PROVE  Present(body', f) \/ Removed(f)
    <3>1. CASE f = next
      BY <1>v, <2>1, <2>3, <2>4, <3>1, PutIn
    <3>2. CASE f # next
      <4>1. f \in adds /\ f # choice.field
        BY <2>1, <2>5, <3>2 DEF GivenWay
      <4>2. Present(body, f) \/ Removed(f)
        BY <2>2, <2>5, <4>1 DEF ClaimInv, AddsWait, Waiting
      <4>3. CASE Present(body, f)
        <5>1. Present(With(body, choice.field, Absent), f)
          BY <4>1, <4>3, TookOut DEF TypeOK
        <5>2. QED
          BY <1>v, <2>1, <2>4, <5>1, WithPresent
      <4>4. QED
        BY <4>2, <4>3
    <3>3. QED
      BY <3>1, <3>2
  <2>6. adds' \subseteq Fields
    BY <2>1, <2>3 DEF GivenWay, TypeOK
  <2>7. AddsWait' /\ TrialPresent'
    BY <2>2, <2>5, <2>6 DEF AddsWait, Waiting, Removed, Record, Present, ClaimInv, TrialPresent, Trying
  <2>8. QED
    BY <1>a, <2>2, <2>7
<1>6. CASE ReadCollection
  <2>1. AddsWait' /\ TrialPresent'
    BY <1>6 DEF ReadCollection, ClaimInv, AddsWait, TrialPresent, Waiting, Removed, Record, Trying
  <2>2. QED
    BY <1>6, <1>a, <2>1 DEF ReadCollection, Classifying
<1>7. CASE Adjust
  <2>1. PICK c \in Corrections :
          /\ body' = c.body
          /\ adds' = adds \cup c.adds
          /\ evidence' = evidence \cup c.facts
    BY <1>7 DEF Adjust
  <2>2. at = "answer" /\ at' = "loop" /\ UNCHANGED <<job, trial>>
    BY <1>7 DEF Adjust, Classifying
  <2>3. res \in Answers
    BY <1>7, ClassifiedAnswer DEF Adjust
  <2>4. /\ \A g \in Fields : Present(body, g) /\ ~Present(c.body, g) /\ Record =>
                              <<"remove", g>> \in c.facts
        /\ \A g \in c.adds : g \in Fields /\ Present(c.body, g)
        /\ NoClaim(c.facts)
    BY <2>3, CorrectionKeeps DEF TypeOK
  <2>5. ASSUME Record, NEW f \in adds'
        PROVE  Present(body', f) \/ <<"remove", f>> \in evidence'
    <3>1. CASE f \in c.adds
      BY <2>1, <2>4, <3>1
    <3>2. CASE f \in adds
      <4>1. f \in Fields /\ (Present(body, f) \/ Removed(f))
        BY <2>2, <2>5, <3>2 DEF ClaimInv, AddsWait, Waiting, TypeOK
      <4>2. QED
        BY <2>1, <2>4, <2>5, <4>1 DEF Removed
    <3>3. QED
      BY <2>1, <2>5, <3>1, <3>2
  <2>6. AddsWait' /\ TrialPresent'
    BY <2>2, <2>5 DEF AddsWait, Waiting, Removed, Record, Present, ClaimInv, TrialPresent, Trying
  <2>7. FalseClaimsAreContradicted' /\ UnclaimedYet'
    BY <2>1, <2>2, <2>4, Unclaiming
  <2>8. QED
    BY <2>6, <2>7 DEF ClaimInv
<1>8. CASE Unclassified
  <2>1. AddsWait' /\ TrialPresent'
    BY <1>8 DEF Unclassified, Classifying, Goes, ClaimInv, AddsWait, TrialPresent, Waiting, Removed, Record, Trying
  <2>2. QED
    BY <1>8, <1>a, <2>1 DEF Unclassified, Classifying, Goes
<1>9. CASE Widen
  <2>1. PICK f \in Narrow, a \in Answers :
          /\ applied' = applied \cup {<<"w", f>>}
          /\ body' = IF a.kind = "created" \/ MovesOn(a, f)
                     THEN With(body, f, "wide") ELSE body
          /\ (CASE a.kind = "unseen" -> TrialFails
                [] a.kind = "created" -> TrialTaken(With(body, f, "wide"), {})
                [] MovesOn(a, f) -> MovedOn(With(body, f, "wide"), a, {})
                [] SaysSame(a, f) -> TrialGoes("widen", {})
                [] OTHER -> TrialGoes("segments", {}))
    BY <1>9 DEF Widen
  <2>2. at = "widen" /\ UNCHANGED <<job, trial, adds>>
    BY <1>9 DEF Widen
  <2>3. Waiting(body) /\ Waiting(With(body, f, "wide"))
    BY <1>d, <1>v, <2>2 DEF ClaimInv, AddsWait
  <2>4. TrialPresent'
    BY <2>2 DEF ClaimInv, TrialPresent, Trying
  <2>5. Waiting(body')
    BY <2>1, <2>3
  <2>6. CASE a.kind = "created" /\ TrialTaken(With(body, f, "wide"), {})
    BY <1>b, <1>n, <2>1, <2>2, <2>3, <2>4, <2>6
  <2>7. CASE evidence' = evidence
    <3>1. evidence' = evidence \cup {}
      BY <2>7
    <3>2. QED
      BY <1>c, <1>n, <2>1, <2>2, <2>4, <2>5, <3>1
  <2>8. \/ a.kind = "created" /\ TrialTaken(With(body, f, "wide"), {})
        \/ evidence' = evidence
        \/ MovedOn(With(body, f, "wide"), a, {})
    <3>1. CASE a.kind \in {"created", "unseen"}
      <4>1. ~MovesOn(a, f) /\ ~SaysSame(a, f)
        BY <3>1 DEF Refused, MovesOn, SaysSame
      <4>2. TrialFails \/ (a.kind = "created" /\ TrialTaken(With(body, f, "wide"), {}))
        BY <2>1, <3>1, <4>1
      <4>3. QED
        BY <4>2 DEF TrialFails, Fails
    <3>2. CASE a.kind \notin {"created", "unseen"}
      <4>1. \/ MovedOn(With(body, f, "wide"), a, {})
            \/ TrialGoes("widen", {}) \/ TrialGoes("segments", {})
        <5>1. CASE MovesOn(a, f)
          BY <2>1, <3>2, <5>1 DEF SaysSame
        <5>2. CASE ~MovesOn(a, f)
          BY <2>1, <3>2, <5>2
        <5>3. QED
          BY <5>1, <5>2
      <4>2. QED
        BY <4>1 DEF TrialGoes
    <3>3. QED
      BY <3>1, <3>2
  <2>9. MovedOn(With(body, f, "wide"), a, {}) => evidence' = evidence
    BY DEF MovedOn
  <2>10. QED
    BY <2>6, <2>7, <2>8, <2>9
<1>10. CASE Widened
  <2>1. AddsWait' /\ TrialPresent'
    BY <1>10 DEF Widened, Goes, ClaimInv, AddsWait, TrialPresent, Waiting, Removed, Record, Trying
  <2>2. QED
    BY <1>10, <1>a, <2>1 DEF Widened, Goes
<1>11. CASE BeginSegments
  <2>1. /\ at = "segments" /\ UNCHANGED <<job, body, adds, evidence>>
        /\ applied \subseteq applied'
    BY <1>11 DEF BeginSegments, Goes
  <2>2. AddsWait'
    BY <2>1 DEF ClaimInv, AddsWait, Waiting, Removed, Record, Present
  <2>3. TrialPresent'
    <3>1. CASE SegmentField = NoField
      BY <1>11, <3>1 DEF BeginSegments, ClaimInv, TrialPresent, Trying
    <3>2. CASE SegmentField # NoField
      <4>1. Present(body, SegmentField)
        BY <3>2 DEF SegmentField, Quoted
      <4>2. trial' = [field |-> SegmentField, own |-> body[SegmentField],
                      left |-> Segments \ {body[SegmentField]}]
        BY <1>11, <3>2 DEF BeginSegments
      <4>3. QED
        BY <4>1, <4>2, CorrectionAssumption DEF Present, TrialPresent
    <3>3. QED
      BY <3>1, <3>2
  <2>4. QED
    BY <1>a, <2>1, <2>2, <2>3
<1>12. CASE TrySegment
  <2> DEFINE tried(v) == With(body, trial.field, v)
             moved(v, a) == Refused(a) /\ Quoted(a, tried(v)) # trial.field
  <2>1. PICK v \in trial.left, a \in Answers :
          /\ body' = tried(v)
          /\ trial' = IF a.kind = "created" \/ moved(v, a) THEN NoTrial
                      ELSE IF Refused(a) THEN [trial EXCEPT !.left = @ \ {v}]
                      ELSE [trial EXCEPT !.left = {}]
          /\ (CASE a.kind = "unseen" -> TrialFails
                [] a.kind = "created" -> TrialTaken(tried(v), SegmentFacts(v))
                [] moved(v, a) -> MovedOn(tried(v), a, SegmentFacts(v))
                [] OTHER -> TrialGoes("segments", {}))
    BY <1>12 DEF TrySegment
  <2>2. at = "segments" /\ Trying /\ UNCHANGED <<job, applied, adds>>
    BY <1>12 DEF TrySegment
  <2>3. a.kind \in {"created", "unseen"} => ~moved(v, a)
    BY DEF Refused
  <2>4. trial.own # Absent /\ Absent \notin trial.left
    BY <2>2 DEF ClaimInv, TrialPresent
  <2>5. Waiting(tried(v))
    BY <1>d, <2>2, <2>4 DEF ClaimInv, AddsWait
  <2> HIDE DEF moved, tried
  <2>6. TrialPresent'
    BY <2>1, <2>4 DEF TrialPresent, Trying, NoTrial, TypeOK
  <2>7. NoClaim(SegmentFacts(v))
    BY TrialsClaimNothing
  <2>8. \/ TrialFails \/ TrialGoes("segments", {})
        \/ TrialTaken(tried(v), SegmentFacts(v))
        \/ MovedOn(tried(v), a, SegmentFacts(v))
    BY <2>1, <2>3
  <2>9. CASE TrialFails \/ TrialGoes("segments", {})
    <3>1. evidence' = evidence \cup {}
      BY <2>9 DEF TrialFails, Fails, TrialGoes
    <3>2. QED
      BY <1>c, <1>n, <2>1, <2>2, <2>5, <2>6, <3>1
  <2>10. CASE TrialTaken(tried(v), SegmentFacts(v))
    BY <1>b, <2>1, <2>2, <2>5, <2>6, <2>7, <2>10
  <2>11. CASE MovedOn(tried(v), a, SegmentFacts(v))
    <3>1. evidence' = evidence \cup SegmentFacts(v)
      BY <2>11 DEF MovedOn
    <3>2. QED
      BY <1>c, <2>1, <2>2, <2>5, <2>6, <2>7, <3>1
  <2>12. QED
    BY <2>8, <2>9, <2>10, <2>11
\* A field put back has the value it had when its trial began.
<1>e. ASSUME at \in {"segments", "cycle"}, Trying, body' = Restored, trial' = NoTrial,
             UNCHANGED <<job, adds, applied, evidence>>
      PROVE  ClaimInv'
  <2>1. Waiting(Restored)
    BY <1>d, <1>e DEF ClaimInv, AddsWait, TrialPresent, Restored
  <2>2. AddsWait' /\ TrialPresent'
    BY <1>e, <2>1 DEF AddsWait, Waiting, Removed, Record, Present, TrialPresent, Trying, NoTrial
  <2>3. QED
    BY <1>a, <1>e, <2>2
<1>13. CASE SegmentsTried
  BY <1>13, <1>e DEF SegmentsTried, Goes
<1>14. CASE NextTarget
  <2>1. PICK f \in Untried :
          /\ trial' = [field |-> f, own |-> body[f], left |-> Others(f)]
          /\ applied' = applied \cup {<<"c", f>>}
          /\ evidence' = evidence \cup Combination(body, f, FALSE)
    BY <1>14 DEF NextTarget
  <2>2. at = "cycle" /\ UNCHANGED <<job, body, adds>>
    BY <1>14 DEF NextTarget
  <2>3. Present(body, f)
    BY DEF Untried, Targets
  <2>4. TrialPresent'
    BY <2>1, <2>3, CorrectionAssumption DEF TrialPresent, Others, Present
  <2>5. NoClaim(Combination(body, f, FALSE))
    BY TrialsClaimNothing
  <2>6. Waiting(body')
    BY <2>2 DEF ClaimInv, AddsWait
  <2>7. QED
    BY <1>c, <2>1, <2>2, <2>4, <2>5, <2>6
<1>15. CASE TryValue
  <2> DEFINE tried(v) == With(body, trial.field, v)
             fact(v, a) == Combination(tried(v), trial.field, a.kind = "created")
  <2>1. PICK v \in trial.left, a \in Answers :
          /\ body' = tried(v)
          /\ trial' = IF a.kind = "created" THEN NoTrial
                      ELSE IF Refused(a) THEN [trial EXCEPT !.left = @ \ {v}]
                      ELSE [trial EXCEPT !.left = {}]
          /\ (CASE a.kind = "unseen" -> TrialFails
                [] a.kind = "created" -> TrialTaken(tried(v), fact(v, a))
                [] OTHER -> TrialGoes("cycle", fact(v, a)))
    BY <1>15 DEF TryValue, TryAnyValue
  <2>2. at = "cycle" /\ Trying /\ UNCHANGED <<job, applied, adds>>
    BY <1>15 DEF TryValue, TryAnyValue
  <2>4. trial.own # Absent /\ Absent \notin trial.left
    BY <2>2 DEF ClaimInv, TrialPresent
  <2>5. Waiting(tried(v))
    BY <1>d, <2>2, <2>4 DEF ClaimInv, AddsWait
  <2>7. NoClaim(fact(v, a))
    BY TrialsClaimNothing
  <2> HIDE DEF fact, tried
  <2>6. TrialPresent'
    BY <2>1, <2>4 DEF TrialPresent, Trying, NoTrial, TypeOK
  <2>8. \/ TrialFails \/ TrialGoes("cycle", fact(v, a))
        \/ TrialTaken(tried(v), fact(v, a))
    BY <2>1
  <2>9. CASE TrialFails
    <3>1. evidence' = evidence \cup {}
      BY <2>9 DEF TrialFails, Fails
    <3>2. QED
      BY <1>c, <1>n, <2>1, <2>2, <2>5, <2>6, <3>1
  <2>10. CASE TrialTaken(tried(v), fact(v, a))
    BY <1>b, <2>1, <2>2, <2>5, <2>6, <2>7, <2>10
  <2>11. CASE TrialGoes("cycle", fact(v, a))
    <3>1. evidence' = evidence \cup fact(v, a)
      BY <2>11 DEF TrialGoes
    <3>2. QED
      BY <1>c, <2>1, <2>2, <2>5, <2>6, <2>7, <3>1
  <2>12. QED
    BY <2>8, <2>9, <2>10, <2>11
<1>16. CASE TargetTried
  BY <1>16, <1>e DEF TargetTried
<1>17. CASE CycleEnds
  <2>1. NoClaim(UNION {Inconclusive(f) : f \in Targets})
    BY TrialsClaimNothing, Zenon DEF NoClaim
  <2>2. /\ Unresolved(res, UNION {Inconclusive(f) : f \in Targets})
        /\ at # "done" /\ UNCHANGED <<job, trial, adjusted>>
    BY <1>17 DEF CycleEnds
  <2>3. QED
    BY <1>u, <2>1, <2>2
<1>18. CASE BeginSearch
  <2>1. AddsWait' /\ TrialPresent'
    BY <1>18 DEF BeginSearch, Goes, ClaimInv, AddsWait, TrialPresent, Trying
  <2>2. QED
    BY <1>18, <1>a, <2>1 DEF BeginSearch, Goes
\* The search goes on, claiming nothing.
<1>f. ASSUME NEW a, NEW where \in {"search", "wider"}, SearchGoes(a, where),
             at # "done", UNCHANGED <<job, trial>>
      PROVE  ClaimInv'
  <2>1. evidence' = evidence /\ at' \in {"search", "wider", "done"}
    BY <1>f DEF SearchGoes, Goes
  <2>2. AddsWait' /\ TrialPresent'
    BY <1>f, <2>1 DEF ClaimInv, AddsWait, TrialPresent, Trying
  <2>3. QED
    BY <1>a, <1>f, <2>1, <2>2
<1>g. ASSUME NEW b, body' = b, NEW n, Taken(b, Claims(Carried(n, b))),
             at # "done", UNCHANGED <<job, trial>>
      PROVE  ClaimInv'
  <2>1. FalseClaimsAreContradicted' /\ UnclaimedYet' /\ AddsWait'
    <3>1. Taken(body', Claims(Carried(n, body')))
      BY <1>g
    <3>2. QED
      BY <1>g, <3>1, SearchTakes DEF ClaimInv
  <2>2. TrialPresent'
    BY <1>g DEF ClaimInv, TrialPresent, Trying
  <2>3. QED
    BY <2>1, <2>2 DEF ClaimInv
<1>k. \A a, f : a.kind = "created" => ~Objects(a, f)
  BY DEF Objects, AboutBody, Refused
<1>19. CASE AddCandidate
  <2> DEFINE f     == search.fields[search.n]
             wider == With(body, f, "plain")
  <2>1. PICK a \in Answers :
          /\ body' = IF Objects(a, f) /\ ~(Objects(a, f) /\ WorthWidening(f)) THEN body ELSE wider
          /\ IF a.kind = "created"
             THEN Taken(wider, Claims(Carried(search.n, wider)))
             ELSE SearchGoes(a, IF Objects(a, f) /\ WorthWidening(f) THEN "wider" ELSE "search")
    BY <1>19 DEF AddCandidate
  <2>2. at # "done" /\ UNCHANGED <<job, trial>>
    BY <1>19 DEF AddCandidate
  <2> HIDE DEF f, wider
  <2>3. \/ body' = wider /\ Taken(wider, Claims(Carried(search.n, wider)))
        \/ SearchGoes(a, "wider") \/ SearchGoes(a, "search")
    BY <2>1, <1>k
  <2>4. QED
    BY <1>f, <1>g, <2>2, <2>3
<1>20. CASE WidenCandidate
  <2> DEFINE f     == search.fields[search.n]
             wider == With(body, f, "wide")
  <2>1. PICK a \in Answers :
          /\ body' = IF Objects(a, f) THEN With(body, f, Absent) ELSE wider
          /\ IF a.kind = "created"
             THEN Taken(wider, Claims(Carried(search.tried, wider)))
             ELSE SearchGoes(a, "search")
    BY <1>20 DEF WidenCandidate
  <2>2. at # "done" /\ UNCHANGED <<job, trial>>
    BY <1>20 DEF WidenCandidate
  <2> HIDE DEF f, wider
  <2>3. \/ body' = wider /\ Taken(wider, Claims(Carried(search.tried, wider)))
        \/ SearchGoes(a, "search")
    BY <2>1, <1>k
  <2>4. QED
    BY <1>f, <1>g, <2>2, <2>3
<1>21. CASE SearchEnds
  <2>1. AddsWait' /\ TrialPresent'
    BY <1>21 DEF SearchEnds, Goes, ClaimInv, AddsWait, TrialPresent, Trying
  <2>2. QED
    BY <1>21, <1>a, <2>1 DEF SearchEnds, Goes
<1>22. CASE UNCHANGED vars
  BY <1>22 DEF vars, ClaimInv, FalseClaimsAreContradicted, UnclaimedYet, AddsWait, TrialPresent,
               NoClaim, Waiting, Removed, Record, Present, Trying
<1>23. CASE Finished
  BY <1>22, <1>23 DEF Finished
<1>24. QED
  BY <1>1, <1>2, <1>3, <1>4, <1>5, <1>6, <1>7, <1>8, <1>9, <1>10, <1>11, <1>12, <1>13,
     <1>14, <1>15, <1>16, <1>17, <1>18, <1>19, <1>20, <1>21, <1>22, <1>23 DEF Next

\* A field is recorded as required only once the step has been answered, for a
\* create by taking the body; and one the body no longer carries then is on record
\* as removed too (adjust.go:226-236, 568-586).
THEOREM ClaimsAreOfBodies == Spec => []FalseClaimsAreContradicted
<1>1. Init => TypeOK /\ RefusalInv /\ ClaimInv
  BY TypeInit, RefusalInit, ClaimInit
<1>2. TypeOK /\ RefusalInv /\ ClaimInv /\ [Next]_vars
        => TypeOK' /\ RefusalInv' /\ ClaimInv'
  BY TypeStep, RefusalStep, ClaimStep DEF RefusalInv
<1>3. ClaimInv => FalseClaimsAreContradicted
  BY DEF ClaimInv
<1>4. QED
  BY <1>1, <1>2, <1>3, PTL DEF Spec

-----------------------------------------------------------------------------
(***************************************************************************)
(* What is recorded of combinations.  Each field is cycled at most once    *)
(* and each value sent at most once, so a value about to be sent has not   *)
(* been refused beside what the body holds; and once one is taken the step *)
(* is over.                                                                *)
(***************************************************************************)
Combined(facts) == {e \in facts : e[1] = "combination"}

NoneTaken == at # "done" => \A e \in Combined(evidence) : ~e[5]
OnceEach  == \A g, x, y : <<"combination", x, g, y, FALSE>> \in evidence =>
               \E f \in Fields : f # job.held /\ g = Constrained(f) /\ <<"c", f>> \in applied
LeftAreNew ==
  at = "cycle" /\ Trying =>
    /\ trial.field \in Fields /\ trial.field # job.held /\ <<"c", trial.field>> \in applied
    /\ \A v \in trial.left :
         Combination(With(body, trial.field, v), trial.field, FALSE) \cap evidence = {}

CombinationInv == NoContradiction /\ NoneTaken /\ OnceEach /\ LeftAreNew

\* Two fields neither of which is pinned do not constrain the same one.
LEMMA ConstrainedApart ==
  ASSUME NEW f, NEW g, f # job.held, g # job.held, Constrained(f) = Constrained(g)
  PROVE  f = g
  BY DEF Constrained

\* What else is written down is of no combination.
LEMMA OtherFacts ==
  /\ \A x, y \in BOOLEAN : \A a : Combined(Concluded(x, y, a)) = {}
  /\ \A S : Combined(Claims(S)) = {}
  /\ \A v : Combined(SegmentFacts(v)) = {}
  /\ Combined(UNION {Inconclusive(f) : f \in Targets}) = {}
<1>1. ASSUME NEW x \in BOOLEAN, NEW y \in BOOLEAN, NEW a
      PROVE  Combined(Concluded(x, y, a)) = {}
  <2>1. Combined(ValueConcluded(x, y, a)) = {}
    BY DEF Combined, ValueConcluded
  <2>2. \A u, v, w : <<"half", u, v, w>>[1] # "combination"
    OBVIOUS
  <2>3. QED
    BY <2>1, <2>2 DEF Combined, Concluded
<1>2. \A S : Combined(Claims(S)) = {}
  BY DEF Combined, Claims
<1>3. \A v : Combined(SegmentFacts(v)) = {}
  BY DEF Combined, SegmentFacts
<1>4. Combined(UNION {Inconclusive(f) : f \in Targets}) = {}
  BY DEF Combined, Inconclusive
<1>5. QED
  BY <1>1, <1>2, <1>3, <1>4

\* The steps that cycle no value record no combination, and come to the
\* cycling with no trial under way.
Combines == NextTarget \/ TryValue
Elsewhere ==
  /\ Combined(evidence') \subseteq Combined(evidence)
  /\ applied \subseteq applied' /\ job' = job
  /\ at' = "cycle" => ~Trying'

LEMMA TakenElsewhere ==
  ASSUME TypeOK, NEW b, NEW claims, Taken(b, claims), Combined(claims) = {},
         applied \subseteq applied', job' = job
  PROVE  Elsewhere
<1>1. Combined(Concluded(TRUE, TRUE, res)) = {}
  BY OtherFacts
<1>2. evidence' = evidence \cup claims \cup Concluded(TRUE, TRUE, res) /\ at' = "done"
  BY DEF Taken
<1>3. QED
  BY <1>1, <1>2 DEF Elsewhere, Combined

LEMMA LoopTakenElsewhere ==
  ASSUME TypeOK, NEW b, NEW facts, TakenByLoop(b, facts), Combined(facts) = {},
         applied \subseteq applied', job' = job
  PROVE  Elsewhere
<1>1. Combined(facts \cup (IF Record THEN Claims(adds) ELSE {})) = {}
  BY OtherFacts DEF Combined
<1>2. QED
  BY <1>1, TakenElsewhere DEF TakenByLoop

LEMMA UnresolvedElsewhere ==
  ASSUME TypeOK, NEW a, NEW facts, Unresolved(a, facts), Combined(facts) = {},
         applied \subseteq applied', job' = job
  PROVE  Elsewhere
<1>1. Combined(Concluded(FALSE, adjusted, a)) = {}
  BY OtherFacts DEF TypeOK
<1>2. evidence' = evidence \cup facts \cup Concluded(FALSE, adjusted, a) /\ at' # "cycle"
  BY DEF Unresolved
<1>3. QED
  BY <1>1, <1>2 DEF Elsewhere, Combined

LEMMA ElsewhereStep == TypeOK /\ [Next]_vars /\ ~Combines /\ ~UNCHANGED vars => Elsewhere
<1> SUFFICES ASSUME TypeOK, [Next]_vars, ~Combines, ~UNCHANGED vars PROVE Elsewhere
  OBVIOUS
<1> USE DEF loopVars, trialVars
<1>e. Combined({}) = {}
  BY DEF Combined
<1>k. ASSUME evidence' = evidence, applied \subseteq applied', job' = job,
             at' # "cycle" \/ ~Trying'
      PROVE  Elsewhere
  BY <1>k DEF Elsewhere
<1>m. ASSUME NEW facts, evidence' = evidence \cup facts, Combined(facts) = {},
             applied \subseteq applied', job' = job, at' # "cycle"
      PROVE  Elsewhere
  BY <1>m DEF Elsewhere, Combined
<1>1. CASE Attempt \/ Resume
  BY <1>1, <1>k DEF Attempt, Resume, Goes
<1>2. CASE Exhausted
  BY <1>2, <1>k, <1>e, UnresolvedElsewhere DEF Exhausted, Goes
<1>3. CASE Ends
  <2>1. Combined(Claims(adds)) = {}
    BY OtherFacts
  <2>2. applied' = applied /\ job' = job
    BY <1>3 DEF Ends
  <2>3. CASE Fails
    BY <2>2, <2>3, <1>k DEF Fails
  <2>4. CASE TakenByLoop(body, {})
    BY <2>2, <2>4, <1>e, LoopTakenElsewhere
  <2>5. CASE Unresolved(res, {})
    BY <2>2, <2>5, <1>e, UnresolvedElsewhere
  <2>6. CASE at' = "done" /\ evidence' = evidence \cup Claims(adds)
    BY <2>1, <2>2, <2>6, <1>m
  <2>7. QED
    BY <1>3, <2>3, <2>4, <2>5, <2>6 DEF Ends
<1>4. CASE NextChoice
  BY <1>4, <1>k DEF NextChoice, Goes
<1>5. CASE ReadCollection
  BY <1>5, <1>k DEF ReadCollection, Classifying
<1>6. CASE Adjust
  <2>1. PICK c \in Corrections : /\ applied' = applied \cup {c.mark}
                                 /\ evidence' = evidence \cup c.facts
    BY <1>6 DEF Adjust
  <2>2. at' = "loop" /\ job' = job /\ Classifying
    BY <1>6 DEF Adjust
  <2>3. CASE res \in Answers
    <3>1. c \in CorrectionType
      BY <2>3, CorrectionsType DEF TypeOK
    <3>2. c.facts \subseteq {"requires", "future", "remove", "borrow"} \X Fields
      BY <3>1 DEF CorrectionType
    <3>3. Combined(c.facts) = {}
      BY <3>2 DEF Combined
    <3>4. QED
      BY <1>m, <2>1, <2>2, <3>3
  <2>4. CASE res = NoAnswer
    BY <2>2, <2>4 DEF Classifying, NoAnswer
  <2>5. QED
    BY <2>3, <2>4 DEF TypeOK
<1>7. CASE Unclassified
  BY <1>7, <1>k DEF Unclassified, Goes
<1>8. CASE Widen
  <2>1. PICK f \in Narrow, a \in Answers :
          /\ applied' = applied \cup {<<"w", f>>}
          /\ (CASE a.kind = "unseen" -> TrialFails
                [] a.kind = "created" -> TrialTaken(With(body, f, "wide"), {})
                [] MovesOn(a, f) -> MovedOn(With(body, f, "wide"), a, {})
                [] SaysSame(a, f) -> TrialGoes("widen", {})
                [] OTHER -> TrialGoes("segments", {}))
    BY <1>8 DEF Widen
  <2>2. applied \subseteq applied' /\ job' = job
    BY <1>8, <2>1 DEF Widen
  <2>3. \/ TrialFails \/ TrialTaken(With(body, f, "wide"), {})
        \/ MovedOn(With(body, f, "wide"), a, {})
        \/ TrialGoes("widen", {}) \/ TrialGoes("segments", {})
    BY <2>1 DEF SaysSame, MovesOn, Refused
  <2>4. CASE TrialTaken(With(body, f, "wide"), {})
    BY <1>e, <2>2, <2>4, LoopTakenElsewhere DEF TrialTaken
  <2>5. CASE ~TrialTaken(With(body, f, "wide"), {})
    <3>1. evidence' = evidence /\ at' # "cycle"
      BY <2>3, <2>5 DEF TrialFails, Fails, MovedOn, TrialGoes
    <3>2. QED
      BY <1>k, <2>2, <3>1
  <2>6. QED
    BY <2>4, <2>5
<1>9. CASE Widened
  BY <1>9, <1>k DEF Widened, Goes
<1>10. CASE BeginSegments
  <2>1. applied \subseteq applied' /\ job' = job /\ evidence' = evidence
    BY <1>10 DEF BeginSegments, Goes
  <2>2. at' # "cycle" \/ ~Trying'
    BY <1>10 DEF BeginSegments, Goes, Trying
  <2>3. QED
    BY <1>k, <2>1, <2>2
<1>11. CASE TrySegment
  <2> DEFINE tried(v) == With(body, trial.field, v)
             moved(v, a) == Refused(a) /\ Quoted(a, tried(v)) # trial.field
  <2>1. PICK v \in trial.left, a \in Answers :
          (CASE a.kind = "unseen" -> TrialFails
             [] a.kind = "created" -> TrialTaken(tried(v), SegmentFacts(v))
             [] moved(v, a) -> MovedOn(tried(v), a, SegmentFacts(v))
             [] OTHER -> TrialGoes("segments", {}))
    BY <1>11 DEF TrySegment
  <2>2. applied' = applied /\ job' = job
    BY <1>11 DEF TrySegment
  <2>3. Combined(SegmentFacts(v)) = {}
    BY OtherFacts
  <2>4. a.kind \in {"created", "unseen"} => ~moved(v, a)
    BY DEF Refused
  <2> HIDE DEF moved, tried
  <2>5. \/ TrialFails \/ TrialGoes("segments", {})
        \/ TrialTaken(tried(v), SegmentFacts(v))
        \/ MovedOn(tried(v), a, SegmentFacts(v))
    BY <2>1, <2>4
  <2>6. CASE TrialFails \/ TrialGoes("segments", {})
    BY <1>k, <2>2, <2>6 DEF TrialFails, Fails, TrialGoes
  <2>7. CASE TrialTaken(tried(v), SegmentFacts(v))
    BY <2>2, <2>3, <2>7, LoopTakenElsewhere DEF TrialTaken
  <2>8. CASE MovedOn(tried(v), a, SegmentFacts(v))
    BY <1>m, <2>2, <2>3, <2>8 DEF MovedOn
  <2>9. QED
    BY <2>5, <2>6, <2>7, <2>8
<1>12. CASE SegmentsTried
  BY <1>12, <1>k DEF SegmentsTried, Goes, Trying, NoTrial
<1>13. CASE TargetTried
  BY <1>13, <1>k DEF TargetTried, Trying, NoTrial
<1>14. CASE CycleEnds
  BY <1>14, OtherFacts, UnresolvedElsewhere DEF CycleEnds
<1>15. CASE BeginSearch
  BY <1>15, <1>k DEF BeginSearch, Goes
<1>16. CASE AddCandidate
  <2> DEFINE f     == search.fields[search.n]
             wider == With(body, f, "plain")
  <2>1. PICK a \in Answers :
          IF a.kind = "created"
          THEN Taken(wider, Claims(Carried(search.n, wider)))
          ELSE SearchGoes(a, IF Objects(a, f) /\ WorthWidening(f) THEN "wider" ELSE "search")
    BY <1>16 DEF AddCandidate
  <2>2. applied' = applied /\ job' = job
    BY <1>16 DEF AddCandidate
  <2>3. Combined(Claims(Carried(search.n, wider))) = {}
    BY OtherFacts
  <2> HIDE DEF f, wider
  <2>4. CASE Taken(wider, Claims(Carried(search.n, wider)))
    BY <2>2, <2>3, <2>4, TakenElsewhere
  <2>5. CASE SearchGoes(a, "wider") \/ SearchGoes(a, "search")
    BY <1>k, <2>2, <2>5 DEF SearchGoes, Goes
  <2>6. QED
    BY <2>1, <2>4, <2>5
<1>17. CASE WidenCandidate
  <2> DEFINE f     == search.fields[search.n]
             wider == With(body, f, "wide")
  <2>1. PICK a \in Answers :
          IF a.kind = "created"
          THEN Taken(wider, Claims(Carried(search.tried, wider)))
          ELSE SearchGoes(a, "search")
    BY <1>17 DEF WidenCandidate
  <2>2. applied' = applied /\ job' = job
    BY <1>17 DEF WidenCandidate
  <2>3. Combined(Claims(Carried(search.tried, wider))) = {}
    BY OtherFacts
  <2> HIDE DEF f, wider
  <2>4. CASE Taken(wider, Claims(Carried(search.tried, wider)))
    BY <2>2, <2>3, <2>4, TakenElsewhere
  <2>5. CASE SearchGoes(a, "search")
    BY <1>k, <2>2, <2>5 DEF SearchGoes, Goes
  <2>6. QED
    BY <2>1, <2>4, <2>5
<1>18. CASE SearchEnds
  BY <1>18, <1>k DEF SearchEnds, Goes
<1>19. QED
  BY <1>1, <1>2, <1>3, <1>4, <1>5, <1>6, <1>7, <1>8, <1>9, <1>10, <1>11, <1>12, <1>13,
     <1>14, <1>15, <1>16, <1>17, <1>18 DEF Next, Combines, Finished

\* Nothing that happens elsewhere disturbs what is recorded of combinations.
LEMMA ElsewhereKeeps == CombinationInv /\ at # "done" /\ Elsewhere => CombinationInv'
<1> SUFFICES ASSUME CombinationInv, at # "done", Elsewhere PROVE CombinationInv'
  OBVIOUS
<1>1. \A e \in Combined(evidence') : e \in Combined(evidence) /\ ~e[5]
  BY DEF CombinationInv, NoneTaken, Elsewhere
<1>2. NoContradiction'
  BY <1>1 DEF NoContradiction, Combined
<1>3. NoneTaken'
  BY <1>1 DEF NoneTaken
<1>4. OnceEach'
  <2>1. ASSUME NEW g, NEW x, NEW y, <<"combination", x, g, y, FALSE>> \in evidence'
        PROVE  \E f \in Fields : f # job'.held /\ g = Constrained(f)' /\ <<"c", f>> \in applied'
    <3>1. <<"combination", x, g, y, FALSE>> \in Combined(evidence')
      BY <2>1 DEF Combined
    <3>2. <<"combination", x, g, y, FALSE>> \in evidence
      BY <1>1, <3>1 DEF Combined
    <3>3. PICK f \in Fields : f # job.held /\ g = Constrained(f) /\ <<"c", f>> \in applied
      BY <3>2 DEF CombinationInv, OnceEach
    <3>4. Constrained(f)' = Constrained(f)
      BY DEF Elsewhere, Constrained, gate
    <3>5. QED
      BY <3>3, <3>4 DEF Elsewhere
  <2>2. QED
    BY <2>1 DEF OnceEach
<1>5. LeftAreNew'
  BY DEF Elsewhere, LeftAreNew
<1>6. QED
  BY <1>2, <1>3, <1>4, <1>5 DEF CombinationInv

LEMMA FifthIsLast == \A x, y, z : ~(<<"combination", x, y, z, FALSE>>[5])
  OBVIOUS

\* The cycling begins with a field: what its own value was refused beside is
\* written down, and its other values are new.
LEMMA NextTargetKeeps == TypeOK /\ CombinationInv /\ NextTarget => CombinationInv'
<1> SUFFICES ASSUME TypeOK, CombinationInv, NextTarget PROVE CombinationInv'
  OBVIOUS
<1>1. PICK f \in Untried :
        /\ applied' = applied \cup {<<"c", f>>}
        /\ trial' = [field |-> f, own |-> body[f], left |-> Others(f)]
        /\ evidence' = evidence \cup Combination(body, f, FALSE)
  BY DEF NextTarget
<1>2. at = "cycle" /\ ~Trying /\ UNCHANGED <<job, at, body>>
  BY DEF NextTarget
<1>3. f \in Fields /\ f # job.held /\ <<"c", f>> \notin applied
  BY <1>1, CorrectionAssumption DEF Untried, Targets
<1>4. body \in Body
  BY DEF TypeOK
<1>c. \A g : Constrained(g)' = Constrained(g)
  BY <1>2 DEF Constrained, gate
<1>5. \A e \in Combination(body, f, FALSE) :
        e = <<"combination", body[gate], Constrained(f), body[Constrained(f)], FALSE>>
  BY DEF Combination
<1>6. \A e \in Combined(evidence) : ~e[5]
  BY <1>2 DEF CombinationInv, NoneTaken
<1>7. \A e \in Combined(evidence') : ~e[5]
  <2>1. \A e \in Combination(body, f, FALSE) : ~e[5]
    BY <1>5, FifthIsLast
  <2>2. \A e \in Combined(evidence') : e \in Combined(evidence) \/ e \in Combination(body, f, FALSE)
    BY <1>1 DEF Combined
  <2>3. QED
    BY <1>6, <2>1, <2>2
<1>8. NoContradiction' /\ NoneTaken'
  BY <1>7 DEF NoContradiction, NoneTaken, Combined
<1>9. OnceEach'
  <2>1. ASSUME NEW g, NEW x, NEW y, <<"combination", x, g, y, FALSE>> \in evidence'
        PROVE  \E h \in Fields : h # job.held /\ g = Constrained(h) /\ <<"c", h>> \in applied'
    <3>1. CASE <<"combination", x, g, y, FALSE>> \in evidence
      BY <1>1, <3>1 DEF CombinationInv, OnceEach
    <3>2. CASE <<"combination", x, g, y, FALSE>> \in Combination(body, f, FALSE)
      <4>1. g = Constrained(f)
        BY <1>5, <3>2
      <4>2. QED
        BY <1>1, <1>3, <4>1
    <3>3. QED
      BY <1>1, <2>1, <3>1, <3>2
  <2>2. QED
    BY <1>2, <1>c, <2>1 DEF OnceEach
<1>10. ASSUME NEW v \in Others(f)
       PROVE  Combination(With(body, f, v), f, FALSE) \cap evidence' = {}
  <2> DEFINE tried == With(body, f, v)
  <2>1. v # body[f] /\ tried[f] = v
    BY <1>3, <1>4 DEF Others, With, Body
  <2>2. \A e \in Combination(tried, f, FALSE) :
          e = <<"combination", tried[gate], Constrained(f), tried[Constrained(f)], FALSE>>
    BY DEF Combination
  <2>3. Combination(tried, f, FALSE) \cap evidence = {}
    <3>1. SUFFICES ASSUME NEW e \in Combination(tried, f, FALSE), e \in evidence
                   PROVE  FALSE
      OBVIOUS
    <3>2. PICK h \in Fields : /\ h # job.held /\ Constrained(f) = Constrained(h)
                              /\ <<"c", h>> \in applied
      BY <2>2, <3>1 DEF CombinationInv, OnceEach
    <3>3. h = f
      BY <1>3, <3>2, ConstrainedApart
    <3>4. QED
      BY <1>3, <3>2, <3>3
  <2>4. tried[gate] # body[gate] \/ tried[Constrained(f)] # body[Constrained(f)]
    BY <2>1 DEF Constrained
  <2>5. Combination(tried, f, FALSE) \cap Combination(body, f, FALSE) = {}
    BY <1>5, <2>2, <2>4
  <2>6. QED
    BY <1>1, <2>3, <2>5
<1>11. LeftAreNew'
  <2>1. trial'.field = f /\ trial'.left = Others(f)
    BY <1>1
  <2>2. <<"c", f>> \in applied'
    BY <1>1
  <2>3. \A v \in trial'.left :
          (Combination(With(body, trial.field, v), trial.field, FALSE) \cap evidence)' = {}
    <3>1. ASSUME NEW v \in Others(f)
          PROVE  (Combination(With(body, trial.field, v), trial.field, FALSE) \cap evidence)' = {}
      <4>1. With(body, trial.field, v)' = With(body, f, v)
        BY <1>2, <2>1 DEF With
      <4>2. Combination(With(body, trial.field, v), trial.field, FALSE)'
              = Combination(With(body, f, v), f, FALSE)
        BY <1>2, <2>1, <4>1 DEF Combination, Constrained, gate
      <4>3. QED
        BY <1>10, <4>2
    <3>2. QED
      BY <2>1, <3>1
  <2>4. QED
    BY <1>2, <1>3, <2>1, <2>2, <2>3 DEF LeftAreNew
<1>12. QED
  BY <1>8, <1>9, <1>11 DEF CombinationInv

\* A value refused leaves the ones still to be sent as new as they were, and
\* one that is taken was new itself.
LEMMA TryValueKeeps == TypeOK /\ CombinationInv /\ TryValue => CombinationInv'
<1> SUFFICES ASSUME TypeOK, CombinationInv, TryValue PROVE CombinationInv'
  OBVIOUS
<1> DEFINE f == trial.field
           tried(v) == With(body, f, v)
           fact(v, a) == Combination(tried(v), f, a.kind = "created")
<1>1. PICK v \in trial.left, a \in Answers :
        /\ body' = tried(v)
        /\ trial' = IF a.kind = "created" THEN NoTrial
                    ELSE IF Refused(a) THEN [trial EXCEPT !.left = @ \ {v}]
                    ELSE [trial EXCEPT !.left = {}]
        /\ (CASE a.kind = "unseen" -> TrialFails
              [] a.kind = "created" -> TrialTaken(tried(v), fact(v, a))
              [] OTHER -> TrialGoes("cycle", fact(v, a)))
  BY DEF TryValue, TryAnyValue
<1>2. at = "cycle" /\ Trying /\ UNCHANGED <<job, applied, adds>>
  BY DEF TryValue, TryAnyValue
<1>3. /\ f \in Fields /\ f # job.held /\ <<"c", f>> \in applied
      /\ \A w \in trial.left : Combination(tried(w), f, FALSE) \cap evidence = {}
  BY <1>2 DEF CombinationInv, LeftAreNew
<1>4. body \in Body
  BY DEF TypeOK
<1>c. \A g : Constrained(g)' = Constrained(g)
  BY <1>2 DEF Constrained, gate
<1>5. \A w, x : \A e \in Combination(tried(w), f, x) :
        e = <<"combination", tried(w)[gate], Constrained(f), tried(w)[Constrained(f)], x>>
  BY DEF Combination
<1>6. \A e \in Combined(evidence) : ~e[5]
  BY <1>2 DEF CombinationInv, NoneTaken
<1>7. CASE evidence' = evidence /\ at' = "done"
  <2>1. NoContradiction' /\ NoneTaken' /\ LeftAreNew'
    BY <1>7 DEF CombinationInv, NoContradiction, NoneTaken, LeftAreNew
  <2>2. OnceEach'
    BY <1>2, <1>7, <1>c DEF CombinationInv, OnceEach
  <2>3. QED
    BY <2>1, <2>2 DEF CombinationInv
<1>8. CASE TrialTaken(tried(v), fact(v, a)) /\ a.kind = "created"
  <2>1. Combined(Concluded(TRUE, TRUE, res)) = {}
    BY OtherFacts
  <2>2. Combined(Claims(adds)) = {}
    BY OtherFacts
  <2>3. /\ at' = "done"
        /\ \A e \in evidence' : \/ e \in evidence \/ e \in fact(v, a) \/ e \in Claims(adds)
                                \/ e \in Concluded(TRUE, TRUE, res)
    BY <1>8 DEF TrialTaken, TakenByLoop, Taken
  <2>4. \A e \in Combined(evidence') : e \in Combined(evidence) \/ e \in fact(v, a)
    BY <2>1, <2>2, <2>3 DEF Combined
  <2>5. fact(v, a) = Combination(tried(v), f, TRUE)
    BY <1>8
  <2> HIDE DEF fact
  <2>6. ASSUME NEW x, NEW y, NEW z, <<"combination", x, y, z, FALSE>> \in evidence'
        PROVE  <<"combination", x, y, z, FALSE>> \in evidence
    <3>1. <<"combination", x, y, z, FALSE>> \in Combined(evidence')
      BY <2>6 DEF Combined
    <3>2. <<"combination", x, y, z, FALSE>> \notin fact(v, a)
      <4>1. \A e \in fact(v, a) : e = <<"combination", tried(v)[gate], Constrained(f),
                                         tried(v)[Constrained(f)], TRUE>>
        BY <1>5, <2>5
      <4>2. QED
        BY <4>1
    <3>3. QED
      BY <2>4, <3>1, <3>2 DEF Combined
  <2>7. NoContradiction'
    <3>1. SUFFICES ASSUME NEW e \in evidence', e[1] = "combination", e[5],
                          <<e[1], e[2], e[3], e[4], FALSE>> \in evidence'
                   PROVE  FALSE
      BY DEF NoContradiction
    <3>2. e \in fact(v, a)
      BY <1>6, <2>4, <3>1 DEF Combined
    <3>3. <<e[1], e[2], e[3], e[4], FALSE>> \in Combination(tried(v), f, FALSE)
      <4> DEFINE g == tried(v)[gate]
                 h == tried(v)[Constrained(f)]
      <4>1. e = <<"combination", g, Constrained(f), h, TRUE>>
        BY <1>5, <2>5, <3>2
      <4>2. <<e[1], e[2], e[3], e[4], FALSE>> = <<"combination", g, Constrained(f), h, FALSE>>
        BY <4>1
      <4>3. ~(gate = NoField \/ Constrained(f) = NoField)
        BY <2>5, <3>2 DEF Combination
      <4>4. Combination(tried(v), f, FALSE) = {<<"combination", g, Constrained(f), h, FALSE>>}
        BY <4>3 DEF Combination
      <4>5. QED
        BY <4>2, <4>4
    <3>4. <<e[1], e[2], e[3], e[4], FALSE>> \in evidence
      BY <2>6, <3>1
    <3>5. QED
      BY <1>1, <1>3, <3>3, <3>4
  <2>8. OnceEach'
    BY <1>2, <1>c, <2>6 DEF CombinationInv, OnceEach
  <2>9. QED
    BY <2>3, <2>7, <2>8 DEF CombinationInv, NoneTaken, LeftAreNew
<1>9. CASE TrialGoes("cycle", fact(v, a)) /\ a.kind # "created"
  <2>1. evidence' = evidence \cup Combination(tried(v), f, FALSE) /\ at' = "cycle"
    BY <1>9 DEF TrialGoes
  <2>2. \A e \in Combination(tried(v), f, FALSE) : ~e[5]
    BY <1>5, FifthIsLast
  <2>3. \A e \in Combined(evidence') : ~e[5]
    <3>1. \A e \in Combined(evidence') :
            e \in Combined(evidence) \/ e \in Combination(tried(v), f, FALSE)
      BY <2>1 DEF Combined
    <3>2. QED
      BY <1>6, <2>2, <3>1
  <2>4. NoContradiction' /\ NoneTaken'
    BY <2>3 DEF NoContradiction, NoneTaken, Combined
  <2>5. OnceEach'
    <3>1. ASSUME NEW g, NEW x, NEW y, <<"combination", x, g, y, FALSE>> \in evidence'
          PROVE  \E h \in Fields : h # job.held /\ g = Constrained(h) /\ <<"c", h>> \in applied
      <4>1. CASE <<"combination", x, g, y, FALSE>> \in evidence
        BY <4>1 DEF CombinationInv, OnceEach
      <4>2. CASE <<"combination", x, g, y, FALSE>> \in Combination(tried(v), f, FALSE)
        <5>1. g = Constrained(f)
          BY <1>5, <4>2
        <5>2. QED
          BY <1>3, <5>1
      <4>3. QED
        BY <2>1, <3>1, <4>1, <4>2
    <3>2. QED
      BY <1>2, <1>c, <3>1 DEF OnceEach
  <2>6. trial'.field = f /\ trial'.left \subseteq trial.left \ {v}
    BY <1>1, <1>9 DEF TypeOK
  <2>7. ASSUME NEW w \in trial.left, w # v
        PROVE  Combination(tried(w), f, FALSE) \cap evidence' = {}
    <3>1. tried(w)[f] = w /\ tried(v)[f] = v /\ \A g \in Fields : g # f => tried(w)[g] = tried(v)[g]
      BY <1>3, <1>4 DEF With, Body
    <3>2. tried(w)[gate] # tried(v)[gate] \/ tried(w)[Constrained(f)] # tried(v)[Constrained(f)]
      BY <2>7, <3>1 DEF Constrained
    <3> HIDE DEF tried
    <3>3. Combination(tried(w), f, FALSE) \cap Combination(tried(v), f, FALSE) = {}
      BY <1>5, <3>2
    <3>4. QED
      BY <1>3, <2>1, <3>3
  <2>8. ASSUME NEW w \in trial'.left
        PROVE  (Combination(With(body, trial.field, w), trial.field, FALSE) \cap evidence)' = {}
    <3>1. With(body', f, w) = With(body, f, w)
      BY <1>1, <1>4, WithTwice
    <3>2. Combination(With(body, trial.field, w), trial.field, FALSE)'
            = Combination(With(body, f, w), f, FALSE)
      BY <1>2, <2>6, <3>1 DEF Combination, Constrained, gate, With
    <3>3. QED
      BY <2>6, <2>7, <2>8, <3>2
  <2>9. LeftAreNew'
    BY <1>2, <1>3, <2>6, <2>8 DEF LeftAreNew
  <2>10. QED
    BY <2>4, <2>5, <2>9 DEF CombinationInv
<1>10. \/ evidence' = evidence /\ at' = "done"
       \/ TrialTaken(tried(v), fact(v, a)) /\ a.kind = "created"
       \/ TrialGoes("cycle", fact(v, a)) /\ a.kind # "created"
  <2> HIDE DEF tried, fact
  <2>1. QED
    BY <1>1 DEF TrialFails, Fails
<1>11. QED
  BY <1>7, <1>8, <1>9, <1>10

LEMMA CombinationInit == Init => CombinationInv
  BY DEF Init, CombinationInv, NoContradiction, NoneTaken, OnceEach, LeftAreNew, Combined

LEMMA CombinationStep == TypeOK /\ CombinationInv /\ [Next]_vars => CombinationInv'
<1> SUFFICES ASSUME TypeOK, CombinationInv, [Next]_vars PROVE CombinationInv'
  OBVIOUS
<1>1. CASE UNCHANGED vars
  <2>1. UNCHANGED <<job, at, body, applied, trial, evidence>>
    BY <1>1 DEF vars, loopVars, trialVars
  <2>2. NoContradiction' /\ NoneTaken'
    BY <2>1 DEF CombinationInv, NoContradiction, NoneTaken
  <2>3. \A f : Constrained(f)' = Constrained(f)
    BY <2>1 DEF Constrained, gate
  <2>4. OnceEach'
    BY <2>1, <2>3 DEF CombinationInv, OnceEach
  <2>5. \A v : Combination(With(body, trial.field, v), trial.field, FALSE)'
                = Combination(With(body, trial.field, v), trial.field, FALSE)
    BY <2>1 DEF Combination, Constrained, gate, With
  <2>6. LeftAreNew'
    BY <2>1, <2>5 DEF CombinationInv, LeftAreNew, Trying
  <2>7. QED
    BY <2>2, <2>4, <2>6 DEF CombinationInv
<1>2. CASE NextTarget
  BY <1>2, NextTargetKeeps
<1>3. CASE TryValue
  BY <1>3, TryValueKeeps
<1>4. CASE ~UNCHANGED vars /\ ~Combines
  <2>1. Elsewhere
    BY <1>4, ElsewhereStep
  <2>2. at # "done"
    <3>1. CASE Attempt \/ Resume \/ Exhausted \/ Ends
      BY <3>1 DEF Attempt, Resume, Exhausted, Ends
    <3>2. CASE NextChoice \/ ReadCollection \/ Adjust \/ Unclassified
      BY <3>2 DEF NextChoice, ReadCollection, Adjust, Unclassified, Classifying
    <3>3. CASE Widen \/ Widened
      BY <3>3 DEF Widen, Widened
    <3>4. CASE BeginSegments \/ SegmentsTried
      BY <3>4 DEF BeginSegments, SegmentsTried
    <3>5. CASE TrySegment
      <4>1. at = "segments"
        BY <3>5, Zenon DEF TrySegment
      <4>2. QED
        BY <4>1
    <3>6. CASE TargetTried \/ CycleEnds \/ BeginSearch
      BY <3>6 DEF TargetTried, CycleEnds, BeginSearch
    <3>7. CASE AddCandidate
      <4>1. at = "search"
        BY <3>7, Zenon DEF AddCandidate
      <4>2. QED
        BY <4>1
    <3>8. CASE WidenCandidate
      <4>1. at = "wider"
        BY <3>8, Zenon DEF WidenCandidate
      <4>2. QED
        BY <4>1
    <3>9. CASE SearchEnds
      BY <3>9 DEF SearchEnds
    <3>10. QED
      BY <1>4, <3>1, <3>2, <3>3, <3>4, <3>5, <3>6, <3>7, <3>8, <3>9
      DEF Next, Combines, Finished
  <2>3. QED
    BY <2>1, <2>2, ElsewhereKeeps
<1>5. QED
  BY <1>1, <1>2, <1>3, <1>4 DEF Combines

\* No combination of a gate's value and a sibling's is recorded both ways
\* (cycle.go:72-97), whatever the API answers and in whatever order.
THEOREM CombinationsAgree == Spec => []NoContradiction
<1>1. Init => TypeOK /\ CombinationInv
  BY TypeInit, CombinationInit
<1>2. TypeOK /\ CombinationInv /\ [Next]_vars => TypeOK' /\ CombinationInv'
  BY TypeStep, CombinationStep
<1>3. CombinationInv => NoContradiction
  BY DEF CombinationInv
<1>4. QED
  BY <1>1, <1>2, <1>3, PTL DEF Spec

-----------------------------------------------------------------------------
(***************************************************************************)
(* That every step comes to an end: what is left to do has a rank, which   *)
(* each step takes down an order in which nothing goes down for ever.      *)
(***************************************************************************)
\* How far a step still has to go: passes of the loop, where in a pass it is,
\* and what is left there: fields not yet widened or cycled, values not tried,
\* candidates not added.  Each is settled before the one above it moves on.
Stage ==
  CASE at = "answer"              -> 7
    [] at = "widen"               -> 6
    [] at = "segments"            -> 5
    [] at = "cycle"               -> 4
    [] at = "loop"                -> 3
    [] at = "fields"              -> 2
    [] at \in {"search", "wider"} -> 1
    [] OTHER                      -> 0
Unmarked(m) == {f \in Fields : <<m, f>> \notin applied}
Turns ==
  CASE at = "answer"              -> IF lent = "unread" THEN 1 ELSE 0
    [] at = "widen"               -> Cardinality(Unmarked("w"))
    [] at = "segments"            -> IF Trying THEN 0 ELSE 1
    [] at = "cycle"               -> Cardinality(Unmarked("c"))
    [] at \in {"search", "wider"} -> Allowance + 1 - search.n
    [] OTHER                      -> 0
HalfTurn ==
  CASE at = "cycle"  -> IF Trying THEN 1 ELSE 0
    [] at = "search" -> 1
    [] OTHER         -> 0
Left == Cardinality(trial.left)
Rank == <<Limit - i, Stage, Turns, HalfTurn, Left>>

Ranks   == [1 .. 5 -> Nat]
Descent == LexProductOrdering(OpToRel(<, Nat), Nat, 5)
Descends == <<Rank', Rank>> \in Descent

\* The additive search never steps past the end of what it may try.
SearchBounded ==
  /\ at \notin {"search", "wider", "done"} => search.n = 1
  /\ at = "search" => search.n <= Allowance + 1
  /\ at = "wider" => search.n < Allowance

\* The first place where two ranks differ tells which is the lower.
LEMMA LowerIsDescent ==
  ASSUME NEW r \in Ranks, NEW s \in Ranks,
         \/ r[1] < s[1]
         \/ r[1] = s[1] /\ r[2] < s[2]
         \/ r[1] = s[1] /\ r[2] = s[2] /\ r[3] < s[3]
         \/ r[1] = s[1] /\ r[2] = s[2] /\ r[3] = s[3] /\ r[4] < s[4]
         \/ r[1] = s[1] /\ r[2] = s[2] /\ r[3] = s[3] /\ r[4] = s[4] /\ r[5] < s[5]
  PROVE  <<r, s>> \in Descent
<1> DEFINE Differ(j) == (\A k \in 1 .. (j - 1) : r[k] = s[k]) /\ r[j] < s[j]
<1>1. \E j \in 1 .. 5 : Differ(j)
  <2>1. (r[1] < s[1]) => Differ(1)
    OBVIOUS
  <2>2. (r[1] = s[1] /\ r[2] < s[2]) => Differ(2)
    OBVIOUS
  <2>3. (r[1] = s[1] /\ r[2] = s[2] /\ r[3] < s[3]) => Differ(3)
    OBVIOUS
  <2>4. (r[1] = s[1] /\ r[2] = s[2] /\ r[3] = s[3] /\ r[4] < s[4]) => Differ(4)
    OBVIOUS
  <2>5. (r[1] = s[1] /\ r[2] = s[2] /\ r[3] = s[3] /\ r[4] = s[4] /\ r[5] < s[5]) => Differ(5)
    OBVIOUS
  <2> HIDE DEF Differ
  <2> QED
    BY <2>1, <2>2, <2>3, <2>4, <2>5
<1>2. PICK j \in 1 .. 5 : Differ(j)
  BY <1>1
<1>3. <<r[j], s[j]>> \in OpToRel(<, Nat)
  BY <1>2 DEF OpToRel, Ranks
<1> QED
  BY <1>2, <1>3 DEF Descent, LexProductOrdering, Ranks

\* There is no going down for ever.
LEMMA DescentEnds == IsWellFoundedOn(Descent, Ranks)
<1>1. IsWellFoundedOn(OpToRel(<, Nat), Nat)
  BY NatLessThanWellFounded
<1> QED
  BY <1>1, WFLexProductOrdering DEF Descent, Ranks

LEMMA FiniteValues == IsFiniteSet(Values)
<1>1. IsFiniteSet({Absent, "plain", "moved", "wide", "lent"})
  <2>1. IsFiniteSet({Absent}) /\ IsFiniteSet({"plain"}) /\ IsFiniteSet({"moved"}) /\ IsFiniteSet({"wide"})
        /\ IsFiniteSet({"lent"})
    BY FS_Singleton
  <2>2. IsFiniteSet({Absent} \cup {"plain"} \cup {"moved"} \cup {"wide"} \cup {"lent"})
    BY <2>1, FS_Union
  <2> QED
    BY <2>2
<1>2. IsFiniteSet(Members) /\ IsFiniteSet(Segments)
  BY CorrectionAssumption
<1> QED
  BY <1>1, <1>2, FS_Union DEF Values

\* What a mark, or a value tried, leaves to be done is one less.
LEMMA OneLess ==
  ASSUME NEW S, IsFiniteSet(S), NEW x \in S
  PROVE  Cardinality(S \ {x}) < Cardinality(S) /\ Cardinality(S) \in Nat /\ Cardinality(S \ {x}) \in Nat
<1>1. IsFiniteSet(S \ {x}) /\ Cardinality(S \ {x}) = Cardinality(S) - 1
  BY FS_RemoveElement
<1>2. Cardinality(S) \in Nat /\ Cardinality(S \ {x}) \in Nat
  BY <1>1, FS_CardinalityType
<1> QED
  BY <1>1, <1>2

LEMMA RankType == TypeOK /\ SearchBounded => Rank \in Ranks
<1> SUFFICES ASSUME TypeOK, SearchBounded PROVE Rank \in Ranks
  OBVIOUS
<1>1. Limit - i \in Nat
  BY Limits DEF TypeOK
<1>2. Stage \in Nat
  BY DEF Stage
<1>3. \A m : Cardinality(Unmarked(m)) \in Nat
  BY CorrectionAssumption, FS_Subset, FS_CardinalityType DEF Unmarked
<1>4. Allowance \in Nat /\ search.n \in Nat
  BY CorrectionAssumption DEF TypeOK, Allowance
<1>5. Turns \in Nat
  BY <1>3, <1>4 DEF Turns, SearchBounded
<1>6. HalfTurn \in Nat
  BY DEF HalfTurn
<1>7. Left \in Nat
  BY FiniteValues, FS_Subset, FS_CardinalityType DEF Left, TypeOK
<1> HIDE DEF Stage, Turns, HalfTurn, Left
<1> QED
  BY <1>1, <1>2, <1>5, <1>6, <1>7 DEF Rank, Ranks

\* Which of the five falls, with the ones above it where they were.
Falls ==
  \/ Limit' - i' < Limit - i
  \/ Limit' - i' = Limit - i /\ Stage' < Stage
  \/ Limit' - i' = Limit - i /\ Stage' = Stage /\ Turns' < Turns
  \/ Limit' - i' = Limit - i /\ Stage' = Stage /\ Turns' = Turns /\ HalfTurn' < HalfTurn
  \/ Limit' - i' = Limit - i /\ Stage' = Stage /\ Turns' = Turns /\ HalfTurn' = HalfTurn /\ Left' < Left

LEMMA FallIsDescent ==
  ASSUME Rank \in Ranks, Rank' \in Ranks, Falls
  PROVE  <<Rank', Rank>> \in Descent
<1>1. /\ Rank[1] = Limit - i /\ Rank[2] = Stage /\ Rank[3] = Turns /\ Rank[4] = HalfTurn /\ Rank[5] = Left
      /\ Rank'[1] = Limit' - i' /\ Rank'[2] = Stage' /\ Rank'[3] = Turns' /\ Rank'[4] = HalfTurn'
      /\ Rank'[5] = Left'
  BY DEF Rank
<1> QED
  BY <1>1, LowerIsDescent DEF Falls

\* Nothing but the search moves the search.
LEMMA SearchBoundedStep == TypeOK /\ SearchBounded /\ [Next]_vars => SearchBounded'
<1> SUFFICES ASSUME TypeOK, SearchBounded, [Next]_vars PROVE SearchBounded'
  OBVIOUS
<1>0. SearchLimit \in Nat /\ Len(search.fields) \in Nat /\ search.n \in Nat \ {0} /\ Allowance \in Nat
  BY CorrectionAssumption DEF TypeOK, Allowance
<1>1. CASE UNCHANGED <<at, search>>
  BY <1>1 DEF SearchBounded, Allowance
<1>2. CASE at' = "done"
  BY <1>2 DEF SearchBounded
<1>3. CASE UNCHANGED search /\ at \notin {"search", "wider", "done"} /\ at' \notin {"search", "wider"}
  BY <1>3 DEF SearchBounded
<1>4. CASE BeginSearch
  <2>1. PICK q \in Orders : search' = [search EXCEPT !.fields = q]
    BY <1>4 DEF BeginSearch
  <2>2. search.n = 1 /\ search'.n = 1 /\ at' = "search"
    BY <2>1, <1>4, <1>0 DEF BeginSearch, SearchBounded, Goes, TypeOK
  <2>3. search'.fields \in Seq(Fields)
    BY TypeStep DEF TypeOK
  <2>4. Allowance' \in Nat
    BY <2>3, <1>0, CorrectionAssumption DEF Allowance
  <2>5. \A x \in Nat : 1 <= x + 1
    OBVIOUS
  <2>6. search'.n <= Allowance' + 1
    BY <2>2, <2>4, <2>5, Zenon
  <2> QED
    BY <2>2, <2>6 DEF SearchBounded
<1>5. CASE AddCandidate
  <2>1. PICK a \in Answers :
          LET f     == search.fields[search.n]
              wider == With(body, f, "plain")
              again == Objects(a, f) /\ WorthWidening(f)
          IN /\ search' = [search EXCEPT !.tried = @ + 1, !.n = IF again THEN @ ELSE @ + 1]
             /\ at' = "search" => ~again
             /\ at' = "wider" => again
             /\ at' \in {"search", "wider", "done"}
    BY <1>5 DEF AddCandidate, SearchGoes, Goes, Taken, Objects
  <2>2. Allowance' = Allowance
    BY <2>1 DEF Allowance, TypeOK
  <2>3. search.n <= Allowance
    BY <1>5 DEF AddCandidate
  <2> QED
    BY <2>1, <2>2, <2>3, <1>0 DEF SearchBounded, WorthWidening, TypeOK
<1>6. CASE WidenCandidate
  <2>1. at = "wider" /\ search' = [search EXCEPT !.n = @ + 2] /\ at' \in {"search", "done"}
    BY <1>6 DEF WidenCandidate, SearchGoes, Goes, Taken
  <2>2. Allowance' = Allowance /\ search'.n = search.n + 2
    BY <2>1 DEF Allowance, TypeOK
  <2> QED
    BY <2>1, <2>2, <1>0 DEF SearchBounded
<1>7. CASE [Next]_vars /\ ~BeginSearch /\ ~AddCandidate /\ ~WidenCandidate
  <2> USE DEF trialVars
  <2>1. CASE Attempt \/ Resume \/ Exhausted \/ Ends
    BY <2>1, <1>1, <1>2, <1>3
    DEF Attempt, Resume, Exhausted, Ends, Goes, Unresolved, Fails, TakenByLoop, Taken
  <2>2. CASE NextChoice \/ ReadCollection \/ Adjust \/ Unclassified
    BY <2>2, <1>1, <1>2, <1>3 DEF NextChoice, ReadCollection, Adjust, Unclassified, Goes, Classifying
  <2>3. CASE Widen
    BY <2>3, <1>1, <1>2, <1>3 DEF Widen, TrialFails, Fails, TrialTaken, TakenByLoop, Taken, MovedOn, TrialGoes
  <2>4. CASE Widened \/ BeginSegments \/ SegmentsTried
    BY <2>4, <1>1, <1>2, <1>3 DEF Widened, BeginSegments, SegmentsTried, Goes
  <2>5. CASE TrySegment
    BY <2>5, <1>1, <1>2, <1>3 DEF TrySegment, TrialFails, Fails, TrialTaken, TakenByLoop, Taken, MovedOn, TrialGoes
  <2>6. CASE NextTarget \/ TargetTried \/ CycleEnds
    BY <2>6, <1>1, <1>2, <1>3 DEF NextTarget, TargetTried, CycleEnds, Unresolved
  <2>7. CASE TryValue
    BY <2>7, <1>1, <1>2, <1>3
    DEF TryValue, TryAnyValue, TrialFails, Fails, TrialTaken, TakenByLoop, Taken, TrialGoes
  <2>8. CASE SearchEnds \/ Finished \/ UNCHANGED vars
    BY <2>8, <1>1, <1>2 DEF SearchEnds, Goes, Finished, vars
  <2> QED
    BY <2>1, <2>2, <2>3, <2>4, <2>5, <2>6, <2>7, <2>8, <1>7 DEF Next
<1> QED
  BY <1>4, <1>5, <1>6, <1>7

\* A pass of the loop apart, a step goes to a later stage or stays in its own.
SamePass == UNCHANGED <<job, i>>

LEMMA LaterStage ==
  ASSUME TypeOK, SamePass, Stage' < Stage
  PROVE  Falls
  BY Limits DEF Falls, SamePass, TypeOK

LEMMA FewerUnmarked ==
  ASSUME NEW m, NEW f \in Fields, <<m, f>> \notin applied, applied' = applied \cup {<<m, f>>}
  PROVE  Cardinality(Unmarked(m)') < Cardinality(Unmarked(m))
<1>1. Unmarked(m)' = Unmarked(m) \ {f} /\ f \in Unmarked(m)
  BY DEF Unmarked
<1>2. IsFiniteSet(Unmarked(m))
  BY CorrectionAssumption, FS_Subset DEF Unmarked
<1> QED
  BY <1>1, <1>2, OneLess

LEMMA FewerLeft ==
  ASSUME TypeOK, NEW v \in trial.left, trial'.left \subseteq trial.left \ {v}
  PROVE  Left' < Left
<1>1. IsFiniteSet(trial.left)
  BY FiniteValues, FS_Subset DEF TypeOK
<1>2. Cardinality(trial.left \ {v}) < Cardinality(trial.left) /\ IsFiniteSet(trial.left \ {v})
      /\ Cardinality(trial.left) \in Nat /\ Cardinality(trial.left \ {v}) \in Nat
  BY <1>1, OneLess, FS_Subset
<1>3. Cardinality(trial'.left) <= Cardinality(trial.left \ {v}) /\ Cardinality(trial'.left) \in Nat
  <2>1. IsFiniteSet(trial'.left) /\ Cardinality(trial'.left) <= Cardinality(trial.left \ {v})
    BY <1>2, FS_Subset
  <2> QED
    BY <2>1, FS_CardinalityType
<1> QED
  BY <1>2, <1>3 DEF Left

LEMMA FallStep ==
  ASSUME TypeOK, TypeOK', SearchBounded, SearchBounded', Next, vars' # vars
  PROVE  Falls
<1> USE DEF trialVars, loopVars
<1>0. Limit \in Nat /\ i \in 0 .. Limit /\ (job' = job => Limit' = Limit)
  BY Limits DEF TypeOK
<1>1. CASE Attempt \/ Resume
  BY <1>1, <1>0 DEF Attempt, Resume, Falls
<1>2. CASE Exhausted
  <2>1. SamePass /\ at = "loop" /\ at' \in {"done", "fields"}
    BY <1>2 DEF Exhausted, Goes, Unresolved, SamePass
  <2> QED
    BY <2>1, LaterStage DEF Stage
<1>3. CASE Ends
  <2>1. SamePass /\ at = "answer" /\ at' \in {"done", "fields"}
    BY <1>3 DEF Ends, Fails, Unresolved, TakenByLoop, Taken, SamePass
  <2> QED
    BY <2>1, LaterStage DEF Stage
<1>4. CASE NextChoice \/ Adjust \/ Unclassified
  BY <1>4, LaterStage DEF NextChoice, Adjust, Unclassified, Classifying, Goes, SamePass, Stage
<1>5. CASE ReadCollection
  BY <1>5, <1>0 DEF ReadCollection, Classifying, Falls, Stage, Turns
<1>6. CASE Widen
  <2>1. PICK f \in Narrow, a \in Answers :
          /\ applied' = applied \cup {<<"w", f>>}
          /\ at' \in {"done", "loop", "widen", "segments"}
    BY <1>6 DEF Widen, TrialFails, Fails, TrialTaken, TakenByLoop, Taken, MovedOn, TrialGoes
  <2>2. f \in Fields /\ <<"w", f>> \notin applied
    BY CorrectionAssumption DEF Narrow
  <2>3. SamePass /\ at = "widen"
    BY <1>6 DEF Widen, SamePass
  <2>4. CASE at' = "widen"
    <3>1. Turns' < Turns
      BY <2>1, <2>2, <2>3, <2>4, FewerUnmarked DEF Turns
    <3> QED
      BY <3>1, <2>3, <2>4, <1>0 DEF Falls, Stage, SamePass
  <2>5. CASE at' # "widen"
    BY <2>1, <2>3, <2>5, LaterStage DEF Stage
  <2> QED
    BY <2>4, <2>5
<1>7. CASE Widened \/ SegmentsTried
  BY <1>7, LaterStage DEF Widened, SegmentsTried, Goes, SamePass, Stage
<1>8. CASE BeginSegments
  <2>1. CASE SegmentField = NoField
    BY <2>1, <1>8, LaterStage DEF BeginSegments, Goes, SamePass, Stage
  <2>2. CASE SegmentField # NoField
    BY <2>2, <1>8, <1>0 DEF BeginSegments, Goes, Falls, Stage, Turns, Trying
  <2> QED
    BY <2>1, <2>2
<1>9. CASE TrySegment
  <2> DEFINE tried(v)    == With(body, trial.field, v)
             moved(v, a) == Refused(a) /\ Quoted(a, tried(v)) # trial.field
  <2>0. PICK v \in trial.left, a \in Answers :
          /\ trial' = IF a.kind = "created" \/ moved(v, a) THEN NoTrial
                      ELSE IF Refused(a) THEN [trial EXCEPT !.left = @ \ {v}]
                      ELSE [trial EXCEPT !.left = {}]
          /\ CASE a.kind = "unseen" -> TrialFails
               [] a.kind = "created" -> TrialTaken(tried(v), SegmentFacts(v))
               [] moved(v, a) -> MovedOn(tried(v), a, SegmentFacts(v))
               [] OTHER -> TrialGoes("segments", {})
    BY <1>9, Zenon DEF TrySegment
  <2>5. a.kind \in {"unseen", "created"} => ~moved(v, a)
    BY DEF Refused
  <2> HIDE DEF tried, moved
  <2>1. /\ at' \in {"done", "loop", "segments"}
        /\ at' = "segments" => trial' \in {[trial EXCEPT !.left = @ \ {v}], [trial EXCEPT !.left = {}]}
    <3>1. CASE a.kind = "unseen"
      BY <2>0, <2>5, <3>1 DEF TrialFails, Fails
    <3>2. CASE a.kind = "created"
      BY <2>0, <2>5, <3>2 DEF TrialTaken, TakenByLoop, Taken
    <3>3. CASE a.kind \notin {"unseen", "created"} /\ moved(v, a)
      BY <2>0, <3>3 DEF MovedOn
    <3>4. CASE a.kind \notin {"unseen", "created"} /\ ~moved(v, a)
      <4>1. TrialGoes("segments", {})
        BY <2>0, <3>4
      <4>2. trial' = IF Refused(a) THEN [trial EXCEPT !.left = @ \ {v}] ELSE [trial EXCEPT !.left = {}]
        BY <2>0, <3>4
      <4> QED
        BY <4>1, <4>2 DEF TrialGoes
    <3> QED
      BY <3>1, <3>2, <3>3, <3>4
  <2>2. SamePass /\ at = "segments" /\ Trying
    BY <1>9 DEF TrySegment, SamePass
  <2>3. CASE at' = "segments"
    <3>1. trial'.left \subseteq trial.left \ {v} /\ trial'.field = trial.field
      BY <2>1, <2>3 DEF TypeOK
    <3>2. Left' < Left
      BY <3>1, FewerLeft
    <3> QED
      BY <3>1, <3>2, <2>2, <2>3, <1>0 DEF Falls, Stage, Turns, HalfTurn, Trying, SamePass
  <2>4. CASE at' # "segments"
    BY <2>1, <2>2, <2>4, LaterStage DEF Stage
  <2> QED
    BY <2>3, <2>4
<1>10. CASE NextTarget
  <2>1. PICK f \in Untried : applied' = applied \cup {<<"c", f>>}
    BY <1>10 DEF NextTarget
  <2>2. f \in Fields /\ <<"c", f>> \notin applied
    BY <2>1, CorrectionAssumption DEF Untried, Targets
  <2>3. SamePass /\ at = "cycle" /\ at' = "cycle"
    BY <1>10 DEF NextTarget, SamePass
  <2>4. Turns' < Turns
    BY <2>1, <2>2, <2>3, FewerUnmarked DEF Turns
  <2> QED
    BY <2>3, <2>4, <1>0 DEF Falls, Stage, SamePass
<1>11. CASE TryValue
  <2> DEFINE tried(v)   == With(body, trial.field, v)
             fact(v, a) == Combination(tried(v), trial.field, a.kind = "created")
  <2>0. PICK v \in trial.left, a \in Answers :
          /\ trial' = IF a.kind = "created" THEN NoTrial
                      ELSE IF Refused(a) THEN [trial EXCEPT !.left = @ \ {v}]
                      ELSE [trial EXCEPT !.left = {}]
          /\ CASE a.kind = "unseen" -> TrialFails
               [] a.kind = "created" -> TrialTaken(tried(v), fact(v, a))
               [] OTHER -> TrialGoes("cycle", fact(v, a))
    BY <1>11, Zenon DEF TryValue, TryAnyValue
  <2> HIDE DEF tried, fact
  <2>1. /\ at' \in {"done", "cycle"}
        /\ at' = "cycle" => trial' \in {[trial EXCEPT !.left = @ \ {v}], [trial EXCEPT !.left = {}]}
    <3>1. CASE a.kind = "unseen"
      BY <2>0, <3>1 DEF TrialFails, Fails
    <3>2. CASE a.kind = "created"
      BY <2>0, <3>2 DEF TrialTaken, TakenByLoop, Taken
    <3>3. CASE a.kind \notin {"unseen", "created"}
      <4>1. TrialGoes("cycle", fact(v, a))
        BY <2>0, <3>3
      <4>2. trial' = IF Refused(a) THEN [trial EXCEPT !.left = @ \ {v}] ELSE [trial EXCEPT !.left = {}]
        BY <2>0, <3>3
      <4> QED
        BY <4>1, <4>2 DEF TrialGoes
    <3> QED
      BY <3>1, <3>2, <3>3
  <2>2. SamePass /\ at = "cycle" /\ Trying /\ applied' = applied
    BY <1>11 DEF TryValue, TryAnyValue, SamePass
  <2>3. CASE at' = "cycle"
    <3>1. trial'.left \subseteq trial.left \ {v} /\ trial'.field = trial.field
      BY <2>1, <2>3 DEF TypeOK
    <3>2. Left' < Left
      BY <3>1, FewerLeft
    <3>3. Unmarked("c")' = Unmarked("c")
      BY <2>2 DEF Unmarked
    <3> QED
      BY <3>1, <3>2, <3>3, <2>2, <2>3, <1>0 DEF Falls, Stage, Turns, HalfTurn, Trying, SamePass
  <2>4. CASE at' # "cycle"
    BY <2>1, <2>2, <2>4, LaterStage DEF Stage
  <2> QED
    BY <2>3, <2>4
<1>12. CASE TargetTried
  <2>1. SamePass /\ at = "cycle" /\ at' = "cycle" /\ Trying /\ ~Trying' /\ applied' = applied
    BY <1>12 DEF TargetTried, SamePass, Trying, NoTrial
  <2>2. Unmarked("c")' = Unmarked("c")
    BY <2>1 DEF Unmarked
  <2> QED
    BY <2>1, <2>2, <1>0 DEF Falls, Stage, Turns, HalfTurn, SamePass
<1>13. CASE CycleEnds
  BY <1>13, LaterStage DEF CycleEnds, Unresolved, SamePass, Stage
<1>14. CASE BeginSearch \/ SearchEnds
  BY <1>14, LaterStage DEF BeginSearch, SearchEnds, Goes, SamePass, Stage
<1>15. CASE AddCandidate \/ WidenCandidate
  <2>0. /\ SearchLimit \in Nat /\ Len(search.fields) \in Nat /\ search.n \in Nat \ {0}
        /\ Allowance \in Nat
    BY CorrectionAssumption DEF TypeOK, Allowance
  <2>1. SamePass /\ at \in {"search", "wider"} /\ at' \in {"search", "wider", "done"}
    BY <1>15 DEF AddCandidate, WidenCandidate, SearchGoes, Goes, Taken, SamePass
  <2>2. CASE at' = "done"
    BY <2>1, <2>2, LaterStage DEF Stage
  <2>3. CASE at' # "done"
    <3>1. /\ search'.fields = search.fields /\ search'.n \in Nat
          /\ \/ search'.n > search.n
             \/ search'.n = search.n /\ at = "search" /\ at' = "wider"
      <4>1. CASE WidenCandidate
        <5>1. search' = [search EXCEPT !.n = @ + 2]
          BY <4>1 DEF WidenCandidate
        <5> QED
          BY <5>1, <2>0 DEF TypeOK
      <4>2. CASE AddCandidate
        <5>1. PICK a \in Answers :
                LET f     == search.fields[search.n]
                    wider == With(body, f, "plain")
                    again == Objects(a, f) /\ WorthWidening(f)
                IN /\ search' = [search EXCEPT !.tried = @ + 1, !.n = IF again THEN @ ELSE @ + 1]
                   /\ at' = "search" => ~again
                   /\ at' = "wider" => again
                   /\ at = "search"
          BY <4>2 DEF AddCandidate, SearchGoes, Goes, Taken, Objects
        <5>2. \/ search'.n = search.n + 1 /\ search'.fields = search.fields
              \/ search'.n = search.n /\ search'.fields = search.fields /\ at' = "wider"
          BY <5>1, <2>1, <2>3 DEF TypeOK
        <5> QED
          BY <5>1, <5>2, <2>0
      <4> QED
        BY <4>1, <4>2, <1>15
    <3>2. Allowance' = Allowance
      BY <3>1 DEF Allowance
    <3> QED
      BY <2>0, <2>1, <2>3, <3>1, <3>2, <1>0 DEF Falls, Stage, Turns, HalfTurn, SamePass
  <2> QED
    BY <2>1, <2>2, <2>3
<1>16. CASE Finished
  BY <1>16 DEF Finished
<1> QED
  BY <1>1, <1>2, <1>3, <1>4, <1>5, <1>6, <1>7, <1>8, <1>9, <1>10, <1>11, <1>12, <1>13, <1>14, <1>15, <1>16 DEF Next

\* Every step of correcting a body brings it nearer its end, whatever the
\* fields, the bounds and the answers: each takes a rank down an order in
\* which nothing goes down for ever (correctBody's attempts, the marks of
\* what was tried, the values and candidates left).
THEOREM CorrectionEnds ==
  /\ IsWellFoundedOn(Descent, Ranks)
  /\ Spec => [][Descends]_vars
<1>1. Init => SearchBounded
  BY DEF Init, SearchBounded
<1>2. TypeOK /\ SearchBounded /\ [Next]_vars => (TypeOK /\ SearchBounded)'
  BY TypeStep, SearchBoundedStep
<1>3. TypeOK /\ SearchBounded /\ [Next]_vars => [Descends]_vars
  <2> SUFFICES ASSUME TypeOK, SearchBounded, Next, vars' # vars
               PROVE  Descends
    OBVIOUS
  <2>1. TypeOK' /\ SearchBounded'
    BY <1>2
  <2>2. Rank \in Ranks /\ Rank' \in Ranks
    <3>1. (TypeOK /\ SearchBounded => Rank \in Ranks)'
      BY RankType, PTL
    <3> QED
      BY <2>1, <3>1, RankType
  <2>3. Falls
    BY <2>1, FallStep
  <2> QED
    BY <2>2, <2>3, FallIsDescent DEF Descends
<1>4. Spec => [][Descends]_vars
  BY <1>1, <1>2, <1>3, TypeInit, PTL DEF Spec
<1> QED
  BY <1>4, DescentEnds
=============================================================================
