----------------------------- MODULE AtomicTree -----------------------------
(***************************************************************************)
(* What a generated tree's replacement promises: one whole tree stands for *)
(* another at a single step, and a run that fails leaves the one there     *)
(* was.  The one way to lose it: a run killed while only the parked copy   *)
(* held the tree, and another begun on what it left.                       *)
(***************************************************************************)
CONSTANTS Docs, NoDoc

VARIABLES
  value, \* The document the tree that exists was generated from.
  stage  \* "held": in its place; "exposed": only the parked copy holds it;
         \* "risk": exposed, and a new run is about to begin on it.

vars == <<value, stage>>

Stages == {"held", "exposed", "risk"}

Init == value = NoDoc /\ stage = "held"

Replace ==
  /\ stage # "risk"
  /\ value' \in Docs
  /\ stage' = "held"

Move ==
  /\ <<stage, stage'>> \in {<<"held", "exposed">>, <<"exposed", "held">>,
                           <<"exposed", "risk">>, <<"risk", "exposed">>}
  /\ UNCHANGED value

Lose ==
  /\ stage = "risk"
  /\ value' = NoDoc
  /\ stage' \in Stages

Next == Replace \/ Move \/ Lose

Spec == Init /\ [][Next]_vars
=============================================================================
