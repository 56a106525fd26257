------------------------------ MODULE Decisions -----------------------------
(***************************************************************************)
(* What the decision gate promises of an observation: it is put to a       *)
(* person, and accepted or rejected only by an answer to what was put.     *)
(***************************************************************************)
CONSTANT Observations

VARIABLES
    asked,      \* the observations ever put to a person
    answered,   \* those a person said no to
    accepted,   \* those whose corrections the specification takes
    rejected    \* those a marker keeps from being proposed

vars == <<asked, answered, accepted, rejected>>

Init == asked = {} /\ answered = {} /\ accepted = {} /\ rejected = {}

Ask ==
    /\ asked' \in {asked \cup new : new \in SUBSET Observations}
    /\ UNCHANGED <<answered, accepted, rejected>>

Merge ==
    /\ \E some \in SUBSET asked : accepted' = accepted \cup some
    /\ UNCHANGED <<asked, answered, rejected>>

Close ==
    /\ \E some \in SUBSET asked : answered' = answered \cup some
    /\ UNCHANGED <<asked, accepted, rejected>>

Record ==
    /\ \E some \in SUBSET answered : rejected' = rejected \cup some
    /\ UNCHANGED <<asked, answered, accepted>>

Next == Ask \/ Merge \/ Close \/ Record

Spec == Init /\ [][Next]_vars

=============================================================================
