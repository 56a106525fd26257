--------------------------- MODULE MCDecisionGate ---------------------------
(* Two observations in groups of their own; the second is not always found, *)
(* and jobs fail only until it has been.                                    *)
EXTENDS DecisionGate, TLC

MCGroupOf == ("o1" :> "g1") @@ ("o2" :> "g2")
MCAudits  == {{"o1", "o2"}, {"o1"}}
MCFallible == {{"o1"}}

=============================================================================
