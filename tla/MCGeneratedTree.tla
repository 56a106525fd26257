-------------------------- MODULE MCGeneratedTree --------------------------
(***************************************************************************)
(* Three documents: d1 needs two SDK files and a service, d2 renames the   *)
(* service and drops an SDK file, d3 would write a file a person owns.     *)
(***************************************************************************)
EXTENDS GeneratedTree

CONSTANTS d1, d2, d3, s1, s2, mod, sum, p1, p2, owned

MCDocs     == {d1, d2, d3}
MCSdkOf    == [d \in MCDocs |-> IF d = d1 THEN {s1, s2} ELSE {s1}]
MCProvider == [d \in MCDocs |-> IF d = d1 THEN {mod, p1}
                                ELSE IF d = d2 THEN {mod, p2} ELSE {mod, owned}]
MCAuthored == {owned}

AnyFault == AllFaults
=============================================================================
