----------------------------- MODULE MCAuditRun -----------------------------
(***************************************************************************)
(* Instances of AuditRun: which entities the plan holds, and how they name *)
(* and address their objects.                                              *)
(***************************************************************************)
EXTENDS AuditRun

\* One entity, whose bodies carry the prefix.
OneParent == <<0>>
OneName   == <<"a">>

\* A parent and a child listed under it.
NestedParent == <<0, 1>>
NestedNames  == <<"a", "b">>
\* A child whose bodies carry no name.
NamelessChild == <<"a", NoName>>

=============================================================================
