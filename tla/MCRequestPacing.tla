--------------------------- MODULE MCRequestPacing ---------------------------
(***************************************************************************)
(* A small instance of RequestPacing: ticks of half a second, and a word   *)
(* in which the seconds a header may name overflow.                        *)
(***************************************************************************)
EXTENDS RequestPacing

=============================================================================
