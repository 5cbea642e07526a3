--------------------------- MODULE MCSessionReport ---------------------------
(* Two overlapping generators, one status reader. *)
EXTENDS SessionReport
=============================================================================
