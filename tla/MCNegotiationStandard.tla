----------------------- MODULE MCNegotiationStandard -----------------------
(* Three contents, one of which passes only draft validation. *)
EXTENDS NegotiationStandard
=============================================================================
