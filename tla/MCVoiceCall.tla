----------------------------- MODULE MCVoiceCall -----------------------------
(* The first call speaks, the second meddles with the shared connection and  *)
(* may say one thing.                                                        *)
EXTENDS VoiceCall

CONSTANTS p1, p2, Longer, Shorter

Pair == {p1, p2}
Bounds == [p \in Pair |-> IF p = p1 THEN Longer ELSE Shorter]
=============================================================================
