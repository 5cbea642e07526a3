--------------------------- MODULE MCScriptRegistry ---------------------------
(* Requests, scripts and scenarios are each interchangeable. *)
EXTENDS ScriptRegistry, TLC

Interchangeable ==
    Permutations(Requests) \cup Permutations(Scripts) \cup Permutations(Scenarios)
=============================================================================
