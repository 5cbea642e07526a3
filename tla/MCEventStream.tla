---------------------------- MODULE MCEventStream ----------------------------
(* An administrator and an agent of the campaign; an event for the campaign *)
(* and one for an account, which only the administrator is sent.            *)
EXTENDS EventStream, TLC

CONSTANTS admin, agent

TwoTopics == {[category |-> "campaign", campaign |-> TRUE, agent |-> Nobody],
              [category |-> "user", campaign |-> FALSE, agent |-> Nobody]}

Interchangeable == Permutations(Emitters)
=============================================================================
