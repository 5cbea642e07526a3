------------------------------ MODULE ReportLog ------------------------------
(***************************************************************************)
(* What the report store of one training session promises, without locks,  *)
(* requests or crashes: a log of numbered snapshots.  An entry is opened   *)
(* behind settled entries only, is settled once, as a readable snapshot or *)
(* as a failure, and is never touched again.  A readable snapshot is never *)
(* older than the readable snapshots before it.                            *)
(***************************************************************************)
EXTENDS Integers

CONSTANTS MaxVersion, MaxRun

VARIABLE log    \* version -> entry

Sections == {"evaluation", "coaching", "plan"}

\* A payload names, per section, the pipeline run whose artifact it shows
\* (0: the section is unavailable).
Payload == [Sections -> 0..MaxRun]
NoPayload == [s \in Sections |-> 0]

Entry == [status : {"absent", "pending", "ready", "failed"},
          payload : Payload]

Absent  == [status |-> "absent",  payload |-> NoPayload]
Pending == [status |-> "pending", payload |-> NoPayload]
Failed  == [status |-> "failed",  payload |-> NoPayload]
Ready(p) == [status |-> "ready", payload |-> p]

NotOlder(p, q) == \A s \in Sections : q[s] <= p[s]

Settled(e) == e.status \in {"ready", "failed"}

Init == log = [v \in 1..MaxVersion |-> Absent]

Open(v) ==
    /\ \A u \in 1..MaxVersion : IF u < v THEN Settled(log[u])
                                         ELSE log[u].status = "absent"
    /\ log' = [log EXCEPT ![v] = Pending]

Publish(v) ==
    /\ log[v] = Pending
    /\ \E p \in Payload :
        /\ \A u \in 1..MaxVersion :
              log[u].status = "ready" => NotOlder(p, log[u].payload)
        /\ log' = [log EXCEPT ![v] = Ready(p)]

Fail(v) ==
    /\ log[v] = Pending
    /\ log' = [log EXCEPT ![v] = Failed]

Next == \E v \in 1..MaxVersion : Open(v) \/ Publish(v) \/ Fail(v)

Spec == Init /\ [][Next]_log
=============================================================================
