---------------------------- MODULE SessionReport ----------------------------
(***************************************************************************)
(* Versioned report snapshots of one training session.                     *)
(*                                                                         *)
(* Request handlers ("generators") run generate_report concurrently: each  *)
(* allocates the next version under a row lock on the session, commits a   *)
(* PENDING marker, releases the lock, reads the artifacts one query at a   *)
(* time and settles its marker to READY or FAILED.  Handlers die, and      *)
(* commits fail.  Meanwhile the evaluation pipeline replaces the artifacts *)
(* and readers resolve the report status with two separate queries.        *)
(*                                                                         *)
(* PostgreSQL at READ COMMITTED: a statement sees what is committed when   *)
(* it runs; the row lock is held to the end of its transaction.            *)
(***************************************************************************)
EXTENDS Integers

CONSTANTS
    Generators,   \* concurrent calls of generate_report
    Readers,      \* concurrent calls of get_report_status
    NoOne,        \* nobody holds the row lock
    MaxVersion,   \* bound on report versions
    MaxRun        \* bound on pipeline runs

ASSUME BoundsAssumption == MaxVersion \in Nat /\ MaxRun \in Nat
ASSUME NoOneAssumption == NoOne \notin Generators

VARIABLES
    status,      \* Session.status, written by end_session and send_message
    artifacts,   \* the pipeline run whose three artifacts are stored, 0: none
    rows,        \* table session_reports of this session: version -> row
    lock,        \* the generator holding the session row FOR UPDATE
    gen,         \* generator -> its local state
    reader       \* reader -> its local state

vars == <<status, artifacts, rows, lock, gen, reader>>

-----------------------------------------------------------------------------
(* Rows and local states *)

Log == INSTANCE ReportLog WITH log <- rows

Versions == 1..MaxVersion
Statuses == {"active", "completed"}
Payload == Log!Payload
NoPayload == Log!NoPayload

\* A generator's place in generate_report.  "evaluation", "coaching" and
\* "plan" name the artifact query it runs next.
Assembling == {"evaluation", "coaching", "plan", "assembled"}
GenPC == {"idle", "loaded", "locked", "allocated"} \cup Assembling

GenState == [pc : GenPC, seen : Statuses, version : 0..MaxVersion+1,
             payload : Payload]
IdleGen == [pc |-> "idle", seen |-> "active", version |-> 0,
            payload |-> NoPayload]

Answers == {"none", "error", "ready", "ready_with_attempt", "generating", "failed",
            "incomplete", "missing"}
ReaderState == [pc : {"idle", "attempt", "probing"},
                ready : 0..MaxVersion, answer : Answers]

Present == {v \in Versions : rows[v].status # "absent"}
WithStatus(S) == {v \in Versions : rows[v].status \in S}

\* The largest member of a set of versions, 0 when there is none.
Latest(S) == IF S = {} THEN 0 ELSE CHOOSE v \in S : \A u \in S : u <= v

NextVersion == Latest(Present) + 1

\* get_current_report: the readable row of the highest version.
CurrentReport == Latest(WithStatus({"ready"}))

Init ==
    /\ status = "active"
    /\ artifacts = 0
    /\ rows = [v \in Versions |-> Log!Absent]
    /\ lock = NoOne
    /\ gen = [g \in Generators |-> IdleGen]
    /\ reader = [r \in Readers |->
                    [pc |-> "idle", ready |-> 0, answer |-> "none"]]

-----------------------------------------------------------------------------
(* Plausible bugs, one for each property: the runs substitute them. *)

AllocateVersion_ignoring_pending(g) ==
    /\ gen[g].pc = "locked"
    /\ gen' = [gen EXCEPT ![g].pc = "allocated", ![g].version = NextVersion]
    /\ UNCHANGED <<status, artifacts, rows, lock, reader>>

LoseSettlement_deleting_marker(g) ==
    /\ gen[g].pc \in Assembling
    /\ rows' = [rows EXCEPT ![gen[g].version] = Log!Absent]
    /\ gen' = [gen EXCEPT ![g] = IdleGen]
    /\ UNCHANGED <<status, artifacts, lock, reader>>

RejectPending_keeping_lock(g) ==
    /\ gen[g].pc = "locked"
    /\ WithStatus({"pending"}) # {}
    /\ gen' = [gen EXCEPT ![g] = IdleGen]
    /\ UNCHANGED <<status, artifacts, rows, lock, reader>>

CommitPending_holding_lock(g) ==
    /\ gen[g].pc = "allocated"
    /\ gen[g].version \in Versions
    /\ rows[gen[g].version] = Log!Absent
    /\ rows' = [rows EXCEPT ![gen[g].version] = Log!Pending]
    /\ gen' = [gen EXCEPT ![g].pc = "evaluation"]
    /\ UNCHANGED <<status, artifacts, lock, reader>>

\* The newest row decides, readable or not.
QueryReady_of_newest(r) ==
    /\ reader[r].pc = "idle"
    /\ reader' = [reader EXCEPT ![r] =
          [pc |-> "attempt", answer |-> "none",
           ready |-> IF Latest(Present) \in WithStatus({"ready"})
                     THEN Latest(Present) ELSE 0]]
    /\ UNCHANGED <<status, artifacts, rows, lock, gen>>

-----------------------------------------------------------------------------
(* generate_report *)

\* The handler loads the session.
LoadSession(g) ==
    /\ gen[g].pc = "idle"
    /\ gen' = [gen EXCEPT ![g] = [IdleGen EXCEPT !.pc = "loaded",
                                                 !.seen = status]]
    /\ UNCHANGED <<status, artifacts, rows, lock, reader>>

\* SessionNotCompletedError, judged on the status loaded before.
RejectNotCompleted(g) ==
    /\ gen[g].pc = "loaded"
    /\ gen[g].seen # "completed"
    /\ gen' = [gen EXCEPT ![g] = IdleGen]
    /\ UNCHANGED <<status, artifacts, rows, lock, reader>>

LockSession(g) ==
    /\ gen[g].pc = "loaded"
    /\ gen[g].seen = "completed"
    /\ lock = NoOne
    /\ lock' = g
    /\ gen' = [gen EXCEPT ![g].pc = "locked"]
    /\ UNCHANGED <<status, artifacts, rows, reader>>

\* Another attempt is pending: roll back, which releases the lock, and
\* answer 409.
RejectPending(g) ==
    /\ gen[g].pc = "locked"
    /\ WithStatus({"pending"}) # {}
    /\ lock' = NoOne
    /\ gen' = [gen EXCEPT ![g] = IdleGen]
    /\ UNCHANGED <<status, artifacts, rows, reader>>

AllocateVersion(g) ==
    /\ gen[g].pc = "locked"
    /\ WithStatus({"pending"}) = {}
    /\ gen' = [gen EXCEPT ![g].pc = "allocated", ![g].version = NextVersion]
    /\ UNCHANGED <<status, artifacts, rows, lock, reader>>

\* The marker becomes visible and the lock is released before any artifact
\* is read.  Bound: versions past MaxVersion are never inserted.
CommitPending(g) ==
    /\ gen[g].pc = "allocated"
    /\ gen[g].version \in Versions
    /\ rows[gen[g].version] = Log!Absent
    /\ rows' = [rows EXCEPT ![gen[g].version] = Log!Pending]
    /\ lock' = NoOne
    /\ gen' = [gen EXCEPT ![g].pc = "evaluation"]
    /\ UNCHANGED <<status, artifacts, reader>>

\* The insert or its commit is refused (unique key, serialization, lost
\* connection): roll back, nothing stays, answer 409.
LoseAllocation(g) ==
    /\ gen[g].pc = "allocated"
    /\ lock' = NoOne
    /\ gen' = [gen EXCEPT ![g] = IdleGen]
    /\ UNCHANGED <<status, artifacts, rows, reader>>

AfterQuery(section) ==
    CASE section = "evaluation" -> "coaching"
      [] section = "coaching" -> "plan"
      [] section = "plan" -> "assembled"

\* One artifact query of the assembler; each sees what is stored just then.
ReadArtifact(g) ==
    /\ gen[g].pc \in Log!Sections
    /\ gen' = [gen EXCEPT ![g].pc = AfterQuery(gen[g].pc),
                          ![g].payload[gen[g].pc] = artifacts]
    /\ UNCHANGED <<status, artifacts, rows, lock, reader>>

CommitReady(g) ==
    /\ gen[g].pc = "assembled"
    /\ rows' = [rows EXCEPT ![gen[g].version] = Log!Ready(gen[g].payload)]
    /\ gen' = [gen EXCEPT ![g] = IdleGen]
    /\ UNCHANGED <<status, artifacts, lock, reader>>

\* A query failed or the sections do not fit together.
CommitFailed(g) ==
    /\ gen[g].pc \in Assembling
    /\ rows' = [rows EXCEPT ![gen[g].version] = Log!Failed]
    /\ gen' = [gen EXCEPT ![g] = IdleGen]
    /\ UNCHANGED <<status, artifacts, lock, reader>>

\* The commit that settles the row is refused: roll back and answer 409; the
\* marker stays.
LoseSettlement(g) ==
    /\ gen[g].pc \in Assembling
    /\ gen' = [gen EXCEPT ![g] = IdleGen]
    /\ UNCHANGED <<status, artifacts, rows, lock, reader>>

\* The process dies or the request is cancelled: the open transaction, and
\* the lock with it, is gone.
Crash(g) ==
    /\ gen[g].pc # "idle"
    /\ lock' = IF lock = g THEN NoOne ELSE lock
    /\ gen' = [gen EXCEPT ![g] = IdleGen]
    /\ UNCHANGED <<status, artifacts, rows, reader>>

-----------------------------------------------------------------------------
(* get_report_status *)

QueryReady(r) ==
    /\ reader[r].pc = "idle"
    /\ reader' = [reader EXCEPT ![r] = [pc |-> "attempt",
                                        ready |-> CurrentReport,
                                        answer |-> "none"]]
    /\ UNCHANGED <<status, artifacts, rows, lock, gen>>

\* The second query.  Beside a readable row, the validator of the envelope
\* admits a later attempt that failed, and raises for one that is pending.
\* Without a readable row the newest attempt decides, and without either the
\* artifacts are probed.
QueryAttempt(r) ==
    LET attempt == Latest(WithStatus({"pending", "failed"}))
        ready == reader[r].ready
        Answer(a) == reader' = [reader EXCEPT ![r].pc = "idle", ![r].answer = a]
    IN  /\ reader[r].pc = "attempt"
        /\ \/ /\ ready > 0 /\ attempt > ready
              /\ Answer(IF rows[attempt].status = "pending"
                        THEN "error" ELSE "ready_with_attempt")
           \/ ready > 0 /\ attempt <= ready /\ Answer("ready")
           \/ /\ ready = 0 /\ attempt > 0
              /\ Answer(IF rows[attempt].status = "pending"
                        THEN "generating" ELSE "failed")
           \/ /\ ready = 0 /\ attempt = 0
              /\ reader' = [reader EXCEPT ![r].pc = "probing"]
        /\ UNCHANGED <<status, artifacts, rows, lock, gen>>

ProbeArtifacts(r) ==
    /\ reader[r].pc = "probing"
    /\ reader' = [reader EXCEPT ![r].pc = "idle",
                     ![r].answer = IF artifacts = 0 THEN "incomplete"
                                                    ELSE "missing"]
    /\ UNCHANGED <<status, artifacts, rows, lock, gen>>

-----------------------------------------------------------------------------
(* The rest of the system, as this component sees it *)

\* end_session completes the session; a message handler that read the status
\* before that writes "active" over it.
WriteStatus(s) ==
    /\ status # s
    /\ status' = s
    /\ UNCHANGED <<artifacts, rows, lock, gen, reader>>

\* One pipeline run replaces evaluation, coaching report and learning plan in
\* one commit.
PersistArtifacts ==
    /\ artifacts < MaxRun
    /\ artifacts' = artifacts + 1
    /\ UNCHANGED <<status, rows, lock, gen, reader>>

Step(g) ==
    \/ RejectNotCompleted(g) \/ RejectPending(g) \/ AllocateVersion(g)
    \/ CommitPending(g) \/ LoseAllocation(g) \/ ReadArtifact(g)
    \/ CommitReady(g) \/ CommitFailed(g) \/ LoseSettlement(g)

Generate(g) == LoadSession(g) \/ LockSession(g) \/ Step(g) \/ Crash(g)
Read(r) == QueryReady(r) \/ QueryAttempt(r) \/ ProbeArtifacts(r)

Next ==
    \/ \E g \in Generators : Generate(g)
    \/ \E r \in Readers : Read(r)
    \/ \E s \in Statuses : WriteStatus(s)
    \/ PersistArtifacts

Spec == Init /\ [][Next]_vars

\* A started call keeps running until it answers or dies, and the database
\* grants a row lock in the order it was asked for.
Fairness == \A g \in Generators : WF_vars(Step(g)) /\ SF_vars(LockSession(g))

FairSpec == Spec /\ Fairness

-----------------------------------------------------------------------------
(* Properties *)

TypeOK ==
    /\ status \in Statuses
    /\ artifacts \in 0..MaxRun
    /\ rows \in [Versions -> Log!Entry]
    /\ lock \in Generators \cup {NoOne}
    /\ gen \in [Generators -> GenState]
    /\ reader \in [Readers -> ReaderState]

\* At any moment at most one generation of the session is in flight, whatever
\* handlers overlap, die or lose their commits: no second marker is inserted
\* while one is pending, and no two handlers work for the same marker
\* (_next_report_version's lock and marker check).
OneAttemptAtATime ==
    /\ \A u, v \in WithStatus({"pending"}) : u = v
    /\ \A g, h \in Generators :
          gen[g].pc \in Assembling /\ gen[h].pc \in Assembling => g = h

\* Serving the highest ready version never serves older artifacts than a
\* lower one holds: section by section, a later report comes from the same or
\* a later pipeline run (the marker is committed before the first read).
LaterReportsAreFresher ==
    \A u, v \in WithStatus({"ready"}) :
        u < v => Log!NotOlder(rows[v].payload, rows[u].payload)

\* The store behaves as the append-only log of ReportLog: dense versions, one
\* open entry, settled entries frozen.
RefinesLog == Log!Spec

\* Every call of generate_report ends: no handler waits forever for the row
\* lock, whatever the others do or however they fail.
EveryCallEnds == \A g \in Generators : gen[g].pc # "idle" ~> gen[g].pc = "idle"

\* A client that asks again never loses a report it was shown, nor gets an
\* older one: failed, pending and lost regenerations leave the last readable
\* snapshot in place (get_report_status).
ShownReportsAdvance ==
    [][\A r \in Readers : reader[r].ready <= reader'[r].ready]_vars

\* Whoever asks for the status is answered with one of the report statuses: a
\* regeneration leaves the last readable snapshot in place (_resolve_ready_status).
StatusIsResolved == \A r \in Readers : reader[r].answer # "error"

\* A pending row is eventually promoted to ready or to failed.
PendingIsSettled ==
    \A v \in Versions : rows[v].status = "pending" ~> Log!Settled(rows[v])

-----------------------------------------------------------------------------
(* The inductive invariant *)

\* The versions present are 1..n.
Dense == \E n \in 0..MaxVersion : Present = 1..n

\* A marker is the newest row.
PendingIsLast == \A v \in WithStatus({"pending"}) : \A u \in Present : u <= v

LockDiscipline ==
    \A g \in Generators : gen[g].pc \in {"locked", "allocated"} <=> lock = g

\* What was read under the lock still holds when the marker is committed.
AllocationIsFresh ==
    \A g \in Generators : gen[g].pc = "allocated" =>
        /\ WithStatus({"pending"}) = {}
        /\ gen[g].version = NextVersion

OwnsMarker ==
    \A g \in Generators : gen[g].pc \in Assembling =>
        /\ gen[g].version \in Versions
        /\ rows[gen[g].version] = Log!Pending

OneAssembler ==
    \A g, h \in Generators :
        gen[g].pc \in Assembling /\ gen[h].pc \in Assembling => g = h

\* The sections a generator has read so far.
ReadSections(g) ==
    CASE gen[g].pc = "coaching" -> {"evaluation"}
      [] gen[g].pc = "plan" -> {"evaluation", "coaching"}
      [] gen[g].pc = "assembled" -> Log!Sections
      [] OTHER -> {}

ReadsAreBetween ==
    /\ \A v \in WithStatus({"ready"}) : \A s \in Log!Sections :
          rows[v].payload[s] <= artifacts
    /\ \A g \in Generators : \A s \in ReadSections(g) :
          /\ gen[g].payload[s] <= artifacts
          /\ \A v \in WithStatus({"ready"}) :
                rows[v].payload[s] <= gen[g].payload[s]

\* What a reader was shown is stored and readable.
ReadersSawReady ==
    \A r \in Readers : reader[r].ready \in {0} \cup WithStatus({"ready"})

IInv ==
    /\ TypeOK
    /\ Dense
    /\ PendingIsLast
    /\ LockDiscipline
    /\ AllocationIsFresh
    /\ OwnsMarker
    /\ OneAssembler
    /\ ReadsAreBetween
    /\ LaterReportsAreFresher
=============================================================================
