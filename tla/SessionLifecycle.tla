--------------------------- MODULE SessionLifecycle ---------------------------
(***************************************************************************)
(* One training session from its first message to its evaluation.          *)
(*                                                                         *)
(* Message calls (send_message) are serialized by an in-process lock of    *)
(* the session; each reads the status, activates a pending session, keeps  *)
(* the debtor's memory in the process, numbers its transcript lines from   *)
(* the table and stores the whole turn in one commit.  Closing calls       *)
(* (end_session, retry_session_evaluation) take no lock: they complete the *)
(* session and run the evaluation pipeline, which reads the transcript,    *)
(* waits for the LLM and upserts the session's artifacts.  The process may *)
(* restart, and loses what it held in memory.                              *)
(***************************************************************************)
EXTENDS Integers, Sequences

CONSTANTS
    Calls,         \* message calls, each made at most once
    Closers,       \* end_session and retry calls, each made at most once
    NoOne,         \* nobody holds the message lock
    NoMemory,      \* the process holds no persona of the session
    Scripts,       \* what the pinned script may be
    MaxAttempts    \* attempts of retry_db_operation

ASSUME NoOneAssumption == NoOne \notin Calls
ASSUME NoMemoryAssumption ==
    NoMemory \notin Seq([by : Calls, role : {"agent", "debtor", "opening"}])
\* No script, a script without an opening line, or one with an opening line.
ASSUME ScriptsAssumption == Scripts \subseteq {"none", "silent", "opening"}
ASSUME AttemptsAssumption == MaxAttempts \in Nat \ {0}

VARIABLES
    script,       \* the script pinned at creation
    status,       \* Session.status
    firstEnd,     \* history: rows stored when the session first completed
    transcript,   \* table transcripts of the session, in order of commit
    artifacts,    \* rows the stored evaluation was computed from
    lock,         \* the call holding the session's message lock
    memory,       \* _active_personas: conversation history, or NoMemory
    fallback,     \* writers whose data is in the in-memory fallback store
    call,         \* message call -> its local state
    closer        \* closing call -> its local state

db == <<script, status, firstEnd, transcript, artifacts>>
vars == <<db, lock, memory, fallback, call, closer>>

-----------------------------------------------------------------------------
(* Rows, lines and local states *)

None == -1          \* no artifacts, or never completed

Roles == {"agent", "debtor", "opening"}
Line(c, role) == [by |-> c, role |-> role]
Row(n, c, role) == [number |-> n, line |-> Line(c, role)]

Lines == [by : Calls, role : Roles]
TranscriptRows == [number : Nat, line : Lines]

CallState == [pc : {"idle", "waiting", "activating", "loading", "turn", "reply",
                    "done"},
              system : BOOLEAN, first : BOOLEAN, ends : BOOLEAN,
              buffer : Seq(TranscriptRows)]
CloserState == [pc : {"idle", "ending", "reading", "evaluating", "retrying",
                      "writing", "conflict", "done"},
                rows : Nat, exists : BOOLEAN, attempts : 0..MaxAttempts-1]

IdleCall == [pc |-> "idle", system |-> FALSE, first |-> FALSE,
             ends |-> FALSE, buffer |-> <<>>]
IdleCloser == [pc |-> "idle", rows |-> 0, exists |-> FALSE, attempts |-> 0]

\* TranscriptManager numbers a line after its own buffer, or after the
\* largest number in the table.
LargestNumber ==
    IF transcript = <<>> THEN -1
    ELSE LET numbers == {transcript[i].number : i \in DOMAIN transcript}
         IN  CHOOSE n \in numbers : \A m \in numbers : m <= n

NextNumber(buffer) ==
    IF buffer = <<>> THEN LargestNumber + 1
    ELSE buffer[Len(buffer)].number + 1

AppendEntry(buffer, c, role) ==
    Append(buffer, Row(NextNumber(buffer), c, role))

History == IF memory = NoMemory THEN <<>> ELSE memory

Init ==
    /\ script \in Scripts
    /\ status = "pending"
    /\ firstEnd = None
    /\ transcript = <<>>
    /\ artifacts = None
    /\ lock = NoOne
    /\ memory = NoMemory
    /\ fallback = {}
    /\ call = [c \in Calls |-> IdleCall]
    /\ closer = [e \in Closers |-> IdleCloser]

-----------------------------------------------------------------------------
(* Plausible bugs, one for each property: the runs substitute them. *)

TakeTurn_without_lock(c) ==
    /\ call[c].pc = "waiting"
    /\ status # "completed"
    /\ lock' = c
    /\ call' = [call EXCEPT
          ![c].pc = IF status = "pending" THEN "activating" ELSE "loading",
          ![c].first = (status = "pending")]
    /\ UNCHANGED <<db, memory, fallback, closer>>

RejectCompleted_keeping_lock(c) ==
    /\ call[c].pc = "waiting"
    /\ lock = NoOne
    /\ status = "completed"
    /\ lock' = c
    /\ call' = [call EXCEPT ![c] = [IdleCall EXCEPT !.pc = "done"]]
    /\ UNCHANGED <<db, memory, fallback, closer>>

BeginTurn_trusting_status(c) ==
    /\ call[c].pc = "loading"
    /\ memory' = History
    /\ call' = [call EXCEPT
          ![c].pc = "turn",
          ![c].buffer = IF call[c].system THEN <<>>
                        ELSE AppendEntry(<<>>, c, "agent")]
    /\ UNCHANGED <<db, lock, fallback, closer>>

LoseTurn_without_fallback(c) ==
    /\ call[c].pc = "reply"
    /\ lock' = NoOne
    /\ call' = [call EXCEPT ![c] = [IdleCall EXCEPT !.pc = "done"]]
    /\ UNCHANGED <<db, memory, fallback, closer>>

ReadForRetry_of_any_session(e) ==
    /\ closer[e].pc = "idle"
    /\ closer' = [closer EXCEPT ![e].pc = "reading"]
    /\ UNCHANGED <<db, lock, memory, fallback, call>>

-----------------------------------------------------------------------------
(* send_message *)

\* A message arrives and queues for the session's lock.  System messages, in
\* brackets, start the call and are not transcribed.
SendMessage(c, system) ==
    /\ call[c].pc = "idle"
    /\ call' = [call EXCEPT ![c].pc = "waiting", ![c].system = system]
    /\ UNCHANGED <<db, lock, memory, fallback, closer>>

\* The call answers, or fails, and the lock goes to the next one.
Leave(c) ==
    /\ lock' = NoOne
    /\ call' = [call EXCEPT ![c] = [IdleCall EXCEPT !.pc = "done"]]

\* The lock is free: the call takes it and reads the session.  400 when the
\* session is over.
RejectCompleted(c) ==
    /\ call[c].pc = "waiting"
    /\ lock = NoOne
    /\ status = "completed"
    /\ Leave(c)
    /\ UNCHANGED <<db, memory, fallback, closer>>

TakeTurn(c) ==
    /\ call[c].pc = "waiting"
    /\ lock = NoOne
    /\ status # "completed"
    /\ lock' = c
    /\ call' = [call EXCEPT
          ![c].pc = IF status = "pending" THEN "activating" ELSE "loading",
          ![c].first = (status = "pending")]
    /\ UNCHANGED <<db, memory, fallback, closer>>

\* The status read before is not compared again.
Activate(c) ==
    /\ call[c].pc = "activating"
    /\ status' = "active"
    /\ call' = [call EXCEPT ![c].pc = "loading"]
    /\ UNCHANGED <<script, firstEnd, transcript, artifacts, lock, memory,
                   fallback, closer>>

\* Find or create the persona, and buffer the agent's line.
BeginTurn(c) ==
    /\ call[c].pc = "loading"
    /\ memory' = History
    /\ call' = [call EXCEPT
          ![c].pc = "turn",
          ![c].first = @ \/ History = <<>>,
          ![c].buffer = IF call[c].system THEN <<>>
                        ELSE AppendEntry(<<>>, c, "agent")]
    /\ UNCHANGED <<db, lock, fallback, closer>>

DueOpening(c) == call[c].first /\ script = "opening"

Reply(c, role, ends) ==
    call' = [call EXCEPT ![c].pc = "reply", ![c].ends = ends,
                         ![c].buffer = AppendEntry(@, c, role)]

\* The scripted opening answers the first message, a system one included.
DeliverOpening(c) ==
    /\ call[c].pc = "turn"
    /\ DueOpening(c)
    /\ memory' = History
          \o (IF call[c].system THEN <<>> ELSE <<Line(c, "agent")>>)
          \o <<Line(c, "opening")>>
    /\ Reply(c, "opening", FALSE)
    /\ UNCHANGED <<db, lock, fallback, closer>>

\* The agent's words meet an escalation condition or the conversation goal.
EndByScript(c) ==
    /\ call[c].pc = "turn"
    /\ ~DueOpening(c)
    /\ script # "none" /\ ~call[c].system
    /\ Reply(c, "debtor", TRUE)
    /\ UNCHANGED <<db, lock, memory, fallback, closer>>

\* The simulator answers, and remembers both lines.  Without a script the
\* answer may hang up.
Respond(c, hangsUp) ==
    /\ call[c].pc = "turn"
    /\ ~DueOpening(c)
    /\ hangsUp => script = "none"
    /\ memory' = History \o <<Line(c, "agent"), Line(c, "debtor")>>
    /\ Reply(c, "debtor", hangsUp)
    /\ UNCHANGED <<db, lock, fallback, closer>>

\* 500: the agent's buffered line goes with the request.
FailToRespond(c) ==
    /\ call[c].pc = "turn"
    /\ ~DueOpening(c)
    /\ Leave(c)
    /\ UNCHANGED <<db, memory, fallback, closer>>

\* A call that ends forgets the persona once its turn is stored.
PersistTurn(c) ==
    /\ call[c].pc = "reply"
    /\ transcript' = transcript \o call[c].buffer
    /\ memory' = IF call[c].ends THEN NoMemory ELSE memory
    /\ Leave(c)
    /\ UNCHANGED <<script, status, firstEnd, artifacts, fallback, closer>>

\* Every attempt to store the turn failed: 500.
LoseTurn(c) ==
    /\ call[c].pc = "reply"
    /\ fallback' = fallback \cup {c}
    /\ Leave(c)
    /\ UNCHANGED <<db, memory, closer>>

-----------------------------------------------------------------------------
(* end_session and retry_session_evaluation *)

\* Any status but these two is an error, and changes nothing.
ReadForEnd(e) ==
    /\ closer[e].pc = "idle"
    /\ status \in {"pending", "active"}
    /\ closer' = [closer EXCEPT ![e].pc = "ending"]
    /\ UNCHANGED <<db, lock, memory, fallback, call>>

\* The status read before is not compared again.
CompleteSession(e) ==
    /\ closer[e].pc = "ending"
    /\ status' = "completed"
    /\ firstEnd' = IF firstEnd = None THEN Len(transcript) ELSE firstEnd
    /\ closer' = [closer EXCEPT ![e].pc = "reading"]
    /\ UNCHANGED <<script, transcript, artifacts, lock, memory, fallback, call>>

ReadForRetry(e) ==
    /\ closer[e].pc = "idle"
    /\ status = "completed"
    /\ closer' = [closer EXCEPT ![e].pc = "reading"]
    /\ UNCHANGED <<db, lock, memory, fallback, call>>

\* The pipeline works on the transcript as it is now.
ReadTranscript(e) ==
    /\ closer[e].pc = "reading"
    /\ closer' = [closer EXCEPT ![e].pc = "evaluating",
                                ![e].rows = Len(transcript)]
    /\ UNCHANGED <<db, lock, memory, fallback, call>>

\* No pinned standard, a provider error, an invalid answer.
FailEvaluation(e) ==
    /\ closer[e].pc = "evaluating"
    /\ closer' = [closer EXCEPT ![e].pc = "done"]
    /\ UNCHANGED <<db, lock, memory, fallback, call>>

\* With its results, _do_persist looks for the rows to update ...
SelectArtifacts(e) ==
    /\ closer[e].pc \in {"evaluating", "retrying"}
    /\ closer' = [closer EXCEPT ![e].pc = "writing",
                                ![e].exists = (artifacts # None)]
    /\ UNCHANGED <<db, lock, memory, fallback, call>>

\* ... and updates them, or inserts them when there were none.
WriteArtifacts(e) ==
    /\ closer[e].pc = "writing"
    /\ closer[e].exists \/ artifacts = None
    /\ artifacts' = closer[e].rows
    /\ closer' = [closer EXCEPT ![e].pc = "done"]
    /\ UNCHANGED <<script, status, firstEnd, transcript, lock, memory,
                   fallback, call>>

\* The insert breaks the unique session_id.  It is flushed by the next query,
\* outside the try that rolls back, so each further attempt fails as well.
ConflictingInsert(e) ==
    /\ closer[e].pc = "writing"
    /\ ~closer[e].exists /\ artifacts # None
    /\ fallback' = fallback \cup {e}
    /\ closer' = [closer EXCEPT ![e].pc = "conflict"]
    /\ UNCHANGED <<db, lock, memory, call>>

\* The commit failed and was rolled back: try again, up to MaxAttempts times.
RetryWrite(e) ==
    /\ closer[e].pc = "writing"
    /\ closer[e].attempts + 1 < MaxAttempts
    /\ closer' = [closer EXCEPT ![e].pc = "retrying", ![e].attempts = @ + 1]
    /\ UNCHANGED <<db, lock, memory, fallback, call>>

LoseArtifacts(e) ==
    /\ closer[e].pc = "writing"
    /\ closer[e].attempts + 1 = MaxAttempts
    /\ fallback' = fallback \cup {e}
    /\ closer' = [closer EXCEPT ![e].pc = "done"]
    /\ UNCHANGED <<db, lock, memory, call>>

-----------------------------------------------------------------------------

\* Requests in flight are gone, and so is all that lived in the process.
Restart ==
    /\ call' = [c \in Calls |->
          IF call[c].pc = "idle" THEN IdleCall
          ELSE [IdleCall EXCEPT !.pc = "done"]]
    /\ closer' = [e \in Closers |->
          IF closer[e].pc \in {"idle", "conflict"} THEN closer[e]
          ELSE [IdleCloser EXCEPT !.pc = "done"]]
    /\ lock' = NoOne
    /\ memory' = NoMemory
    /\ fallback' = {}
    /\ UNCHANGED db

HaveLock(c) == RejectCompleted(c) \/ TakeTurn(c)

MessageStep(c) ==
    \/ Activate(c) \/ BeginTurn(c) \/ DeliverOpening(c) \/ EndByScript(c)
    \/ Respond(c, FALSE) \/ Respond(c, TRUE) \/ FailToRespond(c)
    \/ PersistTurn(c) \/ LoseTurn(c)

CloserStep(e) ==
    \/ CompleteSession(e) \/ ReadTranscript(e) \/ FailEvaluation(e)
    \/ SelectArtifacts(e) \/ WriteArtifacts(e) \/ ConflictingInsert(e)
    \/ RetryWrite(e) \/ LoseArtifacts(e)

Next ==
    \/ \E c \in Calls :
          \/ \E system \in BOOLEAN : SendMessage(c, system)
          \/ HaveLock(c)
          \/ MessageStep(c)
    \/ \E e \in Closers : ReadForEnd(e) \/ ReadForRetry(e) \/ CloserStep(e)
    \/ Restart

Spec == Init /\ [][Next]_vars

\* A started call keeps running: every wait, the LLM's included, has a
\* timeout.  asyncio.Lock serves its waiters in order.
Fairness ==
    /\ \A c \in Calls : WF_vars(MessageStep(c)) /\ SF_vars(HaveLock(c))
    /\ \A e \in Closers : WF_vars(CloserStep(e))

FairSpec == Spec /\ Fairness

-----------------------------------------------------------------------------
(* Properties *)

\* The types of the session's rows and of the calls on it; retries keep to their
\* bound (retry_db_operation).
TypeOK ==
    /\ script \in Scripts
    /\ status \in {"pending", "active", "completed"}
    /\ firstEnd \in Nat \cup {None} /\ artifacts \in Nat \cup {None}
    /\ transcript \in Seq(TranscriptRows)
    /\ lock \in Calls \cup {NoOne}
    /\ memory \in Seq(Lines) \cup {NoMemory}
    /\ fallback \subseteq Calls \cup Closers
    /\ call \in [Calls -> CallState]
    /\ closer \in [Closers -> CloserState]

\* Whatever calls overlap, fail or die with the process, the stored
\* transcript is numbered 0, 1, 2 ... (the report assembler refuses any other)
\* and no turn is torn or mixed with another: the debtor's line follows the
\* agent's line of the same call.
TranscriptIsOrdered ==
    /\ \A i \in DOMAIN transcript : transcript[i].number = i - 1
    /\ \A i \in DOMAIN transcript :
          transcript[i].line.role = "agent" =>
             /\ i + 1 \in DOMAIN transcript
             /\ transcript[i + 1].line.by = transcript[i].line.by
             /\ transcript[i + 1].line.role # "agent"

\* The debtor never remembers an answer that is nowhere else: its line is
\* stored, about to be stored, or kept in the fallback store.
MemoryIsAccountedFor ==
    \A i \in DOMAIN History :
        LET line == History[i] IN
        line.role # "agent" =>
            \/ \E j \in DOMAIN transcript : transcript[j].line = line
            \/ call[line.by].pc = "reply"
            \/ line.by \in fallback

\* With an opening in the script every conversation the debtor remembers
\* begins with it and never repeats it, whether the session was pending, was
\* active already, or lost its memory to a restart or a finished call.
OpeningLeads ==
    script = "opening" =>
        \A i \in DOMAIN History :
            History[i].role = "opening" <=>
                /\ History[i].role # "agent"
                /\ \A j \in 1..i-1 : History[j].role = "agent"

\* A stored evaluation was computed after the session completed, from at
\* least every turn that was stored by then, also when turns, ends and
\* retries overlap.
EvaluationCoversTheCall ==
    artifacts # None => firstEnd # None /\ artifacts >= firstEnd

\* No call waits forever: not for the lock of a call that failed, nor for a
\* commit that is retried.
EveryCallIsAnswered ==
    /\ \A c \in Calls : call[c].pc # "idle" ~> call[c].pc = "done"
    /\ \A e \in Closers :
          closer[e].pc # "idle" ~> closer[e].pc \in {"done", "conflict"}

\* A completed session stays completed.
CompletionIsDurable == [][status = "completed" => status' = "completed"]_vars

\* A pipeline run that has its results stores them whatever other run
\* overlaps with it.
RetriesAreSafe == \A e \in Closers : closer[e].pc # "conflict"

-----------------------------------------------------------------------------
(* The inductive invariant *)

Holding == {"activating", "loading", "turn", "reply"}

\* A call is between taking the lock and leaving exactly when it holds it.
LockDiscipline == \A c \in Calls : call[c].pc \in Holding <=> lock = c

\* What the lock's holder has buffered continues the table as it is now: the
\* agent's line unless the message is a system one, then one line of the debtor.
AgentPart(c) ==
    IF call[c].system THEN <<>> ELSE <<Row(Len(transcript), c, "agent")>>

Whole(c, role) ==
    Append(AgentPart(c), Row(Len(transcript) + Len(AgentPart(c)), c, role))

BufferIsNext ==
    \A c \in Calls :
        /\ call[c].pc = "turn" => call[c].buffer = AgentPart(c)
        /\ call[c].pc = "reply" =>
              \E role \in Roles \ {"agent"} : call[c].buffer = Whole(c, role)

\* A remembered line is of a call that has answered; as long as that call is
\* storing its turn, the line is the one it is about to store.
MemoryIsOfCalls ==
    \A i \in DOMAIN History :
        LET line == History[i]
            by   == call[line.by]
        IN  /\ by.pc \in {"reply", "done"}
            /\ by.pc = "reply" /\ line.role # "agent" =>
                  by.buffer = Whole(line.by, line.role)

\* What "first" means: nothing is remembered; and what is remembered under an
\* opening script has the opening.
FirstIsEmpty ==
    /\ status = "pending" => History = <<>>
    /\ script = "opening" /\ History # <<>> =>
          \E i \in DOMAIN History : History[i].role = "opening"
    /\ \A c \in Calls :
          /\ call[c].pc \in {"loading", "turn", "reply"} => status # "pending"
          /\ call[c].pc \in {"activating", "loading"} /\ call[c].first => History = <<>>
          /\ call[c].pc = "turn" => (call[c].first <=> History = <<>>)

\* Whoever evaluates, does so after the first end, on what was stored then
\* and later.
ClosersAreLate ==
    /\ status = "completed" => firstEnd # None
    /\ firstEnd # None => firstEnd <= Len(transcript)
    /\ \A e \in Closers :
          /\ closer[e].pc \in {"reading", "evaluating", "retrying", "writing"} =>
                firstEnd # None
          /\ closer[e].pc \in {"evaluating", "retrying", "writing"} =>
                firstEnd <= closer[e].rows

IInv ==
    /\ TypeOK
    /\ LockDiscipline
    /\ BufferIsNext
    /\ TranscriptIsOrdered
    /\ MemoryIsOfCalls
    /\ MemoryIsAccountedFor
    /\ FirstIsEmpty
    /\ OpeningLeads
    /\ ClosersAreLate
    /\ EvaluationCoversTheCall
=============================================================================
