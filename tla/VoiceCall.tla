------------------------------ MODULE VoiceCall ------------------------------
(***************************************************************************)
(* The voice calls of one training session.                                *)
(*                                                                         *)
(* Each call is a signalling WebSocket with its own pipeline: frames of    *)
(* audio pass a voice activity detector into a bounded buffer; silence     *)
(* ends an utterance, which is transcribed, recorded, answered and spoken  *)
(* into an output queue that a task forwards to the client.  An utterance  *)
(* is answered across several awaits; meanwhile the client may leave, and  *)
(* the handler tears the pipeline down.  All calls of the session share    *)
(* one peer connection, one transcript table and its numbering.            *)
(***************************************************************************)
EXTENDS Integers, Sequences, SequencesExt, FiniteSets

CONSTANTS
    Calls,        \* voice WebSockets of the session
    NoCall,       \* no peer connection exists
    Texts,        \* text messages sent to the same session meanwhile
    Scripts,      \* what the pinned script may be
    MaxFrames,    \* capacity of the audio buffer
    Silence,      \* silent frames that end an utterance
    FrameBound    \* call -> frames it brings at most

ASSUME CallsAssumption == NoCall \notin Calls /\ Calls \cap Texts = {}
ASSUME ScriptsAssumption == Scripts \subseteq {"none", "silent", "opening"}
ASSUME AudioAssumption ==
    {MaxFrames, Silence} \subseteq Nat \ {0} /\ FrameBound \in [Calls -> Nat]

VARIABLES
    script,       \* content of the pinned script version
    transcript,   \* table transcripts: writer -> rows it stored, in order
    owner,        \* manager._connections: the call whose offer created it
    socket,       \* call -> state of its WebSocket handler
    pipe,         \* call -> state of its pipeline
    lines,        \* call -> lines its TranscriptManager has buffered
    counter,      \* call -> its next sequence number, 0 when unknown
    out,          \* call -> output queue
    told,         \* calls whose client was sent call_ended
    frames,       \* history: frames a call has brought
    heard,        \* history: speech frames since the last utterance
    spoken,       \* history: every line a call recorded
    failed        \* history: calls whose persist gave up

audio == <<frames, heard>>
vars == <<script, transcript, owner, socket, pipe, lines, counter, out, told,
          audio, spoken, failed>>

-----------------------------------------------------------------------------
(* Rows and local states *)

Writers == Calls \cup Texts
Rows == [by : Writers, role : {"agent", "debtor"}, number : Nat]
Row(w, role, n) == [by |-> w, role |-> role, number |-> n]

StoredNumbers == {row.number : row \in UNION {Range(transcript[w]) : w \in Writers}}

\* max of the table, -1 when it is empty
DbMax == IF StoredNumbers = {} THEN -1
         ELSE CHOOSE n \in StoredNumbers : \A m \in StoredNumbers : m <= n

\* The table is asked once; afterwards the manager counts by itself.
NextNumber(p) == IF counter[p] > 0 THEN counter[p] ELSE DbMax + 1

\* step: what the call's audio task is at.  added: rows the session holds
\* while a commit is awaited, by the handler (socket) or the task (pipe).
PipeState == [step : {"none", "listening", "recording", "thinking", "speaking",
                      "farewell", "closing", "storing"},
              active : BOOLEAN, answered : BOOLEAN, seen : BOOLEAN, silent : Nat,
              buffer : Seq(Nat), added : Seq(Rows)]
SocketState == [state : {"new", "open", "closing", "storing", "closed"},
                added : Seq(Rows)]
NoPipe == [step |-> "none", active |-> FALSE, answered |-> FALSE,
           seen |-> FALSE, silent |-> 0, buffer |-> <<>>, added |-> <<>>]
NoSocket == [state |-> "new", added |-> <<>>]

Init ==
    /\ script \in Scripts
    /\ transcript = [w \in Writers |-> <<>>]
    /\ owner = NoCall
    /\ socket = [p \in Calls |-> NoSocket]
    /\ pipe = [p \in Calls |-> NoPipe]
    /\ lines = [p \in Calls |-> <<>>]
    /\ counter = [p \in Calls |-> 0]
    /\ out = [p \in Calls |-> <<>>]
    /\ told = {}
    /\ frames = [p \in Calls |-> 0]
    /\ heard = [p \in Calls |-> <<>>]
    /\ spoken = [p \in Calls |-> <<>>]
    /\ failed = {}

\* Record the roles' lines in one go: append_entry only waits before the
\* first.
Record(p, roles) ==
    LET rows == [i \in DOMAIN roles |-> Row(p, roles[i], NextNumber(p) + i - 1)]
    IN  /\ lines' = [lines EXCEPT ![p] = @ \o rows]
        /\ counter' = [counter EXCEPT
              ![p] = IF roles = <<>> THEN @ ELSE NextNumber(p) + Len(roles)]
        /\ spoken' = [spoken EXCEPT ![p] = @ \o rows]

\* Asking the table may fail: the line is logged and left out.
Recorded(p, roles) ==
    IF counter[p] > 0 THEN {roles}
    ELSE {SubSeq(roles, i, Len(roles)) : i \in 1..Len(roles) + 1}

\* close_peer_connection: whoever asks, the session's connection is closed,
\* and the audio loop that reads from it ends, unless it is in an utterance.
Closing(pipes) ==
    [q \in Calls |->
        IF q = owner /\ pipes[q].step = "listening"
        THEN [pipes[q] EXCEPT !.step = "none"] ELSE pipes[q]]

\* The finally of process_audio_frame, and back to the loop if there is one.
Rested(p) == [pipe[p] EXCEPT
    !.step = IF pipe[p].active /\ owner = p THEN "listening" ELSE "none",
    !.seen = FALSE, !.silent = 0, !.buffer = <<>>, !.added = <<>>]

EndUtterance(p) == pipe' = [pipe EXCEPT ![p] = Rested(p)]


-----------------------------------------------------------------------------
(* Plausible bugs, one for each property *)

Buffered_full(buffer, n) ==
    IF Len(buffer) >= MaxFrames THEN buffer ELSE Append(buffer, n)

Unstored_all(stored, rows) == rows

\* The signal is queued while the teardown has yet to store the lines.
Farewell_announcing(p) ==
    /\ pipe[p].step = "farewell"
    /\ owner' = NoCall
    /\ pipe' = Closing([pipe EXCEPT ![p].step = "closing", ![p].active = FALSE,
                                    ![p].answered = TRUE])
    /\ out' = [out EXCEPT ![p] = Append(@, "end")]
    /\ UNCHANGED <<script, transcript, socket, lines, counter, told, audio,
                   spoken, failed>>

\* The teardown's drain takes the signal with it.
Announced_before_drain(queue) == <<>>

-----------------------------------------------------------------------------
(* Buffers *)

\* AudioBuffer.append: the oldest frame makes room.
Buffered(buffer, n) ==
    Append(IF Len(buffer) >= MaxFrames THEN Tail(buffer) ELSE buffer, n)

\* Rows an ORM session inserts: those it has not inserted before, in order.
Unstored(stored, rows) ==
    LET new == {i \in DOMAIN rows : rows[i] \notin Range(stored)}
        Nth(j) == CHOOSE i \in new : Cardinality({k \in new : k <= i}) = j
    IN  [j \in 1..Cardinality(new) |-> rows[Nth(j)]]

-----------------------------------------------------------------------------
(* Signalling *)

\* Token, session, script and services are found; the forwarding task starts.
Connect(p) ==
    /\ socket[p].state = "new"
    /\ socket' = [socket EXCEPT ![p].state = "open"]
    /\ UNCHANGED <<script, transcript, owner, pipe, lines, counter, out, told,
                   audio, spoken, failed>>

\* No token, no aiortc, no speech synthesis.
RefuseCall(p) ==
    /\ socket[p].state = "new"
    /\ socket' = [socket EXCEPT ![p].state = "closed"]
    /\ UNCHANGED <<script, transcript, owner, pipe, lines, counter, out, told,
                   audio, spoken, failed>>

\* handle_offer keeps the connection another call of the session made: then
\* this call's audio is never routed to its pipeline.
Offer(p) ==
    /\ socket[p].state = "open" /\ p \notin told
    /\ owner = NoCall
    /\ owner' = p
    /\ UNCHANGED <<script, transcript, socket, pipe, lines, counter, out, told,
                   audio, spoken, failed>>

\* handle_audio_track, which handle_offer is given for the connection's track;
\* it also revives a pipeline that was torn down.
HandleTrack(p) ==
    /\ owner = p
    /\ pipe[p].step = "none"
    /\ pipe' = [pipe EXCEPT ![p].step = "listening", ![p].active = TRUE]
    /\ UNCHANGED <<script, transcript, owner, socket, lines, counter, out, told,
                   audio, spoken, failed>>

\* The connection reaches the state "failed".
ConnectionFails ==
    /\ owner # NoCall
    /\ owner' = NoCall
    /\ pipe' = Closing(pipe)
    /\ UNCHANGED <<script, transcript, socket, lines, counter, out, told,
                   audio, spoken, failed>>

\* forward_output sends what the pipeline queued; the end closes the socket.
ForwardOutput(p) ==
    /\ socket[p].state = "open" /\ p \notin told
    /\ out[p] # <<>>
    /\ out' = [out EXCEPT ![p] = Tail(@)]
    /\ told' = IF Head(out[p]) = "end" THEN told \cup {p} ELSE told
    /\ UNCHANGED <<script, transcript, owner, socket, pipe, lines, counter,
                   audio, spoken, failed>>

-----------------------------------------------------------------------------
(* Audio *)

\* The detector remembers whether it heard speech, and for how many frames it
\* has been silent since.
Detected(vad, speech) ==
    [vad EXCEPT !.seen = @ \/ speech, !.silent = IF speech THEN 0 ELSE @ + 1]

SpeechEnded(vad) == vad.seen /\ vad.silent >= Silence

\* Words, or nothing: noise, or a failure of the recogniser.
Transcriptions == {"words", "nothing"}

\* A frame is classified, buffered, and may end the utterance: the buffer is
\* flushed and transcribed.  A queued end is forwarded within 10 ms, sooner
\* than a new offer can bring speech.
Hear(p, speech) ==
    LET n == frames[p] + 1
        vad == [Detected(pipe[p], speech) EXCEPT
                   !.buffer = IF speech THEN Buffered(@, n) ELSE @]
        ends == SpeechEnded(vad) /\ vad.buffer # <<>>
    IN  /\ pipe[p].step = "listening" /\ owner = p
        /\ p \notin told /\ "end" \notin Range(out[p])
        /\ n <= FrameBound[p]
        /\ frames' = [frames EXCEPT ![p] = n]
        /\ heard' = [heard EXCEPT ![p] = IF ends THEN <<>>
                                         ELSE IF speech THEN Append(@, n) ELSE @]
        /\ \/ ~ends /\ pipe' = [pipe EXCEPT ![p] = vad]
           \/ /\ ends
              /\ \E text \in Transcriptions :
                    pipe' = [pipe EXCEPT ![p] =
                       IF text = "nothing" THEN Rested(p)
                       ELSE [vad EXCEPT !.step = "recording", !.buffer = <<>>]]
    /\ UNCHANGED <<script, transcript, owner, socket, lines, counter, out,
                   told, spoken, failed>>

\* The agent's line, and the debtor's when the script has it at hand: the
\* opening answers the first utterance, an escalation or a reached goal ends
\* the call.  Otherwise the simulator is asked.
RecordUtterance(p, next, roles) ==
    /\ pipe[p].step = "recording"
    /\ roles = IF next = "thinking" THEN <<"agent">> ELSE <<"agent", "debtor">>
    /\ IF script = "opening" /\ ~pipe[p].answered THEN next = "speaking"
       ELSE next \in {"thinking"} \cup (IF script = "none" THEN {} ELSE {"farewell"})
    /\ \E kept \in Recorded(p, roles) : Record(p, kept)
    /\ pipe' = [pipe EXCEPT ![p].step = next]
    /\ UNCHANGED <<script, transcript, owner, socket, out, told, audio, failed>>

Answer(p) ==
    /\ pipe[p].step = "thinking"
    /\ \E kept \in Recorded(p, <<"debtor">>) : Record(p, kept)
    /\ pipe' = [pipe EXCEPT ![p].step = "speaking"]
    /\ UNCHANGED <<script, transcript, owner, socket, out, told, audio, failed>>

\* No answer, or no voice for it: what was recorded stays recorded.
GiveUp(p) ==
    /\ pipe[p].step \in {"thinking", "speaking"}
    /\ EndUtterance(p)
    /\ UNCHANGED <<script, transcript, owner, socket, lines, counter, out, told,
                   audio, spoken, failed>>

Speak(p) ==
    /\ pipe[p].step = "speaking"
    /\ out' = [out EXCEPT ![p] = Append(@, "audio")]
    /\ pipe' = [pipe EXCEPT ![p] = [Rested(p) EXCEPT !.answered = TRUE]]
    /\ UNCHANGED <<script, transcript, owner, socket, lines, counter, told,
                   audio, spoken, failed>>

-----------------------------------------------------------------------------
(* Teardown *)

\* The script ends the call: with or without its last words in audio, the
\* pipeline goes inactive and closes the connection.
Farewell(p) ==
    /\ pipe[p].step = "farewell"
    /\ owner' = NoCall
    /\ pipe' = Closing([pipe EXCEPT ![p].step = "closing", ![p].active = FALSE,
                                    ![p].answered = TRUE])
    /\ UNCHANGED <<script, transcript, socket, lines, counter, out, told, audio,
                   spoken, failed>>

\* persist hands the buffered lines to the database session ...
BeginPersist(p) ==
    /\ pipe[p].step = "closing"
    /\ pipe' = [pipe EXCEPT ![p].step = "storing", ![p].added = lines[p]]
    /\ UNCHANGED <<script, transcript, owner, socket, lines, counter, out, told,
                   audio, spoken, failed>>

\* ... and forgets the buffer once they are committed, with what was buffered
\* during the wait.  When every attempt fails the buffer stays.
Persist(p, rows) ==
    \/ /\ rows = <<>>
       /\ UNCHANGED <<transcript, lines, failed>>
    \/ /\ rows # <<>>
       /\ transcript' = [transcript EXCEPT ![p] = @ \o Unstored(@, rows)]
       /\ lines' = [lines EXCEPT ![p] = <<>>]
       /\ UNCHANGED failed
    \/ /\ rows # <<>>
       /\ failed' = failed \cup {p}
       /\ UNCHANGED <<transcript, lines>>

\* Stale audio is drained first, then the signal is queued.
Announced(queue) == <<"end">>

EndCall(p) ==
    /\ pipe[p].step = "storing"
    /\ Persist(p, pipe[p].added)
    /\ out' = [out EXCEPT ![p] = Announced(@)]
    /\ EndUtterance(p)
    /\ UNCHANGED <<script, owner, socket, counter, told, audio, spoken>>

\* The client leaves, or was told that the call ended: the handler stops the
\* forwarding and tears the pipeline down, whatever the pipeline is doing.
Leave(p) ==
    /\ socket[p].state = "open"
    /\ socket' = [socket EXCEPT ![p].state = "closing"]
    /\ owner' = NoCall
    /\ pipe' = Closing([pipe EXCEPT ![p].active = FALSE])
    /\ UNCHANGED <<script, transcript, lines, counter, out, told, audio, spoken,
                   failed>>

BeginHandlerPersist(p) ==
    /\ socket[p].state = "closing"
    /\ socket' = [socket EXCEPT ![p] = [state |-> "storing", added |-> lines[p]]]
    /\ UNCHANGED <<script, transcript, owner, pipe, lines, counter, out, told,
                   audio, spoken, failed>>

\* A failed commit is tried again, with what was buffered during the wait,
\* unless the other end of the call has emptied the buffer.
RetryPersist(p) ==
    /\ socket[p].state = "storing" /\ socket[p].added # <<>>
    /\ IsPrefix(socket[p].added, lines[p])
    /\ socket' = [socket EXCEPT ![p].added = lines[p]]
    /\ UNCHANGED <<script, transcript, owner, pipe, lines, counter, out, told,
                   audio, spoken, failed>>

\* The connection is closed again: another call may have opened it meanwhile.
EndHandler(p) ==
    /\ socket[p].state = "storing"
    /\ Persist(p, socket[p].added)
    /\ out' = [out EXCEPT ![p] = <<>>]
    /\ socket' = [socket EXCEPT ![p] = [NoSocket EXCEPT !.state = "closed"]]
    /\ owner' = NoCall
    /\ pipe' = Closing(pipe)
    /\ UNCHANGED <<script, counter, told, audio, spoken>>

-----------------------------------------------------------------------------
(* Specification *)

\* send_message stores a whole turn at once.
TextTurn(t) ==
    /\ transcript[t] = <<>>
    /\ transcript' = [transcript EXCEPT ![t] =
          <<Row(t, "agent", DbMax + 1), Row(t, "debtor", DbMax + 2)>>]
    /\ UNCHANGED <<script, owner, socket, pipe, lines, counter, out, told,
                   audio, spoken, failed>>

PipelineStep(p) ==
    \/ \E next \in {"thinking", "speaking", "farewell"},
          roles \in {<<"agent">>, <<"agent", "debtor">>} :
             RecordUtterance(p, next, roles)
    \/ Answer(p) \/ GiveUp(p) \/ Speak(p)
    \/ Farewell(p) \/ BeginPersist(p) \/ EndCall(p)

HandlerStep(p) == BeginHandlerPersist(p) \/ EndHandler(p)

Next ==
    \/ \E p \in Calls :
          \/ Connect(p) \/ RefuseCall(p) \/ Offer(p) \/ HandleTrack(p) \/ Leave(p)
          \/ \E speech \in BOOLEAN : Hear(p, speech)
          \/ PipelineStep(p) \/ HandlerStep(p) \/ RetryPersist(p) \/ ForwardOutput(p)
    \/ ConnectionFails
    \/ \E t \in Texts : TextTurn(t)

Spec == Init /\ [][Next]_vars

\* Tasks of the event loop keep running; speech services and database
\* attempts end, with an error at worst.
FairSpec ==
    /\ Spec
    /\ \A p \in Calls : /\ WF_vars(PipelineStep(p))
                        /\ WF_vars(HandlerStep(p))
                        /\ WF_vars(ForwardOutput(p))

-----------------------------------------------------------------------------
(* Properties *)

\* The types of calls, rows and pipelines; the buffer keeps to its limit
\* (audio_buffer.append).
VoiceTypeOK ==
    /\ script \in Scripts
    /\ transcript \in [Writers -> Seq(Rows)]
    /\ owner \in Calls \cup {NoCall}
    /\ socket \in [Calls -> SocketState]
    /\ pipe \in [Calls -> PipeState]
    /\ \A p \in Calls : Len(pipe[p].buffer) <= MaxFrames
    /\ {lines, spoken} \subseteq [Calls -> Seq(Rows)]
    /\ counter \in [Calls -> Nat]
    /\ out \in [Calls -> Seq({"audio", "end"})]
    /\ told \subseteq Calls /\ failed \subseteq Calls
    /\ frames \in [Calls -> Nat] /\ \A p \in Calls : frames[p] <= FrameBound[p]
    /\ heard \in [Calls -> Seq(Nat)]

\* The last frames of speech that the buffer has room for.
Latest(speech) ==
    LET first == Len(speech) - MaxFrames + 1
    IN  SubSeq(speech, IF first < 1 THEN 1 ELSE first, Len(speech))

\* What will be transcribed is the latest speech since the last utterance was
\* taken, up to the buffer's capacity: nothing of an answered utterance, no
\* frame missing in the middle, whatever answers and teardowns come between.
AudioIsLatestSpeech ==
    \A p \in Calls : pipe[p].step = "listening" => pipe[p].buffer = Latest(heard[p])

\* The stored lines of a call are the first ones it recorded, in order, each
\* once, although its own end, its handler and a slow answer may be storing
\* at the same time.
StoredLinesAreAPrefix == \A p \in Calls : IsPrefix(transcript[p], spoken[p])

\* A client that hears that its call has ended finds the transcript stored,
\* unless the database refused it: the session may be evaluated now.
EndIsToldAfterStoring ==
    \A p \in told : lines[p] = <<>> \/ p \in failed

\* A call that its script ends is announced to its client, if it stays.
EndIsAnnounced ==
    \A p \in Calls :
        pipe[p].step = "farewell" ~> p \in told \/ socket[p].state = "closed"

\* The lines of a session are numbered apart, whoever wrote them.
NumbersAreUnique ==
    \A v, w \in Writers : \A i \in DOMAIN transcript[v], j \in DOMAIN transcript[w] :
        transcript[v][i].number = transcript[w][j].number => v = w /\ i = j

-----------------------------------------------------------------------------
(* The inductive invariant *)

OwnerIsOpen == owner # NoCall => socket[owner].state = "open"

\* Nothing is heard while an utterance is answered.
BufferIsLatest ==
    \A p \in Calls :
        /\ pipe[p].buffer = Latest(heard[p])
        /\ pipe[p].step \notin {"none", "listening"} => heard[p] = <<>>

\* After the signal no utterance is taken any more.
EndIsFinal ==
    \A p \in Calls :
        p \in told \/ "end" \in Range(out[p]) =>
            /\ pipe[p].step \in {"none", "listening"}
            /\ lines[p] = <<>> \/ p \in failed

StoringIsOfTheBuffer ==
    \A p \in Calls :
        pipe[p].step = "storing" => lines[p] \in {<<>>, pipe[p].added}

\* One call numbers its lines without a gap; before the first it has no
\* counter.
NumbersAreConsecutive ==
    \A p \in Calls :
        /\ counter[p] = 0 => spoken[p] = <<>>
        /\ \A i \in DOMAIN spoken[p] :
              spoken[p][i].number = counter[p] - Len(spoken[p]) + i - 1

TableHasMaximum ==
    StoredNumbers # {} =>
        \E n \in StoredNumbers : \A m \in StoredNumbers : m <= n

\* rows are the ones of all that end with the b-th.
EndAt(rows, all, b) ==
    /\ Len(rows) <= b /\ b <= Len(all)
    /\ rows = SubSeq(all, b - Len(rows) + 1, b)

\* What a call has buffered is what it recorded last, and follows what is
\* stored.  A handler's end forgets what was buffered during its commit;
\* then nothing of the call is stored any more.
LinesFollow ==
    \A p \in Calls :
        /\ EndAt(lines[p], spoken[p], Len(spoken[p]))
        /\ \/ Len(spoken[p]) - Len(lines[p]) <= Len(transcript[p])
           \/ /\ socket[p].state = "closed"
              /\ \/ pipe[p].step \in {"none", "thinking", "speaking"}
                 \/ /\ pipe[p].step \in {"farewell", "closing", "storing"}
                    /\ lines[p] = <<>>

\* A farewell stores all that was recorded ...
AddedFollow ==
    \A p \in Calls :
        pipe[p].step = "storing" /\ pipe[p].added # <<>> =>
            /\ EndAt(pipe[p].added, spoken[p], Len(spoken[p]))
            /\ Len(spoken[p]) - Len(pipe[p].added) <= Len(transcript[p])

\* ... a handler all that was recorded when its attempt began.
HandlerFollows ==
    \A p \in Calls :
        socket[p].state = "storing" =>
            \E b \in 0..Len(spoken[p]) :
                /\ EndAt(socket[p].added, spoken[p], b)
                /\ b - Len(socket[p].added) <= Len(transcript[p])
                /\ pipe[p].step \in {"listening", "recording"} => b = Len(spoken[p])

IInv ==
    /\ VoiceTypeOK /\ OwnerIsOpen
    /\ BufferIsLatest /\ EndIsFinal /\ StoringIsOfTheBuffer
    /\ NumbersAreConsecutive /\ TableHasMaximum
    /\ StoredLinesAreAPrefix /\ LinesFollow /\ AddedFollow /\ HandlerFollows
=============================================================================
