------------------------ MODULE SessionLifecycleProofs ------------------------
(***************************************************************************)
(* A session under any number of messages, closing calls and restarts, for *)
(* any script and any number of attempts: the numbering of its transcript, *)
(* where the debtor's memory is kept, and what its evaluation covers.      *)
(*                                                                         *)
(* The argument: what a message call has buffered fits the table as long   *)
(* as nobody else stores a line, and nobody else does while it holds the   *)
(* lock.  What is remembered is of calls that have answered, and a call is *)
(* made once, so that a line in memory is in the buffer of its call, in    *)
(* the table or in the fallback store.  Closing calls hold no lock; they   *)
(* only rely on the first end and on a table that never shrinks.           *)
(***************************************************************************)
EXTENDS SessionLifecycle, SequenceTheorems, TLAPS

-----------------------------------------------------------------------------
(* Sequences *)

LEMMA Appended ==
    ASSUME NEW S, NEW s \in Seq(S), NEW e \in S
    PROVE  /\ Append(s, e) \in Seq(S)
           /\ Len(Append(s, e)) = Len(s) + 1
           /\ DOMAIN Append(s, e) = 1..Len(s)+1
           /\ \A i \in 1..Len(s) : Append(s, e)[i] = s[i]
           /\ Append(s, e)[Len(s) + 1] = e
BY AppendProperties, LenProperties

LEMMA Joined ==
    ASSUME NEW S, NEW s \in Seq(S), NEW t \in Seq(S)
    PROVE  /\ s \o t \in Seq(S)
           /\ Len(s \o t) = Len(s) + Len(t)
           /\ DOMAIN (s \o t) = 1..Len(s)+Len(t)
           /\ \A i \in 1..Len(s) : (s \o t)[i] = s[i]
           /\ \A i \in 1..Len(t) : (s \o t)[Len(s) + i] = t[i]
<1>1. s \o t \in Seq(S) /\ Len(s \o t) = Len(s) + Len(t)
    BY ConcatProperties
<1>2. Len(s) \in Nat /\ Len(t) \in Nat
    BY LenProperties
<1>3. \A i \in 1..Len(s)+Len(t) :
          (s \o t)[i] = IF i <= Len(s) THEN s[i] ELSE t[i - Len(s)]
    BY ConcatProperties
<1>4. \A i \in 1..Len(s) : (s \o t)[i] = s[i]
    BY <1>2, <1>3
<1>5. ASSUME NEW i \in 1..Len(t)
      PROVE  (s \o t)[Len(s) + i] = t[i]
    <2>1. Len(s) + i \in 1..Len(s)+Len(t) /\ ~(Len(s) + i <= Len(s))
          /\ (Len(s) + i) - Len(s) = i
        BY <1>2
    <2> QED
        BY <1>3, <2>1
<1> QED
    BY <1>1, <1>4, <1>5, LenProperties

LEMMA Pairs ==
    ASSUME NEW S, NEW a \in S, NEW b \in S
    PROVE  /\ <<>> \o <<b>> = <<b>> /\ <<a>> \o <<b>> = <<a, b>>
           /\ <<b>> \in Seq(S) /\ Len(<<b>>) = 1 /\ DOMAIN <<b>> = 1..1
           /\ <<b>>[1] = b
           /\ <<a, b>> \in Seq(S) /\ Len(<<a, b>>) = 2 /\ DOMAIN <<a, b>> = 1..2
           /\ <<a, b>>[1] = a /\ <<a, b>>[2] = b
<1>1. <<b>> \in Seq(S) /\ <<a>> \in Seq(S) /\ <<a, b>> \in Seq(S)
    OBVIOUS
<1>2. <<>> \o <<b>> = <<b>>
    BY <1>1, ConcatEmptySeq
<1>3. <<a>> \o <<b>> = <<a, b>>
    <2>1. <<a, b>> = Append(<<a>>, b)
        OBVIOUS
    <2>2. Append(<<a>>, b) = <<a>> \o <<b>>
        BY <1>1, AppendIsConcat
    <2> QED
        BY <2>1, <2>2
<1> QED
    BY <1>1, <1>2, <1>3

LEMMA LargestOfNumbered ==
    ASSUME transcript \in Seq(TranscriptRows),
           \A i \in DOMAIN transcript : transcript[i].number = i - 1
    PROVE  LargestNumber + 1 = Len(transcript)
<1>1. Len(transcript) \in Nat /\ DOMAIN transcript = 1..Len(transcript)
    BY LenProperties
<1>2. CASE transcript = <<>>
    BY <1>2 DEF LargestNumber
<1>3. CASE transcript # <<>>
    <2> DEFINE numbers == {transcript[i].number : i \in DOMAIN transcript}
               last == Len(transcript) - 1
    <2>1. Len(transcript) # 0
        BY <1>3, EmptySeq
    <2>2. numbers = 0..last
        <3>1. \A i \in DOMAIN transcript : transcript[i].number \in 0..last
            BY <1>1
        <3>2. ASSUME NEW n \in 0..last PROVE n \in numbers
            <4>1. n + 1 \in DOMAIN transcript /\ transcript[n + 1].number = n
                BY <1>1
            <4> QED
                BY <4>1
        <3> QED
            BY <3>1, <3>2
    <2> DEFINE Largest(n) == \A m \in numbers : m <= n
               top == CHOOSE n \in numbers : Largest(n)
    <2>3. LargestNumber = top
        BY <1>3 DEF LargestNumber
    <2> HIDE DEF numbers
    <2>4. last \in numbers /\ Largest(last)
        BY <1>1, <2>1, <2>2
    <2>5. top \in numbers /\ Largest(top)
        BY <2>4
    <2>6. top = last
        BY <1>1, <2>2, <2>4, <2>5
    <2>7. LargestNumber = Len(transcript) - 1
        BY <2>3, <2>6, Zenon
    <2> HIDE DEF top, Largest, last
    <2> QED
        BY <1>1, <2>7
<1> QED
    BY <1>2, <1>3

\* The conversation is a sequence of lines, and the test for it is sound.
LEMMA HistoryIsASeq ==
    ASSUME TypeOK
    PROVE  /\ History \in Seq(Lines)
           /\ Len(History) \in Nat /\ DOMAIN History = 1..Len(History)
           /\ \A i \in DOMAIN History : /\ History[i] \in Lines
                                        /\ History[i].by \in Calls
                                        /\ History[i].role \in Roles
<1>1. History \in Seq(Lines)
    BY DEF TypeOK, History
<1>2. \A i \in DOMAIN History : History[i] \in Lines
    BY <1>1, ElementOfSeq, LenProperties
<1> QED
    BY <1>1, <1>2, LenProperties DEF Lines

LEMMA RemembersWhat ==
    ASSUME NEW s \in Seq(Lines), memory' = s
    PROVE  History' = s
BY NoMemoryAssumption DEF History, Lines, Roles

-----------------------------------------------------------------------------
(* What the closing calls leave of the messages' part, and the other way round *)

MessagePart ==
    /\ LockDiscipline
    /\ BufferIsNext
    /\ TranscriptIsOrdered
    /\ MemoryIsOfCalls
    /\ MemoryIsAccountedFor
    /\ FirstIsEmpty
    /\ OpeningLeads

CloserPart == ClosersAreLate /\ EvaluationCoversTheCall

LEMMA MessagesUndisturbed ==
    ASSUME IInv, UNCHANGED <<script, transcript, lock, memory, call>>,
           status' \in {status, "completed"}, fallback \subseteq fallback'
    PROVE  MessagePart'
<1> USE DEF IInv
<1>1. UNCHANGED <<History, LargestNumber>>
    BY DEF History, LargestNumber
<1>2. LockDiscipline'
    BY DEF LockDiscipline
<1>3. BufferIsNext' /\ MemoryIsOfCalls'
    BY <1>1 DEF BufferIsNext, MemoryIsOfCalls, AgentPart, Whole
<1>4. TranscriptIsOrdered'
    BY DEF TranscriptIsOrdered
<1>5. MemoryIsAccountedFor'
    BY <1>1 DEF MemoryIsAccountedFor
<1>6. FirstIsEmpty' /\ OpeningLeads'
    BY <1>1 DEF FirstIsEmpty, OpeningLeads
<1> QED
    BY <1>2, <1>3, <1>4, <1>5, <1>6 DEF MessagePart

LEMMA ClosersUndisturbed ==
    ASSUME IInv, UNCHANGED <<firstEnd, artifacts, closer>>,
           status' \in {status, "active"},
           Len(transcript') \in Nat, Len(transcript') >= Len(transcript)
    PROVE  CloserPart'
BY LenProperties
DEF IInv, TypeOK, CloserPart, ClosersAreLate, EvaluationCoversTheCall, None

LEMMA InitialInvariant == Init => IInv
<1> SUFFICES ASSUME Init PROVE IInv
    OBVIOUS
<1> USE NoOneAssumption, AttemptsAssumption DEF Init, None
<1>1. History = <<>>
    BY DEF History
<1>2. TypeOK
    BY DEF TypeOK, CallState, CloserState, IdleCall, IdleCloser
<1>3. LockDiscipline /\ BufferIsNext
    BY DEF LockDiscipline, BufferIsNext, IdleCall, Holding
<1>4. TranscriptIsOrdered /\ MemoryIsOfCalls /\ MemoryIsAccountedFor
    BY <1>1 DEF TranscriptIsOrdered, MemoryIsOfCalls, MemoryIsAccountedFor
<1>5. FirstIsEmpty /\ OpeningLeads
    BY <1>1 DEF FirstIsEmpty, OpeningLeads, IdleCall
<1>6. ClosersAreLate /\ EvaluationCoversTheCall
    BY DEF ClosersAreLate, EvaluationCoversTheCall, IdleCloser
<1> QED
    BY <1>2, <1>3, <1>4, <1>5, <1>6 DEF IInv

-----------------------------------------------------------------------------
(* A message call's steps *)

\* Whoever is between taking the lock and leaving is alone there.
LEMMA Alone ==
    ASSUME LockDiscipline, NEW c \in Calls, call[c].pc \in Holding
    PROVE  /\ lock = c
           /\ \A d \in Calls : call[d].pc \in Holding => d = c
BY DEF LockDiscipline

\* A call that has not answered is not in memory.
LEMMA Unremembered ==
    ASSUME MemoryIsOfCalls, NEW c \in Calls, call[c].pc \notin {"reply", "done"}
    PROVE  \A i \in DOMAIN History : History[i].by # c
BY DEF MemoryIsOfCalls

\* A call moves on without leaving, answering, or touching table and memory.
LEMMA Quietly ==
    ASSUME IInv, NEW c \in Calls, TypeOK',
           UNCHANGED <<script, transcript, History>>,
           fallback \subseteq fallback',
           \A d \in Calls \ {c} : call'[d] = call[d],
           call[c].pc \notin {"reply", "done"}
    PROVE  TranscriptIsOrdered' /\ MemoryIsOfCalls' /\ MemoryIsAccountedFor'
           /\ OpeningLeads' /\ History' = History
<1> USE DEF IInv
<1>1. History' = History
    OBVIOUS
<1>2. \A i \in DOMAIN History : History[i].by \in Calls \ {c}
    BY Unremembered, HistoryIsASeq
<1>3. TranscriptIsOrdered' /\ OpeningLeads'
    BY <1>1 DEF TranscriptIsOrdered, OpeningLeads
<1>4. MemoryIsOfCalls'
    BY <1>1, <1>2 DEF MemoryIsOfCalls, Whole, AgentPart
<1>5. MemoryIsAccountedFor'
    BY <1>1, <1>2 DEF MemoryIsAccountedFor
<1> QED
    BY <1>1, <1>3, <1>4, <1>5

\* Only the table's length and the holder's own flags tell what a buffer holds.
LEMMA BuffersElsewhere ==
    ASSUME BufferIsNext, NEW c \in Calls, UNCHANGED transcript,
           \A d \in Calls \ {c} : call'[d] = call[d],
           call'[c].pc \notin {"turn", "reply"}
    PROVE  BufferIsNext'
<1> SUFFICES ASSUME NEW d \in Calls, call'[d].pc \in {"turn", "reply"}
             PROVE  /\ call'[d].pc = "turn" => call'[d].buffer = AgentPart(d)'
                    /\ call'[d].pc = "reply" =>
                          \E role \in Roles \ {"agent"} :
                              call'[d].buffer = Whole(d, role)'
    BY DEF BufferIsNext
<1>1. call'[d] = call[d]
    OBVIOUS
<1>2. AgentPart(d)' = AgentPart(d)
    BY <1>1 DEF AgentPart
<1>3. \A role : Whole(d, role)' = Whole(d, role)
    BY <1>2 DEF Whole
<1> QED
    BY <1>1, <1>2, <1>3 DEF BufferIsNext

LEMMA SendMessageStep ==
    ASSUME IInv, NEW c \in Calls, NEW system \in BOOLEAN, SendMessage(c, system)
    PROVE  IInv'
<1> USE DEF IInv, SendMessage
<1>1. TypeOK'
    BY DEF TypeOK, CallState, db
<1>2. CloserPart'
    BY <1>1, ClosersUndisturbed, LenProperties DEF db, TypeOK
<1>3. /\ call'[c].pc = "waiting"
      /\ \A d \in Calls \ {c} : call'[d] = call[d]
    BY DEF TypeOK, CallState
<1>4. TranscriptIsOrdered' /\ MemoryIsOfCalls' /\ MemoryIsAccountedFor'
      /\ OpeningLeads' /\ History' = History
    BY <1>1, <1>3, Quietly DEF db, History
<1>5. LockDiscipline'
    BY <1>3 DEF LockDiscipline, Holding
<1>6. BufferIsNext'
    BY <1>3, BuffersElsewhere DEF db
<1>7. FirstIsEmpty'
    BY <1>3, <1>4 DEF FirstIsEmpty, db
<1> QED
    BY <1>1, <1>2, <1>4, <1>5, <1>6, <1>7 DEF CloserPart

\* The local states a call moves to.
LEMMA LocalStates ==
    ASSUME TypeOK, NEW c \in Calls
    PROVE  /\ [IdleCall EXCEPT !.pc = "done"] \in CallState
           /\ call[c] \in CallState
           /\ \A new \in CallState :
                 call' = [call EXCEPT ![c] = new] =>
                     /\ call' \in [Calls -> CallState]
                     /\ call'[c] = new
                     /\ \A d \in Calls \ {c} : call'[d] = call[d]
<1>1. [IdleCall EXCEPT !.pc = "done"] \in CallState
    BY EmptySeq DEF IdleCall, CallState
<1>2. call \in [Calls -> CallState]
    BY DEF TypeOK
<1> QED
    BY <1>1, <1>2

\* The call gives the lock back and leaves, with nothing stored or lost.
LEMMA LeavingStep ==
    ASSUME IInv, NEW c \in Calls, Leave(c),
           call[c].pc \in {"waiting", "turn"}, call[c].pc = "waiting" => lock = NoOne,
           UNCHANGED <<db, memory, fallback, closer>>
    PROVE  IInv'
<1> USE DEF IInv
<1>1. /\ call' \in [Calls -> CallState]
      /\ call'[c] = [IdleCall EXCEPT !.pc = "done"]
      /\ \A d \in Calls \ {c} : call'[d] = call[d]
    BY LocalStates DEF Leave
<1>2. call'[c].pc = "done"
    BY <1>1 DEF IdleCall
<1>3. lock' = NoOne
    BY DEF Leave
<1>4. TypeOK'
    BY <1>1, <1>3 DEF TypeOK, db
<1>5. CloserPart'
    BY <1>4, ClosersUndisturbed, LenProperties DEF db, TypeOK
<1>6. TranscriptIsOrdered' /\ MemoryIsOfCalls' /\ MemoryIsAccountedFor'
      /\ OpeningLeads' /\ History' = History
    BY <1>4, <1>1, Quietly DEF db, History
<1>7. LockDiscipline'
    BY <1>1, <1>2, <1>3, NoOneAssumption DEF LockDiscipline, Holding
<1>8. BufferIsNext'
    BY <1>1, <1>2, BuffersElsewhere DEF db
<1>9. FirstIsEmpty'
    BY <1>1, <1>2, <1>6 DEF FirstIsEmpty, db
<1> QED
    BY <1>4, <1>5, <1>6, <1>7, <1>8, <1>9 DEF CloserPart

LEMMA TakeTurnStep ==
    ASSUME IInv, NEW c \in Calls, TakeTurn(c)
    PROVE  IInv'
<1> USE DEF IInv
<1> DEFINE new == [call[c] EXCEPT
                      !.pc = IF status = "pending" THEN "activating" ELSE "loading",
                      !.first = (status = "pending")]
<1>1. new \in CallState
    BY LocalStates DEF CallState
<1>2. /\ new.pc = IF status = "pending" THEN "activating" ELSE "loading"
      /\ new.first <=> status = "pending"
    BY LocalStates DEF CallState
<1>3. call' = [call EXCEPT ![c] = new]
    BY DEF TakeTurn
<1> HIDE DEF new
<1>4. /\ call' \in [Calls -> CallState]
      /\ call'[c] = new
      /\ \A d \in Calls \ {c} : call'[d] = call[d]
    BY <1>1, <1>3, LocalStates
<1>5. /\ UNCHANGED <<script, status, firstEnd, transcript, artifacts, memory,
                     fallback, closer>>
      /\ call[c].pc = "waiting" /\ lock = NoOne /\ lock' = c
    BY DEF TakeTurn, db
<1>6. TypeOK'
    BY <1>4, <1>5 DEF TypeOK
<1>7. CloserPart'
    BY <1>5, <1>6, ClosersUndisturbed, LenProperties DEF TypeOK
<1>8. TranscriptIsOrdered' /\ MemoryIsOfCalls' /\ MemoryIsAccountedFor'
      /\ OpeningLeads' /\ History' = History
    BY <1>4, <1>5, <1>6, Quietly DEF History
<1>9. LockDiscipline'
    BY <1>2, <1>4, <1>5, NoOneAssumption DEF LockDiscipline, Holding
<1>10. BufferIsNext'
    BY <1>2, <1>4, <1>5, BuffersElsewhere
<1>11. FirstIsEmpty'
    BY <1>2, <1>4, <1>5, <1>8 DEF FirstIsEmpty
<1> QED
    BY <1>6, <1>7, <1>8, <1>9, <1>10, <1>11 DEF CloserPart

LEMMA ActivateStep ==
    ASSUME IInv, NEW c \in Calls, Activate(c)
    PROVE  IInv'
<1> USE DEF IInv, Activate
<1>1. TypeOK'
    BY DEF TypeOK, CallState
<1>2. CloserPart'
    BY <1>1, ClosersUndisturbed, LenProperties DEF TypeOK
<1>3. /\ call'[c].pc = "loading" /\ call'[c].first = call[c].first
      /\ \A d \in Calls \ {c} : call'[d] = call[d]
    BY DEF TypeOK, CallState
<1>4. TranscriptIsOrdered' /\ MemoryIsOfCalls' /\ MemoryIsAccountedFor'
      /\ OpeningLeads' /\ History' = History
    BY <1>1, <1>3, Quietly DEF History
<1>5. LockDiscipline'
    BY <1>3 DEF LockDiscipline, Holding
<1>6. BufferIsNext'
    BY <1>3, BuffersElsewhere
<1>7. FirstIsEmpty'
    BY <1>3, <1>4 DEF FirstIsEmpty
<1> QED
    BY <1>1, <1>2, <1>4, <1>5, <1>6, <1>7 DEF CloserPart

\* The agent's line is numbered from the table.
LEMMA AgentPartIsNext ==
    ASSUME TypeOK, TranscriptIsOrdered, NEW c \in Calls
    PROVE  /\ AppendEntry(<<>>, c, "agent") = <<Row(Len(transcript), c, "agent")>>
           /\ AgentPart(c) \in Seq(TranscriptRows)
           /\ \A role \in Roles :
                 /\ AppendEntry(AgentPart(c), c, role) = Whole(c, role)
                 /\ Whole(c, role) \in Seq(TranscriptRows)
<1>1. LargestNumber + 1 = Len(transcript)
    BY LargestOfNumbered DEF TypeOK, TranscriptIsOrdered
<1>2. Len(transcript) \in Nat
    BY LenProperties DEF TypeOK
<1> DEFINE n == Len(transcript)
           agents == Row(n, c, "agent")
<1>3. \A m \in Nat, role \in Roles : Row(m, c, role) \in TranscriptRows
    BY DEF Row, Line, TranscriptRows, Lines
<1>4. agents \in TranscriptRows /\ agents.number = n
    BY <1>2, <1>3 DEF Row, Roles
<1>5. AppendEntry(<<>>, c, "agent") = <<agents>>
    BY <1>1 DEF AppendEntry, NextNumber
<1>6. AgentPart(c) = <<>> \/ AgentPart(c) = <<agents>>
    BY DEF AgentPart
<1> HIDE DEF agents
<1>7. <<agents>> \in Seq(TranscriptRows) /\ Len(<<agents>>) = 1
      /\ <<agents>>[1] = agents /\ <<agents>> # <<>>
    BY <1>4
<1>8. AgentPart(c) \in Seq(TranscriptRows)
    BY <1>6, <1>7, EmptySeq
<1>9. NextNumber(AgentPart(c)) = n + Len(AgentPart(c))
      /\ n + Len(AgentPart(c)) \in Nat
    <2>1. CASE AgentPart(c) = <<>>
        BY <1>1, <1>2, <2>1, EmptySeq DEF NextNumber
    <2>2. CASE AgentPart(c) = <<agents>>
        BY <1>2, <1>4, <1>7, <2>2 DEF NextNumber
    <2> QED
        BY <1>6, <2>1, <2>2
<1>10. ASSUME NEW role \in Roles
       PROVE  /\ AppendEntry(AgentPart(c), c, role) = Whole(c, role)
              /\ Whole(c, role) \in Seq(TranscriptRows)
    BY <1>3, <1>8, <1>9, Appended DEF AppendEntry, Whole
<1> QED
    BY <1>5, <1>8, <1>10 DEF agents

LEMMA BeginTurnStep ==
    ASSUME IInv, NEW c \in Calls, BeginTurn(c)
    PROVE  IInv'
<1> USE DEF IInv
<1> DEFINE new == [call[c] EXCEPT !.pc = "turn",
                                  !.first = @ \/ History = <<>>,
                                  !.buffer = AgentPart(c)]
<1>1. /\ UNCHANGED <<script, status, firstEnd, transcript, artifacts, lock,
                     fallback, closer>>
      /\ call[c].pc = "loading" /\ memory' = History
    BY DEF BeginTurn, db
<1>2. call' = [call EXCEPT ![c] = new]
    BY AgentPartIsNext DEF BeginTurn, AgentPart
<1>3. new \in CallState
    BY LocalStates, AgentPartIsNext DEF CallState
<1>4. /\ new.pc = "turn" /\ new.buffer = AgentPart(c)
      /\ new.system = call[c].system
      /\ new.first <=> call[c].first \/ History = <<>>
    BY LocalStates DEF CallState
<1> HIDE DEF new
<1>5. /\ call' \in [Calls -> CallState]
      /\ call'[c] = new
      /\ \A d \in Calls \ {c} : call'[d] = call[d]
    BY <1>2, <1>3, LocalStates
<1>6. History \in Seq(Lines) /\ History' = History
    BY <1>1, HistoryIsASeq, RemembersWhat
<1>7. TypeOK'
    BY <1>1, <1>5, <1>6 DEF TypeOK
<1>8. CloserPart'
    BY <1>1, <1>7, ClosersUndisturbed, LenProperties DEF TypeOK
<1>9. TranscriptIsOrdered' /\ MemoryIsOfCalls' /\ MemoryIsAccountedFor'
      /\ OpeningLeads'
    BY <1>1, <1>5, <1>6, <1>7, Quietly
<1>10. LockDiscipline'
    BY <1>1, <1>4, <1>5 DEF LockDiscipline, Holding
<1>11. BufferIsNext'
    <2>1. \A d \in Calls \ {c} : call[d].pc \notin {"turn", "reply"}
        BY <1>1, Alone DEF Holding
    <2>2. AgentPart(c)' = AgentPart(c)
        BY <1>1, <1>4, <1>5 DEF AgentPart
    <2> QED
        BY <1>4, <1>5, <2>1, <2>2 DEF BufferIsNext
<1>12. FirstIsEmpty'
    BY <1>1, <1>4, <1>5, <1>6 DEF FirstIsEmpty
<1> QED
    BY <1>7, <1>8, <1>9, <1>10, <1>11, <1>12 DEF CloserPart

\* The debtor's line completes the buffered turn.
LEMMA Replying ==
    ASSUME IInv, NEW c \in Calls, call[c].pc = "turn",
           NEW role \in Roles \ {"agent"}, NEW ends \in BOOLEAN, Reply(c, role, ends),
           UNCHANGED <<transcript, lock>>
    PROVE  /\ call' \in [Calls -> CallState]
           /\ call'[c].pc = "reply"
           /\ call'[c].buffer = Whole(c, role)
           /\ Whole(c, role)' = Whole(c, role)
           /\ \A d \in Calls \ {c} : call'[d] = call[d]
           /\ LockDiscipline' /\ BufferIsNext'
<1> USE DEF IInv
<1> DEFINE new == [call[c] EXCEPT !.pc = "reply", !.ends = ends,
                                  !.buffer = Whole(c, role)]
<1>1. call[c].buffer = AgentPart(c)
    BY DEF BufferIsNext
<1>2. call' = [call EXCEPT ![c] = new]
    BY <1>1, AgentPartIsNext DEF Reply
<1>3. new \in CallState
    BY LocalStates, AgentPartIsNext DEF CallState
<1>4. /\ new.pc = "reply" /\ new.buffer = Whole(c, role)
      /\ new.system = call[c].system
    BY LocalStates DEF CallState
<1> HIDE DEF new
<1>5. /\ call' \in [Calls -> CallState]
      /\ call'[c] = new
      /\ \A d \in Calls \ {c} : call'[d] = call[d]
    BY <1>2, <1>3, LocalStates
<1>6. AgentPart(c)' = AgentPart(c)
    BY <1>4, <1>5 DEF AgentPart
<1>7. Whole(c, role)' = Whole(c, role)
    BY <1>6 DEF Whole
<1>8. LockDiscipline'
    BY <1>4, <1>5 DEF LockDiscipline, Holding
<1>9. BufferIsNext'
    <2>1. \A d \in Calls \ {c} : call[d].pc \notin {"turn", "reply"}
        BY Alone DEF Holding
    <2> QED
        BY <1>4, <1>5, <1>7, <2>1 DEF BufferIsNext
<1> QED
    BY <1>4, <1>5, <1>7, <1>8, <1>9

\* The conversation goes on.
LEMMA Extended ==
    ASSUME TypeOK, NEW part \in Seq(Lines), History' = History \o part
    PROVE  /\ Len(History) \in Nat /\ Len(part) \in Nat
           /\ DOMAIN History = 1..Len(History) /\ DOMAIN part = 1..Len(part)
           /\ DOMAIN History' = 1..Len(History)+Len(part)
           /\ \A i \in 1..Len(History) : History'[i] = History[i]
           /\ \A i \in 1..Len(part) : History'[Len(History) + i] = part[i]
BY HistoryIsASeq, Joined, LenProperties

\* The debtor remembers lines of the turn about to be stored.
LEMMA Remembering ==
    ASSUME IInv, NEW c \in Calls, call[c].pc = "turn",
           NEW role \in Roles \ {"agent"}, NEW part \in Seq(Lines),
           \A i \in DOMAIN part : part[i] \in {Line(c, "agent"), Line(c, role)},
           History' = History \o part,
           call'[c].pc = "reply", call'[c].buffer = Whole(c, role),
           Whole(c, role)' = Whole(c, role),
           \A d \in Calls \ {c} : call'[d] = call[d],
           UNCHANGED <<transcript, fallback>>
    PROVE  TranscriptIsOrdered' /\ MemoryIsOfCalls' /\ MemoryIsAccountedFor'
<1> USE DEF IInv
<1>1. TranscriptIsOrdered'
    BY DEF TranscriptIsOrdered
<1>2. /\ Len(History) \in Nat /\ Len(part) \in Nat
      /\ DOMAIN History = 1..Len(History) /\ DOMAIN part = 1..Len(part)
      /\ DOMAIN History' = 1..Len(History)+Len(part)
      /\ \A i \in 1..Len(History) : History'[i] = History[i]
      /\ \A i \in 1..Len(part) : History'[Len(History) + i] = part[i]
    BY Extended
<1>3. ASSUME NEW i \in DOMAIN History'
      PROVE  \/ i \in DOMAIN History /\ History'[i] = History[i]
             \/ History'[i] \in {Line(c, "agent"), Line(c, role)}
    <2>1. CASE i <= Len(History)
        BY <1>2, <2>1
    <2>2. CASE ~(i <= Len(History))
        <3>1. i - Len(History) \in 1..Len(part)
              /\ Len(History) + (i - Len(History)) = i
            BY <1>2, <2>2
        <3> QED
            BY <1>2, <3>1
    <2> QED
        BY <2>1, <2>2
<1>4. \A i \in DOMAIN History : History[i].by \in Calls \ {c}
    BY Unremembered, HistoryIsASeq
<1>5. /\ \A r : Line(c, r).by = c /\ Line(c, r).role = r
    BY DEF Line
<1>6. \A d \in Calls \ {c} : \A r : Whole(d, r)' = Whole(d, r)
    BY DEF Whole, AgentPart
<1>7. MemoryIsOfCalls'
    <2> SUFFICES ASSUME NEW i \in DOMAIN History', NEW line, line = History'[i]
                 PROVE  /\ call'[line.by].pc \in {"reply", "done"}
                        /\ call'[line.by].pc = "reply" /\ line.role # "agent" =>
                              call'[line.by].buffer = Whole(line.by, line.role)'
        BY DEF MemoryIsOfCalls
    <2>1. CASE i \in DOMAIN History /\ line = History[i]
        <3>1. line.by \in Calls \ {c} /\ call'[line.by] = call[line.by]
            BY <1>4, <2>1
        <3> QED
            BY <1>6, <2>1, <3>1 DEF MemoryIsOfCalls
    <2>2. CASE line \in {Line(c, "agent"), Line(c, role)}
        BY <1>5, <2>2
    <2> QED
        BY <1>3, <2>1, <2>2
<1>8. MemoryIsAccountedFor'
    <2> SUFFICES ASSUME NEW i \in DOMAIN History', History'[i].role # "agent"
                 PROVE  \/ \E j \in DOMAIN transcript :
                              transcript[j].line = History'[i]
                        \/ call'[History'[i].by].pc = "reply"
                        \/ History'[i].by \in fallback
        BY DEF MemoryIsAccountedFor
    <2>1. CASE i \in DOMAIN History /\ History'[i] = History[i]
        BY <1>4, <2>1 DEF MemoryIsAccountedFor
    <2>2. CASE History'[i] \in {Line(c, "agent"), Line(c, role)}
        BY <1>5, <2>2
    <2> QED
        BY <1>3, <2>1, <2>2
<1> QED
    BY <1>1, <1>7, <1>8

\* The script answers instead of the simulator: memory stays as it is.
LEMMA EndByScriptStep ==
    ASSUME IInv, NEW c \in Calls, EndByScript(c)
    PROVE  IInv'
<1> USE DEF IInv
<1>1. /\ UNCHANGED <<script, status, firstEnd, transcript, artifacts, lock,
                     memory, fallback, closer>>
      /\ call[c].pc = "turn" /\ Reply(c, "debtor", TRUE)
    BY DEF EndByScript, db
<1>2. /\ call' \in [Calls -> CallState]
      /\ call'[c].pc = "reply"
      /\ \A d \in Calls \ {c} : call'[d] = call[d]
      /\ LockDiscipline' /\ BufferIsNext'
    BY <1>1, Replying DEF Roles
<1>3. TypeOK'
    BY <1>1, <1>2 DEF TypeOK
<1>4. CloserPart'
    BY <1>1, <1>3, ClosersUndisturbed, LenProperties DEF TypeOK
<1>5. TranscriptIsOrdered' /\ MemoryIsOfCalls' /\ MemoryIsAccountedFor'
      /\ OpeningLeads' /\ History' = History
    BY <1>1, <1>2, <1>3, Quietly DEF History
<1>6. FirstIsEmpty'
    BY <1>1, <1>2, <1>5 DEF FirstIsEmpty
<1> QED
    BY <1>2, <1>3, <1>4, <1>5, <1>6 DEF CloserPart

LEMMA RespondStep ==
    ASSUME IInv, NEW c \in Calls, NEW hangsUp \in BOOLEAN, Respond(c, hangsUp)
    PROVE  IInv'
<1> USE DEF IInv
<1> DEFINE part == <<Line(c, "agent"), Line(c, "debtor")>>
<1>1. /\ UNCHANGED <<script, status, firstEnd, transcript, artifacts, lock,
                     fallback, closer>>
      /\ call[c].pc = "turn" /\ Reply(c, "debtor", hangsUp)
      /\ ~DueOpening(c) /\ memory' = History \o part
    BY DEF Respond, db
<1>2. /\ part \in Seq(Lines) /\ Len(part) = 2
      /\ part[1] = Line(c, "agent") /\ part[2] = Line(c, "debtor")
      /\ DOMAIN part = 1..2
    BY DEF Line, Lines, Roles
<1>3. \A i \in DOMAIN part : part[i] \in {Line(c, "agent"), Line(c, "debtor")}
    BY <1>2
<1> HIDE DEF part
<1>4. /\ call' \in [Calls -> CallState]
      /\ call'[c].pc = "reply"
      /\ call'[c].buffer = Whole(c, "debtor")
      /\ Whole(c, "debtor")' = Whole(c, "debtor")
      /\ \A d \in Calls \ {c} : call'[d] = call[d]
      /\ LockDiscipline' /\ BufferIsNext'
    BY <1>1, Replying DEF Roles
<1>5. History \o part \in Seq(Lines) /\ History' = History \o part
    BY <1>1, <1>2, HistoryIsASeq, Joined, RemembersWhat
<1>6. TypeOK'
    BY <1>1, <1>4, <1>5 DEF TypeOK
<1>7. CloserPart'
    BY <1>1, <1>6, ClosersUndisturbed, LenProperties DEF TypeOK
<1>8. TranscriptIsOrdered' /\ MemoryIsOfCalls' /\ MemoryIsAccountedFor'
    BY <1>1, <1>2, <1>3, <1>4, <1>5, Remembering DEF Roles
<1>9. /\ Len(History) \in Nat /\ DOMAIN History = 1..Len(History)
      /\ DOMAIN History' = 1..Len(History)+2
      /\ \A i \in 1..Len(History) : History'[i] = History[i]
      /\ History'[Len(History) + 1] = Line(c, "agent")
      /\ History'[Len(History) + 2] = Line(c, "debtor")
    <2>1. /\ Len(History) \in Nat /\ DOMAIN History = 1..Len(History)
          /\ DOMAIN History' = 1..Len(History)+2
          /\ \A i \in 1..Len(History) : History'[i] = History[i]
          /\ \A i \in 1..2 : History'[Len(History) + i] = part[i]
        <3>1. part \in Seq(Lines) /\ Len(part) = 2
            BY <1>2
        <3> QED
            BY <1>5, <3>1, Extended
    <2> QED
        BY <1>2, <2>1
<1>10. script = "opening" => \E k \in DOMAIN History : History[k].role = "opening"
    <2>1. script = "opening" => History # <<>>
        BY <1>1 DEF DueOpening, FirstIsEmpty
    <2> QED
        BY <2>1 DEF FirstIsEmpty
<1>11. FirstIsEmpty'
    BY <1>1, <1>4, <1>9, <1>10, Alone DEF FirstIsEmpty, Holding
<1>12. OpeningLeads'
    <2> SUFFICES ASSUME script = "opening", NEW i \in DOMAIN History'
                 PROVE  History'[i].role = "opening" <=>
                            /\ History'[i].role # "agent"
                            /\ \A j \in 1..i-1 : History'[j].role = "agent"
        BY <1>1 DEF OpeningLeads
    <2>1. CASE i <= Len(History)
        BY <1>9, <2>1 DEF OpeningLeads
    <2>2. PICK k \in DOMAIN History : History[k].role = "opening"
        BY <1>10
    <2>3. CASE ~(i <= Len(History))
        <3>1. i = Len(History) + 1 \/ i = Len(History) + 2
            BY <1>9, <2>3
        <3>2. History'[i].role \in {"agent", "debtor"}
            BY <1>9, <3>1 DEF Line
        <3>3. k \in 1..i-1 /\ History'[k].role = "opening"
            BY <1>9, <2>2, <2>3
        <3> QED
            BY <3>2, <3>3
    <2> QED
        BY <2>1, <2>3
<1> QED
    BY <1>4, <1>6, <1>7, <1>8, <1>11, <1>12 DEF CloserPart

\* The scripted opening is delivered while nothing is remembered.
LEMMA DeliverOpeningStep ==
    ASSUME IInv, NEW c \in Calls, DeliverOpening(c)
    PROVE  IInv'
<1> USE DEF IInv
<1> DEFINE agents == IF call[c].system THEN <<>> ELSE <<Line(c, "agent")>>
           part == agents \o <<Line(c, "opening")>>
<1>1. /\ UNCHANGED <<script, status, firstEnd, transcript, artifacts, lock,
                     fallback, closer>>
      /\ call[c].pc = "turn" /\ Reply(c, "opening", FALSE)
      /\ DueOpening(c) /\ memory' = History \o agents \o <<Line(c, "opening")>>
    BY DEF DeliverOpening, db
<1>2. History = <<>>
    BY <1>1 DEF DueOpening, FirstIsEmpty
<1>3. /\ Line(c, "agent") \in Lines /\ Line(c, "opening") \in Lines
      /\ Line(c, "agent").role = "agent" /\ Line(c, "opening").role = "opening"
    BY DEF Line, Lines, Roles
<1>4. \/ part = <<Line(c, "opening")>>
      \/ part = <<Line(c, "agent"), Line(c, "opening")>>
    <2>1. <<>> \o <<Line(c, "opening")>> = <<Line(c, "opening")>>
        BY <1>3, Pairs
    <2>2. <<Line(c, "agent")>> \o <<Line(c, "opening")>>
              = <<Line(c, "agent"), Line(c, "opening")>>
        BY <1>3, Pairs
    <2> QED
        BY <2>1, <2>2, Zenon
<1>5. memory' = part
    BY <1>1, <1>2, <1>3
<1> HIDE DEF part
<1>6. /\ part \in Seq(Lines) /\ DOMAIN part = 1..Len(part)
      /\ Len(part) \in {1, 2}
      /\ part[Len(part)] = Line(c, "opening")
      /\ \A i \in 1..Len(part)-1 : part[i] = Line(c, "agent")
    <2>1. CASE part = <<Line(c, "opening")>>
        BY <1>3, <2>1
    <2>2. CASE part = <<Line(c, "agent"), Line(c, "opening")>>
        BY <1>3, <2>2
    <2> QED
        BY <1>4, <2>1, <2>2
<1>7. \A i \in DOMAIN part : part[i] \in {Line(c, "agent"), Line(c, "opening")}
    BY <1>6
<1>8. History' = part /\ History' = History \o part
    <2>1. History' = part
        BY <1>5, <1>6, RemembersWhat
    <2>2. <<>> \o part = part
        BY <1>6, ConcatEmptySeq
    <2> QED
        BY <1>2, <2>1, <2>2
<1>9. /\ call' \in [Calls -> CallState]
      /\ call'[c].pc = "reply"
      /\ call'[c].buffer = Whole(c, "opening")
      /\ Whole(c, "opening")' = Whole(c, "opening")
      /\ \A d \in Calls \ {c} : call'[d] = call[d]
      /\ LockDiscipline' /\ BufferIsNext'
    BY <1>1, Replying DEF Roles
<1>10. TypeOK'
    BY <1>1, <1>5, <1>6, <1>9 DEF TypeOK
<1>11. CloserPart'
    BY <1>1, <1>10, ClosersUndisturbed, LenProperties DEF TypeOK
<1>12. TranscriptIsOrdered' /\ MemoryIsOfCalls' /\ MemoryIsAccountedFor'
    BY <1>1, <1>6, <1>7, <1>8, <1>9, Remembering DEF Roles
<1>13. FirstIsEmpty'
    <2>1. \E i \in DOMAIN part : part[i].role = "opening"
        BY <1>3, <1>6
    <2> QED
        BY <1>1, <1>8, <1>9, <2>1, Alone DEF FirstIsEmpty, Holding
<1>14. OpeningLeads'
    <2> SUFFICES ASSUME NEW i \in DOMAIN part
                 PROVE  part[i].role = "opening" <=>
                            /\ part[i].role # "agent"
                            /\ \A j \in 1..i-1 : part[j].role = "agent"
        BY <1>8 DEF OpeningLeads
    <2>1. CASE i = Len(part)
        BY <1>3, <1>6, <2>1
    <2>2. CASE i \in 1..Len(part)-1
        BY <1>3, <1>6, <2>2
    <2> QED
        BY <1>6, <2>1, <2>2
<1> QED
    BY <1>9, <1>10, <1>11, <1>12, <1>13, <1>14 DEF CloserPart

\* A call that has answered leaves: its lines stay accounted for if they are
\* stored or kept in the fallback store.
LEMMA AnsweredLeaves ==
    ASSUME IInv, NEW c \in Calls, call[c].pc = "reply", Leave(c),
           History' \in {History, <<>>},
           UNCHANGED <<script, status>>, fallback \subseteq fallback',
           \/ UNCHANGED transcript /\ c \in fallback'
           \/ /\ \A i \in DOMAIN transcript :
                    i \in DOMAIN transcript' /\ transcript'[i] = transcript[i]
              /\ \A i \in DOMAIN History :
                    History[i].by = c /\ History[i].role # "agent" =>
                        \E j \in DOMAIN transcript' :
                            transcript'[j].line = History[i]
    PROVE  /\ call' \in [Calls -> CallState] /\ lock' = NoOne
           /\ LockDiscipline' /\ BufferIsNext'
           /\ MemoryIsOfCalls' /\ MemoryIsAccountedFor'
           /\ FirstIsEmpty' /\ OpeningLeads'
<1> USE DEF IInv
<1>1. /\ call' \in [Calls -> CallState]
      /\ call'[c] = [IdleCall EXCEPT !.pc = "done"]
      /\ \A d \in Calls \ {c} : call'[d] = call[d]
    BY LocalStates DEF Leave
<1>2. call'[c].pc = "done" /\ lock' = NoOne
    BY <1>1 DEF IdleCall, Leave
<1>4. \A d \in Calls : call'[d].pc \notin Holding
    BY <1>1, <1>2, Alone DEF Holding
<1>5. LockDiscipline' /\ BufferIsNext'
    BY <1>2, <1>4, NoOneAssumption DEF LockDiscipline, BufferIsNext, Holding
<1>6. CASE History' = History
    <2>1. \A i \in DOMAIN History : History[i].by \in Calls
        BY HistoryIsASeq
    <2>2. MemoryIsOfCalls'
        BY <1>1, <1>2, <1>4, <1>6, <2>1 DEF MemoryIsOfCalls, Holding
    <2>3. MemoryIsAccountedFor'
        BY <1>1, <1>6, <2>1 DEF MemoryIsAccountedFor
    <2>4. FirstIsEmpty' /\ OpeningLeads'
        BY <1>4, <1>6 DEF FirstIsEmpty, OpeningLeads, Holding
    <2> QED
        BY <1>1, <1>2, <1>5, <2>2, <2>3, <2>4
<1>7. CASE History' = <<>>
    <2>1. DOMAIN <<>> = {}
        OBVIOUS
    <2>2. MemoryIsOfCalls' /\ MemoryIsAccountedFor' /\ OpeningLeads'
        BY <1>7, <2>1 DEF MemoryIsOfCalls, MemoryIsAccountedFor, OpeningLeads
    <2>3. FirstIsEmpty'
        BY <1>4, <1>7 DEF FirstIsEmpty, Holding
    <2> QED
        BY <1>1, <1>2, <1>5, <2>2, <2>3
<1> QED
    BY <1>6, <1>7

LEMMA LoseTurnStep ==
    ASSUME IInv, NEW c \in Calls, LoseTurn(c)
    PROVE  IInv'
<1> USE DEF IInv
<1>1. /\ UNCHANGED <<script, status, firstEnd, transcript, artifacts, memory,
                     closer>>
      /\ call[c].pc = "reply" /\ Leave(c) /\ fallback' = fallback \cup {c}
    BY DEF LoseTurn, db
<1>2. /\ call' \in [Calls -> CallState] /\ lock' = NoOne
      /\ LockDiscipline' /\ BufferIsNext'
      /\ MemoryIsOfCalls' /\ MemoryIsAccountedFor'
      /\ FirstIsEmpty' /\ OpeningLeads'
    BY <1>1, AnsweredLeaves DEF History
<1>3. TypeOK'
    BY <1>1, <1>2 DEF TypeOK
<1>4. CloserPart'
    BY <1>1, <1>3, ClosersUndisturbed, LenProperties DEF TypeOK
<1>5. TranscriptIsOrdered'
    BY <1>1 DEF TranscriptIsOrdered
<1> QED
    BY <1>2, <1>3, <1>4, <1>5 DEF CloserPart

\* The stored table goes on with the whole turn.
LEMMA TurnIsStored ==
    ASSUME IInv, NEW c \in Calls, NEW role \in Roles \ {"agent"},
           transcript' = transcript \o Whole(c, role)
    PROVE  /\ transcript' \in Seq(TranscriptRows) /\ TranscriptIsOrdered'
           /\ Len(transcript') \in Nat /\ Len(transcript') >= Len(transcript)
           /\ \A i \in DOMAIN transcript :
                 i \in DOMAIN transcript' /\ transcript'[i] = transcript[i]
           /\ \E j \in DOMAIN transcript' : transcript'[j].line = Line(c, role)
<1> USE DEF IInv
<1> DEFINE n == Len(transcript)
           k == Len(AgentPart(c))
           debtors == Row(n + k, c, role)
           whole == Whole(c, role)
<1>1. transcript \in Seq(TranscriptRows) /\ whole \in Seq(TranscriptRows)
      /\ AgentPart(c) \in Seq(TranscriptRows)
    BY AgentPartIsNext DEF TypeOK
<1>2. n \in Nat /\ k \in {0, 1} /\ DOMAIN transcript = 1..n
    BY <1>1, LenProperties DEF AgentPart
<1>3. k = 1 => AgentPart(c)[1] = Row(n, c, "agent")
    BY DEF AgentPart
<1>4. \A m, r : /\ Row(m, c, r).number = m
                /\ Row(m, c, r).line = Line(c, r)
                /\ Line(c, r).by = c /\ Line(c, r).role = r
    BY DEF Row, Line
<1>5. /\ Len(whole) = k + 1
      /\ \A i \in 1..k : whole[i] = AgentPart(c)[i]
      /\ whole[k + 1] = debtors
    <2>1. debtors \in TranscriptRows
        BY <1>2 DEF Row, Line, TranscriptRows, Lines
    <2> QED
        BY <1>1, <2>1, Appended DEF Whole
<1> HIDE DEF whole, k, debtors
<1>6. /\ transcript' \in Seq(TranscriptRows)
      /\ Len(transcript') = n + k + 1
      /\ DOMAIN transcript' = 1..n+k+1
      /\ \A i \in 1..n : transcript'[i] = transcript[i]
      /\ \A i \in 1..k+1 : transcript'[n + i] = whole[i]
    <2>1. transcript' = transcript \o whole
        BY DEF whole
    <2> QED
        BY <1>1, <1>2, <1>5, <2>1, Joined
<1>7. /\ k = 1 => transcript'[n + 1] = Row(n, c, "agent")
      /\ transcript'[n + k + 1] = Row(n + k, c, role)
    <2>1. k = 1 => transcript'[n + 1] = whole[1] /\ whole[1] = AgentPart(c)[1]
        BY <1>2, <1>5, <1>6
    <2>2. transcript'[n + (k + 1)] = debtors /\ n + (k + 1) = n + k + 1
        BY <1>2, <1>5, <1>6
    <2> QED
        BY <1>3, <2>1, <2>2 DEF debtors
<1>8. \A i \in DOMAIN transcript' :
          \/ i \in 1..n
          \/ k = 1 /\ i = n + 1
          \/ i = n + k + 1
    BY <1>2, <1>6
<1>9. \A i \in DOMAIN transcript' : transcript'[i].number = i - 1
    BY <1>2, <1>4, <1>6, <1>7, <1>8 DEF TranscriptIsOrdered
<1>10. ASSUME NEW i \in DOMAIN transcript', transcript'[i].line.role = "agent"
       PROVE  /\ i + 1 \in DOMAIN transcript'
              /\ transcript'[i + 1].line.by = transcript'[i].line.by
              /\ transcript'[i + 1].line.role # "agent"
    <2>1. CASE i \in 1..n
        <3>1. transcript[i].line.role = "agent"
            BY <1>6, <1>10, <2>1
        <3>2. /\ i + 1 \in 1..n
              /\ transcript[i + 1].line.by = transcript[i].line.by
              /\ transcript[i + 1].line.role # "agent"
            BY <1>2, <2>1, <3>1 DEF TranscriptIsOrdered
        <3> QED
            BY <1>2, <1>6, <2>1, <3>2
    <2>2. CASE k = 1 /\ i = n + 1
        BY <1>2, <1>4, <1>6, <1>7, <2>2
    <2>3. CASE i = n + k + 1
        BY <1>4, <1>7, <1>10, <2>3
    <2> QED
        BY <1>8, <2>1, <2>2, <2>3
<1>11. \E j \in DOMAIN transcript' : transcript'[j].line = Line(c, role)
    BY <1>2, <1>4, <1>6, <1>7
<1>12. TranscriptIsOrdered'
    BY <1>9, <1>10 DEF TranscriptIsOrdered
<1> QED
    BY <1>2, <1>6, <1>11, <1>12

LEMMA PersistTurnStep ==
    ASSUME IInv, NEW c \in Calls, PersistTurn(c)
    PROVE  IInv'
<1> USE DEF IInv
<1>1. /\ UNCHANGED <<script, status, firstEnd, artifacts, fallback, closer>>
      /\ call[c].pc = "reply" /\ Leave(c)
      /\ transcript' = transcript \o call[c].buffer
      /\ memory' \in {memory, NoMemory}
    BY DEF PersistTurn
<1>2. PICK role \in Roles \ {"agent"} : call[c].buffer = Whole(c, role)
    BY <1>1 DEF BufferIsNext
<1>3. /\ transcript' \in Seq(TranscriptRows) /\ TranscriptIsOrdered'
      /\ Len(transcript') \in Nat /\ Len(transcript') >= Len(transcript)
      /\ \A i \in DOMAIN transcript :
            i \in DOMAIN transcript' /\ transcript'[i] = transcript[i]
      /\ \E j \in DOMAIN transcript' : transcript'[j].line = Line(c, role)
    BY <1>1, <1>2, TurnIsStored
<1>4. \A i \in DOMAIN History :
          History[i].by = c /\ History[i].role # "agent" =>
              \E j \in DOMAIN transcript' : transcript'[j].line = History[i]
    <2> SUFFICES ASSUME NEW i \in DOMAIN History, NEW line \in Lines,
                        line = History[i], line.by = c, line.role # "agent"
                 PROVE  line = Line(c, role)
        BY <1>3, HistoryIsASeq
    <2>1. Whole(c, line.role) = Whole(c, role)
        BY <1>1, <1>2 DEF MemoryIsOfCalls
    <2>2. line.role \in Roles
        BY DEF Lines
    <2>3. \A r \in Roles :
              Whole(c, r)[Len(AgentPart(c)) + 1]
                 = Row(Len(transcript) + Len(AgentPart(c)), c, r)
        <3> SUFFICES ASSUME NEW r \in Roles
                     PROVE  Whole(c, r)[Len(AgentPart(c)) + 1]
                               = Row(Len(transcript) + Len(AgentPart(c)), c, r)
            OBVIOUS
        <3>1. AgentPart(c) \in Seq(TranscriptRows)
            BY AgentPartIsNext
        <3>2. Len(transcript) + Len(AgentPart(c)) \in Nat
            BY <3>1, LenProperties DEF TypeOK
        <3>3. Row(Len(transcript) + Len(AgentPart(c)), c, r) \in TranscriptRows
            BY <3>2 DEF Row, Line, TranscriptRows, Lines
        <3> QED
            BY <3>1, <3>3, Appended DEF Whole
    <2>4. Row(Len(transcript) + Len(AgentPart(c)), c, line.role)
             = Row(Len(transcript) + Len(AgentPart(c)), c, role)
        BY <2>1, <2>2, <2>3
    <2>5. line.role = role
        BY <2>4 DEF Row, Line
    <2> QED
        BY <2>5 DEF Line, Lines
<1>5. History' \in {History, <<>>}
    BY <1>1 DEF History
<1>6. /\ call' \in [Calls -> CallState] /\ lock' = NoOne
      /\ LockDiscipline' /\ BufferIsNext'
      /\ MemoryIsOfCalls' /\ MemoryIsAccountedFor'
      /\ FirstIsEmpty' /\ OpeningLeads'
    BY <1>1, <1>3, <1>4, <1>5, AnsweredLeaves
<1>7. TypeOK'
    BY <1>1, <1>3, <1>6 DEF TypeOK
<1>8. CloserPart'
    BY <1>1, <1>3, <1>7, ClosersUndisturbed
<1> QED
    BY <1>3, <1>6, <1>7, <1>8 DEF CloserPart

-----------------------------------------------------------------------------
(* Restart, and the closing calls' steps *)

LEMMA RestartStep ==
    ASSUME IInv, Restart
    PROVE  IInv'
<1> USE DEF IInv
<1>1. /\ UNCHANGED <<script, status, firstEnd, transcript, artifacts>>
      /\ lock' = NoOne /\ memory' = NoMemory /\ fallback' = {}
    BY DEF Restart, db
<1>2. /\ call' \in [Calls -> CallState]
      /\ \A c \in Calls : call'[c].pc \in {"idle", "done"}
    <2> DEFINE next(c) == IF call[c].pc = "idle" THEN IdleCall
                          ELSE [IdleCall EXCEPT !.pc = "done"]
    <2>1. IdleCall \in CallState /\ IdleCall.pc = "idle"
          /\ [IdleCall EXCEPT !.pc = "done"] \in CallState
          /\ [IdleCall EXCEPT !.pc = "done"].pc = "done"
        BY EmptySeq DEF IdleCall, CallState
    <2>2. \A c \in Calls : next(c) \in CallState /\ next(c).pc \in {"idle", "done"}
        BY <2>1
    <2>3. call' = [c \in Calls |-> next(c)]
        BY DEF Restart
    <2> HIDE DEF next
    <2> QED
        BY <2>2, <2>3
<1>3. /\ closer' \in [Closers -> CloserState]
      /\ \A e \in Closers : closer'[e].pc \in {"idle", "conflict", "done"}
    <2> DEFINE next(e) == IF closer[e].pc \in {"idle", "conflict"} THEN closer[e]
                          ELSE [IdleCloser EXCEPT !.pc = "done"]
    <2>1. [IdleCloser EXCEPT !.pc = "done"] \in CloserState
          /\ [IdleCloser EXCEPT !.pc = "done"].pc = "done"
        <3>1. 0 \in 0..MaxAttempts-1
            BY AttemptsAssumption
        <3>2. IdleCloser \in CloserState
            BY <3>1 DEF IdleCloser, CloserState
        <3> QED
            BY <3>2 DEF CloserState
    <2>2. \A e \in Closers : /\ next(e) \in CloserState
                             /\ next(e).pc \in {"idle", "conflict", "done"}
        BY <2>1 DEF TypeOK
    <2>3. closer' = [e \in Closers |-> next(e)]
        BY DEF Restart
    <2> HIDE DEF next
    <2> QED
        BY <2>2, <2>3
<1>4. TypeOK'
    BY <1>1, <1>2, <1>3 DEF TypeOK
<1>5. History' = <<>> /\ DOMAIN History' = {}
    BY <1>1 DEF History
<1>6. LockDiscipline' /\ BufferIsNext' /\ FirstIsEmpty'
    BY <1>1, <1>2, <1>5, NoOneAssumption
    DEF LockDiscipline, BufferIsNext, FirstIsEmpty, Holding
<1>7. TranscriptIsOrdered'
    BY <1>1 DEF TranscriptIsOrdered
<1>8. MemoryIsOfCalls' /\ MemoryIsAccountedFor' /\ OpeningLeads'
    BY <1>5 DEF MemoryIsOfCalls, MemoryIsAccountedFor, OpeningLeads
<1>9. ClosersAreLate' /\ EvaluationCoversTheCall'
    BY <1>1, <1>3 DEF ClosersAreLate, EvaluationCoversTheCall
<1> QED
    BY <1>4, <1>6, <1>7, <1>8, <1>9

\* Every step of a closing call leaves the messages' part alone.
LEMMA ClosersLeaveMessages ==
    ASSUME IInv, NEW e \in Closers,
           ReadForEnd(e) \/ ReadForRetry(e) \/ CloserStep(e)
    PROVE  /\ UNCHANGED <<script, transcript, lock, memory, call>>
           /\ status' \in {status, "completed"}
           /\ fallback' \in {fallback, fallback \cup {e}}
BY DEF ReadForEnd, ReadForRetry, CloserStep, CompleteSession, ReadTranscript,
       FailEvaluation, SelectArtifacts, WriteArtifacts, ConflictingInsert,
       RetryWrite, LoseArtifacts, db

\* A closing call's local state and the rows it writes keep their types.
LEMMA ClosersKeepTypes ==
    ASSUME IInv, NEW e \in Closers,
           ReadForEnd(e) \/ ReadForRetry(e) \/ CloserStep(e)
    PROVE  TypeOK'
<1> USE DEF IInv
<1>1. /\ script' \in Scripts /\ status' \in {"pending", "active", "completed"}
      /\ transcript' \in Seq(TranscriptRows) /\ lock' \in Calls \cup {NoOne}
      /\ memory' \in Seq(Lines) \cup {NoMemory}
      /\ fallback' \subseteq Calls \cup Closers
      /\ call' \in [Calls -> CallState]
    BY ClosersLeaveMessages DEF TypeOK
<1>2. Len(transcript) \in Nat /\ closer[e] \in CloserState
    BY LenProperties DEF TypeOK
<1>3. /\ firstEnd' \in Nat \cup {None} /\ artifacts' \in Nat \cup {None}
      /\ closer' \in [Closers -> CloserState]
    <2> USE <1>2, AttemptsAssumption DEF TypeOK, CloserState, db
    <2>1. CASE ReadForEnd(e)
        BY <2>1 DEF ReadForEnd
    <2>2. CASE ReadForRetry(e)
        BY <2>2 DEF ReadForRetry
    <2>3. CASE CompleteSession(e)
        BY <2>3 DEF CompleteSession
    <2>4. CASE ReadTranscript(e)
        BY <2>4 DEF ReadTranscript
    <2>5. CASE FailEvaluation(e)
        BY <2>5 DEF FailEvaluation
    <2>6. CASE SelectArtifacts(e)
        <3> DEFINE found == artifacts # None
                   new == [closer[e] EXCEPT !.pc = "writing", !.exists = found]
        <3>1. new \in CloserState
            OBVIOUS
        <3>2. closer' = [closer EXCEPT ![e] = new]
            BY <2>6 DEF SelectArtifacts
        <3>3. UNCHANGED <<firstEnd, artifacts>>
            BY <2>6 DEF SelectArtifacts
        <3> HIDE DEF new
        <3> QED
            BY <3>1, <3>2, <3>3
    <2>7. CASE WriteArtifacts(e)
        BY <2>7 DEF WriteArtifacts
    <2>8. CASE ConflictingInsert(e)
        BY <2>8 DEF ConflictingInsert
    <2>9. CASE RetryWrite(e)
        <3> DEFINE new == [closer[e] EXCEPT !.pc = "retrying", !.attempts = @ + 1]
        <3>1. closer[e].attempts + 1 \in 0..MaxAttempts-1
            BY <2>9 DEF RetryWrite
        <3>2. new \in CloserState
            BY <3>1
        <3>3. closer' = [closer EXCEPT ![e] = new] /\ UNCHANGED <<firstEnd, artifacts>>
            BY <2>9 DEF RetryWrite
        <3> HIDE DEF new
        <3> QED
            BY <3>2, <3>3
    <2>10. CASE LoseArtifacts(e)
        BY <2>10 DEF LoseArtifacts
    <2> QED
        BY <2>1, <2>2, <2>3, <2>4, <2>5, <2>6, <2>7, <2>8, <2>9, <2>10
        DEF CloserStep
<1> QED
    BY <1>1, <1>3 DEF TypeOK

LEMMA ClosersStayLate ==
    ASSUME IInv, NEW e \in Closers,
           ReadForEnd(e) \/ ReadForRetry(e) \/ CloserStep(e)
    PROVE  CloserPart'
<1> USE DEF IInv
<1> USE DEF CloserPart, ClosersAreLate, EvaluationCoversTheCall
<1>1. UNCHANGED transcript
    BY ClosersLeaveMessages
<1>2. Len(transcript) \in Nat /\ Len(transcript) # None
    BY LenProperties DEF TypeOK, None
<1>3. closer \in [Closers -> CloserState] /\ firstEnd \in Nat \cup {None}
    BY DEF TypeOK
<1> USE <1>1, <1>2, <1>3 DEF CloserState, db
<1>4. CASE ReadForEnd(e)
    BY <1>4 DEF ReadForEnd
<1>5. CASE ReadForRetry(e)
    BY <1>5 DEF ReadForRetry
<1>6. CASE CompleteSession(e)
    BY <1>6 DEF CompleteSession
<1>7. CASE ReadTranscript(e)
    BY <1>7 DEF ReadTranscript
<1>8. CASE FailEvaluation(e)
    BY <1>8 DEF FailEvaluation
<1>9. CASE SelectArtifacts(e)
    <2>1. /\ UNCHANGED <<status, firstEnd, artifacts>>
          /\ closer[e].pc \in {"evaluating", "retrying"}
          /\ closer'[e].pc = "writing" /\ closer'[e].rows = closer[e].rows
          /\ \A f \in Closers \ {e} : closer'[f] = closer[f]
        BY <1>9 DEF SelectArtifacts
    <2> QED
        BY <2>1
<1>10. CASE WriteArtifacts(e)
    BY <1>10 DEF WriteArtifacts
<1>11. CASE ConflictingInsert(e)
    BY <1>11 DEF ConflictingInsert
<1>12. CASE RetryWrite(e)
    BY <1>12 DEF RetryWrite
<1>13. CASE LoseArtifacts(e)
    BY <1>13 DEF LoseArtifacts
<1> QED
    BY <1>4, <1>5, <1>6, <1>7, <1>8, <1>9, <1>10, <1>11, <1>12, <1>13
    DEF CloserStep

LEMMA CloserSteps ==
    ASSUME IInv, NEW e \in Closers,
           ReadForEnd(e) \/ ReadForRetry(e) \/ CloserStep(e)
    PROVE  IInv'
<1>1. MessagePart'
    BY ClosersLeaveMessages, MessagesUndisturbed
<1> QED
    BY <1>1, ClosersKeepTypes, ClosersStayLate DEF IInv, MessagePart, CloserPart

-----------------------------------------------------------------------------
(* The theorems *)

LEMMA InductiveStep == IInv /\ [Next]_vars => IInv'
<1> SUFFICES ASSUME IInv, [Next]_vars PROVE IInv'
    OBVIOUS
<1>1. ASSUME NEW c \in Calls, NEW system \in BOOLEAN, SendMessage(c, system)
      PROVE  IInv'
    BY <1>1, SendMessageStep
<1>2. ASSUME NEW c \in Calls, HaveLock(c)
      PROVE  IInv'
    <2>1. CASE RejectCompleted(c)
        BY <2>1, LeavingStep DEF RejectCompleted
    <2>2. CASE TakeTurn(c)
        BY <2>2, TakeTurnStep
    <2> QED
        BY <1>2, <2>1, <2>2 DEF HaveLock
<1>3. ASSUME NEW c \in Calls, MessageStep(c)
      PROVE  IInv'
    <2>1. CASE FailToRespond(c)
        BY <2>1, LeavingStep DEF FailToRespond
    <2>2. CASE Respond(c, FALSE) \/ Respond(c, TRUE)
        BY <2>2, RespondStep
    <2>3. CASE Activate(c) \/ BeginTurn(c)
        BY <2>3, ActivateStep, BeginTurnStep
    <2>4. CASE DeliverOpening(c) \/ EndByScript(c)
        BY <2>4, DeliverOpeningStep, EndByScriptStep
    <2>5. CASE PersistTurn(c) \/ LoseTurn(c)
        BY <2>5, PersistTurnStep, LoseTurnStep
    <2> QED
        BY <1>3, <2>1, <2>2, <2>3, <2>4, <2>5 DEF MessageStep
<1>4. ASSUME NEW e \in Closers,
             ReadForEnd(e) \/ ReadForRetry(e) \/ CloserStep(e)
      PROVE  IInv'
    BY <1>4, CloserSteps
<1>5. CASE Restart
    BY <1>5, RestartStep
<1>6. CASE UNCHANGED vars
    <2>1. MessagePart'
        BY <1>6, MessagesUndisturbed DEF vars, db
    <2>2. TypeOK'
        BY <1>6 DEF IInv, TypeOK, vars, db
    <2>3. CloserPart'
        BY <1>6, <2>2, ClosersUndisturbed, LenProperties DEF IInv, TypeOK, vars, db
    <2> QED
        BY <2>1, <2>2, <2>3 DEF IInv, MessagePart, CloserPart
<1> QED
    BY <1>1, <1>2, <1>3, <1>4, <1>5, <1>6 DEF Next

\* Whatever calls overlap, fail, retry or die with the process (Next of
\* api/sessions.py and pipeline/end_session.py), the invariant holds.
THEOREM Invariance == Spec => []IInv
<1> QED
    BY InitialInvariant, InductiveStep, PTL DEF Spec

\* The session's rows, the lock, the memory and the local states of every call
\* keep their types, the attempts of retry_db_operation their bound.
THEOREM TypeCorrect == Spec => []TypeOK
<1>1. IInv => TypeOK
    BY DEF IInv
<1> QED
    BY <1>1, Invariance, PTL

\* However messages and restarts interleave, TranscriptManager's stored rows are
\* numbered without gap or repetition and no turn is torn or mixed.
THEOREM OrderedTranscript == Spec => []TranscriptIsOrdered
<1>1. IInv => TranscriptIsOrdered
    BY DEF IInv
<1> QED
    BY <1>1, Invariance, PTL

\* What _active_personas remembers the debtor to have said is in the table, in
\* the turn being stored, or in the fallback store.
THEOREM AccountedMemory == Spec => []MemoryIsAccountedFor
<1>1. IInv => MemoryIsAccountedFor
    BY DEF IInv
<1> QED
    BY <1>1, Invariance, PTL

\* Under a script with an opening line every remembered conversation has it
\* once, as the debtor's first words.
THEOREM LeadingOpening == Spec => []OpeningLeads
<1>1. IInv => OpeningLeads
    BY DEF IInv
<1> QED
    BY <1>1, Invariance, PTL

\* However many ends and retries overlap, the stored evaluation is of at least
\* the turns stored when the session first completed.
THEOREM CoveringEvaluation == Spec => []EvaluationCoversTheCall
<1>1. IInv => EvaluationCoversTheCall
    BY DEF IInv
<1> QED
    BY <1>1, Invariance, PTL
=============================================================================
