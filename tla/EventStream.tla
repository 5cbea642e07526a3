------------------------------ MODULE EventStream ------------------------------
(***************************************************************************)
(* Events pushed to the clients' WebSockets.                               *)
(*                                                                         *)
(* A request that committed a change emits an event: it draws the next     *)
(* number, stores the event in a buffer that forgets what is too old, and  *)
(* sends it to the connected clients one by one.  A client that reconnects *)
(* names the last number it received and is sent what the buffer holds     *)
(* beyond it, or is told to start over.  All of this lives in one asyncio  *)
(* process: code between two awaits is atomic, and a broadcast iterates    *)
(* over the table of clients across its awaits.                            *)
(*                                                                         *)
(* A restart begins again with Init, except that clients may then name a   *)
(* number of the process before; any number may be named here.             *)
(***************************************************************************)
EXTENDS Integers, Sequences, FiniteSets

CONSTANTS
    Sockets,     \* connections, each opened at most once, by a user of its own
    Admins,      \* those of administrators
    Trainers,    \* those of trainers; the others are agents'
    Members,     \* those of users assigned to the campaign
    Emitters,    \* requests that emit events at the same time
    Topics,      \* the events they emit
    Nobody,      \* the agent of an event that has none
    Resync,      \* in place of the topic of a number that no event has
    MaxSeq       \* bound on the numbers drawn

Topic == [category : {"session", "campaign", "scenario", "user", "dashboard"},
          campaign : BOOLEAN, agent : Sockets \cup {Nobody}]

ASSUME TopicsAssumption == Topics \subseteq Topic /\ Resync \notin Topics
ASSUME SocketsAssumption == IsFiniteSet(Sockets) /\ Nobody \notin Sockets
ASSUME BoundAssumption == MaxSeq \in Nat

VARIABLES
    log,        \* history: topic of every number drawn; _seq is its length
    buffer,     \* EventStore._buffer: numbers of the stored events
    table,      \* EventConnectionManager._clients
    open,       \* sockets whose peer is still there
    conn,       \* socket -> its connection handler
    emit,       \* emitter -> its broadcast
    cut         \* history: events whose broadcast saw the table change

vars == <<log, buffer, table, open, conn, emit, cut>>

-----------------------------------------------------------------------------
(* Rows and local states *)

Numbers == 1..MaxSeq

\* since: the client is owed the events after that number.
Connection == [pc : {"new", "replaying", "resyncing", "live", "over"},
               since : 0..MaxSeq, missed : SUBSET Numbers,
               received : Seq(Numbers)]

Broadcast == [pc : {"idle", "sending"}, number : 0..MaxSeq,
              clients : SUBSET Sockets, visited : SUBSET Sockets,
              failed : SUBSET Sockets]

\* A connection that nothing was sent over yet.
Fresh(pc, since, missed) ==
    [pc |-> pc, since |-> since, missed |-> missed, received |-> <<>>]

IdleBroadcast == [pc |-> "idle", number |-> 0, clients |-> {},
                  visited |-> {}, failed |-> {}]

Elements(s) == {s[i] : i \in DOMAIN s}

LeastOf(S) == CHOOSE n \in S : \A m \in S : n <= m

ShouldDeliver(f, topic) ==
    \/ f \in Admins
    \/ /\ f \in Trainers \ Admins
       /\ topic.category \notin {"user", "dashboard"}
       /\ topic.campaign /\ f \in Members
    \/ /\ f \notin Admins \cup Trainers
       /\ topic.category \notin {"user", "dashboard"}
       /\ \/ topic.agent = f
          \/ /\ topic.campaign /\ f \in Members
             /\ topic.category \in {"scenario", "campaign"}

\* Bug: an off-by-one tolerance of what was evicted.
TooOld_tolerant(last) == buffer # <<>> /\ last + 2 < Head(buffer)

\* get_after answers None.
TooOld(last) == buffer # <<>> /\ last < Head(buffer)

Init ==
    /\ log = <<>>
    /\ buffer = <<>>
    /\ table = {}
    /\ open = {}
    /\ conn = [f \in Sockets |-> Fresh("new", 0, {})]
    /\ emit = [e \in Emitters |-> IdleBroadcast]
    /\ cut = {}

-----------------------------------------------------------------------------
(* Connection handlers *)

\* A first connection: no last_seq.
Connect(f) ==
    /\ conn[f].pc = "new"
    /\ conn' = [conn EXCEPT ![f] = Fresh("live", Len(log), {})]
    /\ table' = table \cup {f}
    /\ open' = open \cup {f}
    /\ UNCHANGED <<log, buffer, emit, cut>>

\* Bug: the last number itself is replayed too.
Reconnect_inclusive(f, last) ==
    /\ conn[f].pc = "new"
    /\ ~TooOld(last)
    /\ LET missed == {n \in Elements(buffer) : n >= last}
       IN  conn' = [conn EXCEPT ![f] =
              Fresh(IF missed = {} THEN "live" ELSE "replaying",
                    IF last < Len(log) THEN last ELSE Len(log), missed)]
    /\ table' = table \cup {f}
    /\ open' = open \cup {f}
    /\ UNCHANGED <<log, buffer, emit, cut>>

\* Nothing else runs between the registration and get_after.
Reconnect(f, last) ==
    /\ conn[f].pc = "new"
    /\ ~TooOld(last)
    /\ LET missed == {n \in Elements(buffer) : n > last}
       IN  conn' = [conn EXCEPT ![f] =
              Fresh(IF missed = {} THEN "live" ELSE "replaying",
                    IF last < Len(log) THEN last ELSE Len(log), missed)]
    /\ table' = table \cup {f}
    /\ open' = open \cup {f}
    /\ UNCHANGED <<log, buffer, emit, cut>>

\* The resync message takes a number, and is not stored.
ReconnectTooLate(f, last) ==
    /\ conn[f].pc = "new"
    /\ TooOld(last)
    /\ Len(log) < MaxSeq
    /\ log' = Append(log, Resync)
    /\ conn' = [conn EXCEPT ![f] = Fresh("resyncing", Len(log) + 1, {})]
    /\ table' = table \cup {f}
    /\ open' = open \cup {f}
    /\ UNCHANGED <<buffer, emit, cut>>

Replay(f) ==
    /\ conn[f].pc = "replaying"
    /\ LET n == LeastOf(conn[f].missed)
           rest == conn[f].missed \ {n}
       IN  conn' = [conn EXCEPT ![f] =
              [pc |-> IF rest = {} THEN "live" ELSE "replaying", since |-> @.since,
               missed |-> rest, received |-> Append(@.received, n)]]
    /\ UNCHANGED <<log, buffer, table, open, emit, cut>>

SendResync(f) ==
    /\ conn[f].pc = "resyncing"
    /\ conn' = [conn EXCEPT ![f].pc = "live"]
    /\ UNCHANGED <<log, buffer, table, open, emit, cut>>

\* The send raises outside the handler's try ... finally: the table keeps
\* the client.
ReplayFails(f) ==
    /\ conn[f].pc \in {"replaying", "resyncing"}
    /\ f \notin open
    /\ conn' = [conn EXCEPT ![f].pc = "over"]
    /\ UNCHANGED <<log, buffer, table, open, emit, cut>>

\* The receive loop notices that the peer is gone.
HandlerEnds(f) ==
    /\ conn[f].pc = "live" /\ f \notin open
    /\ conn' = [conn EXCEPT ![f].pc = "over"]
    /\ table' = table \ {f}
    /\ UNCHANGED <<log, buffer, open, emit, cut>>

\* A ping failed or took too long: the client leaves the table, and its
\* connection stays.
HeartbeatFails(f) ==
    /\ conn[f].pc = "live" /\ f \in table
    /\ table' = table \ {f}
    /\ UNCHANGED <<log, buffer, open, conn, emit, cut>>

PeerLeaves(f) ==
    /\ f \in open
    /\ open' = open \ {f}
    /\ UNCHANGED <<log, buffer, table, conn, emit, cut>>

\* disconnect_user, when the account is deactivated.
DisconnectUser(f) ==
    /\ f \in table
    /\ open' = open \ {f}
    /\ table' = table \ {f}
    /\ UNCHANGED <<log, buffer, conn, emit, cut>>

-----------------------------------------------------------------------------
(* Broadcasts *)

\* One turn of the loop: the broadcast b sends to f and waits.  A send to a
\* peer that left may seem to succeed.
SendTo(e, b, f) ==
    \/ /\ emit' = [emit EXCEPT ![e] = [b EXCEPT !.visited = @ \cup {f}]]
       /\ conn' = [conn EXCEPT ![f].received = Append(@, b.number)]
    \/ /\ f \notin open
       /\ emit' = [emit EXCEPT ![e] = [b EXCEPT !.visited = @ \cup {f},
                                                !.failed = @ \cup {f}]]
       /\ UNCHANGED conn

\* Number, store with eviction of what is expired, and the first send.
Emit(e, topic) ==
    LET n == Len(log) + 1
        b == [IdleBroadcast EXCEPT !.pc = "sending", !.number = n,
                                   !.clients = table]
        to == {f \in table : ShouldDeliver(f, topic)}
    IN  /\ emit[e].pc = "idle"
        /\ n <= MaxSeq
        /\ log' = Append(log, topic)
        /\ \E expired \in 0..Len(buffer) :
              buffer' = Append(SubSeq(buffer, expired + 1, Len(buffer)), n)
        /\ IF to = {} THEN UNCHANGED <<conn, emit>>
                      ELSE \E f \in to : SendTo(e, b, f)
        /\ UNCHANGED <<table, open, cut>>

Unvisited(e) ==
    {f \in table : ShouldDeliver(f, log[emit[e].number])} \ emit[e].visited

\* The dict's iterator goes on as long as the size is the one it saw first.
SizeUnchanged(e) == Cardinality(table) = Cardinality(emit[e].clients)

NoteChange(e) ==
    cut' = IF table = emit[e].clients THEN cut ELSE cut \cup {emit[e].number}

Continue(e) ==
    /\ emit[e].pc = "sending" /\ SizeUnchanged(e)
    /\ \E f \in Unvisited(e) : SendTo(e, emit[e], f)
    /\ NoteChange(e)
    /\ UNCHANGED <<log, buffer, table, open>>

Finish(e) ==
    /\ emit[e].pc = "sending" /\ SizeUnchanged(e)
    /\ Unvisited(e) = {}
    /\ table' = table \ emit[e].failed
    /\ emit' = [emit EXCEPT ![e] = IdleBroadcast]
    /\ NoteChange(e)
    /\ UNCHANGED <<log, buffer, open, conn>>

\* RuntimeError from the iterator, to the request whose change is committed;
\* with other clients in a table of the same size, possibly just a short loop.
Interrupted(e) ==
    /\ emit[e].pc = "sending"
    /\ table # emit[e].clients
    /\ \/ UNCHANGED table
       \/ SizeUnchanged(e) /\ table' = table \ emit[e].failed
    /\ emit' = [emit EXCEPT ![e] = IdleBroadcast]
    /\ NoteChange(e)
    /\ UNCHANGED <<log, buffer, open, conn>>

Next ==
    \/ \E f \in Sockets :
          \/ Connect(f)
          \/ \E last \in 0..MaxSeq : Reconnect(f, last) \/ ReconnectTooLate(f, last)
          \/ Replay(f) \/ SendResync(f) \/ ReplayFails(f) \/ HandlerEnds(f)
          \/ HeartbeatFails(f) \/ PeerLeaves(f) \/ DisconnectUser(f)
    \/ \E e \in Emitters :
          \/ \E topic \in Topics : Emit(e, topic)
          \/ Continue(e) \/ Finish(e) \/ Interrupted(e)

Spec == Init /\ [][Next]_vars

-----------------------------------------------------------------------------
(* Properties *)

TypeOK ==
    /\ log \in Seq(Topics \cup {Resync}) /\ Len(log) <= MaxSeq
    /\ buffer \in Seq(Numbers)
    /\ table \subseteq Sockets
    /\ open \subseteq Sockets
    /\ conn \in [Sockets -> Connection]
    /\ emit \in [Emitters -> Broadcast]
    /\ cut \subseteq Numbers

InProgress(n, f) ==
    \E e \in Emitters : /\ emit[e].pc = "sending" /\ emit[e].number = n
                        /\ f \in emit[e].clients \ emit[e].visited

Outstanding(n, f) ==
    /\ n > conn[f].since /\ log[n] # Resync
    /\ ShouldDeliver(f, log[n])
    /\ n \notin Elements(conn[f].received)
    /\ n \notin conn[f].missed
    /\ ~InProgress(n, f)

\* A registered client whose connection stands has got, or is about to get,
\* every event for it after the number it named or the resync it was sent;
\* only an event whose broadcast saw the table of clients change can miss it.
NothingIsMissed ==
    \A f \in table \cap open, n \in DOMAIN log : Outstanding(n, f) => n \in cut

\* Replay and broadcasts, also when they interleave, never send an event
\* twice over one connection, nor one the client has named as received;
\* again except for a broadcast that saw the table change.
NothingIsRepeated ==
    \A f \in Sockets :
        LET got == conn[f].received
        IN  \A i \in DOMAIN got : got[i] \notin cut =>
                /\ got[i] > conn[f].since
                /\ \A j \in DOMAIN got : got[j] = got[i] => i = j

\* Every event reaches all clients it is meant for.
BroadcastReachesAll ==
    \A f \in table \cap open, n \in DOMAIN log : ~Outstanding(n, f)

-----------------------------------------------------------------------------
(* The inductive invariant *)

\* The buffer is what the log ends with, apart from resync numbers.
BufferIsRecent ==
    /\ \A i, j \in DOMAIN buffer : i < j => buffer[i] < buffer[j]
    /\ \A i \in DOMAIN buffer : buffer[i] \in DOMAIN log
    /\ \A n \in DOMAIN log :
          log[n] # Resync /\ buffer # <<>> /\ n >= Head(buffer) => n \in Elements(buffer)
    /\ buffer = <<>> => \A n \in DOMAIN log : log[n] = Resync

\* Nothing happens on a connection before its handshake.
NewIsUntouched ==
    \A f \in Sockets : conn[f].pc = "new" =>
        /\ f \notin table
        /\ conn[f].received = <<>> /\ conn[f].missed = {}
        /\ \A e \in Emitters : emit[e].pc = "sending" => f \notin emit[e].clients

\* What a replay has left to send is owed and, unless a broadcast has gone
\* astray, not sent yet.
ReplaysAreOwed ==
    \A f \in Sockets :
        /\ conn[f].pc = "replaying" => conn[f].missed # {}
        /\ conn[f].since <= Len(log)
        /\ Elements(conn[f].received) \subseteq DOMAIN log
        /\ conn[f].missed \subseteq {n \in DOMAIN log : n > conn[f].since}
        /\ conn[f].missed \cap Elements(conn[f].received) \subseteq cut

\* What a broadcast has left to send to the clients it found is owed and not
\* sent yet, neither by a replay nor by another broadcast.
BroadcastsAreOwed ==
    \A e \in Emitters : emit[e].pc = "sending" =>
        LET n == emit[e].number IN
        /\ n \in DOMAIN log
        /\ \A d \in Emitters \ {e} : emit[d].pc = "sending" => emit[d].number # n
        /\ \A f \in emit[e].clients \ emit[e].visited :
              /\ n > conn[f].since
              /\ n \notin conn[f].missed /\ n \notin Elements(conn[f].received)

IInv ==
    /\ TypeOK
    /\ BufferIsRecent /\ NewIsUntouched
    /\ ReplaysAreOwed /\ BroadcastsAreOwed
    /\ NothingIsMissed /\ NothingIsRepeated
=============================================================================
