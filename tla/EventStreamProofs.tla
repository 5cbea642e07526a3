--------------------------- MODULE EventStreamProofs ---------------------------
(***************************************************************************)
(* Delivery of events for any clients, broadcasts, events and numbers: a   *)
(* standing client misses no event and is sent none twice, except for      *)
(* events whose broadcast saw the table of clients change.                 *)
(*                                                                         *)
(* The argument: a client enters the table and takes its replay from the   *)
(* buffer in one step, so that an event is either in that replay, or older *)
(* than the client has asked for, or has its broadcast still to come; and  *)
(* a broadcast that has not seen the table change goes through the clients *)
(* it started with.                                                        *)
(***************************************************************************)
EXTENDS EventStream, SequenceTheorems, WellFoundedInduction, TLAPS

-----------------------------------------------------------------------------
(* Sequences and numbers *)

LEMMA Appended ==
    ASSUME NEW S, NEW s \in Seq(S), NEW e \in S
    PROVE  /\ Append(s, e) \in Seq(S)
           /\ Len(s) \in Nat /\ DOMAIN s = 1..Len(s)
           /\ Len(Append(s, e)) = Len(s) + 1
           /\ DOMAIN Append(s, e) = 1..Len(s)+1
           /\ \A i \in 1..Len(s) : Append(s, e)[i] = s[i]
           /\ Append(s, e)[Len(s) + 1] = e
BY AppendProperties, LenProperties

LEMMA ElementsGrow ==
    ASSUME NEW S, NEW s \in Seq(S), NEW e \in S
    PROVE  Elements(Append(s, e)) = Elements(s) \cup {e}
<1>1. Len(s) \in Nat /\ 1..Len(s)+1 = (1..Len(s)) \cup {Len(s) + 1}
    BY Appended
<1> QED
    BY <1>1, Appended DEF Elements

LEMMA LeastExists ==
    ASSUME NEW S \in SUBSET Nat, S # {}
    PROVE  LeastOf(S) \in S
<1> DEFINE R == {ss \in Nat \X Nat : ss[1] < ss[2]}
<1>1. IsWellFoundedOn(R, Nat)
    BY NatLessThanWellFounded DEF OpToRel
<1> HIDE DEF R
<1>2. PICK n \in S : \A m \in S : ~(<<m, n>> \in R)
    BY <1>1, WFMin
<1>3. ASSUME NEW m \in S PROVE n <= m
    <2>1. m \in Nat /\ n \in Nat /\ <<m, n>> \notin R
        BY <1>2
    <2>2. <<m, n>> \in Nat \X Nat /\ <<m, n>>[1] = m /\ <<m, n>>[2] = n
        BY <2>1
    <2>3. m < n => <<m, n>> \in R
        BY <2>2 DEF R
    <2> QED
        BY <2>1, <2>3
<1> QED
    BY <1>3 DEF LeastOf

LEMMA NotLess ==
    ASSUME NEW a \in Int, NEW b \in Int, ~(a < b)
    PROVE  b <= a
OBVIOUS

\* What was sent after since, C left aside, was sent once.
SentOnce(got, since, C) ==
    \A i \in DOMAIN got : got[i] \notin C =>
        /\ got[i] > since
        /\ \A j \in DOMAIN got : got[j] = got[i] => i = j

LEMMA SentOnceMore ==
    ASSUME NEW got \in Seq(Numbers), NEW since, NEW C, NEW D, C \subseteq D,
           SentOnce(got, since, C), NEW n \in Numbers,
           n \in D \/ (n > since /\ n \notin Elements(got))
    PROVE  SentOnce(Append(got, n), since, D)
<1> DEFINE new == Append(got, n)
<1>1. /\ Len(got) \in Nat /\ DOMAIN got = 1..Len(got)
      /\ DOMAIN new = 1..Len(got)+1
      /\ \A i \in 1..Len(got) : new[i] = got[i]
      /\ new[Len(got) + 1] = n
    BY Appended
<1>2. \A i \in 1..Len(got) : got[i] \in Elements(got)
    BY <1>1 DEF Elements
<1> HIDE DEF new
<1> SUFFICES ASSUME NEW i \in DOMAIN new, new[i] \notin D
             PROVE  /\ new[i] > since
                    /\ \A j \in DOMAIN new : new[j] = new[i] => i = j
    BY DEF SentOnce, new
<1>3. CASE i = Len(got) + 1
    BY <1>1, <1>2, <1>3
<1>4. CASE i \in 1..Len(got)
    <2>1. got[i] \notin C /\ got[i] > since
        BY <1>1, <1>4 DEF SentOnce
    <2>2. \A j \in 1..Len(got) : got[j] = got[i] => i = j
        BY <1>1, <1>4, <2>1 DEF SentOnce
    <2>3. new[Len(got) + 1] # new[i]
        BY <1>1, <1>2, <1>4
    <2> QED
        BY <1>1, <1>4, <2>1, <2>2, <2>3
<1> QED
    BY <1>1, <1>3, <1>4

-----------------------------------------------------------------------------
(* Steps that send nothing *)

\* A broadcast that ends has gone through the table, or is cut.
EndsWell(e) ==
    /\ emit'[e].pc = "idle"
    /\ \/ emit[e].number \in cut'
       \/ Unvisited(e) = {}

LEMMA QuietStep ==
    ASSUME IInv, TypeOK', UNCHANGED <<log, buffer>>, table' \subseteq table,
           open' \subseteq open, cut \subseteq cut',
           \A f \in Sockets :
               /\ conn'[f].since = conn[f].since /\ conn'[f].missed = conn[f].missed
               /\ conn'[f].received = conn[f].received
               /\ \/ conn'[f].pc = conn[f].pc
                  \/ conn[f].pc # "new" /\ conn'[f].pc \notin {"new", "replaying"},
           \A e \in Emitters : emit'[e] = emit[e] \/ EndsWell(e)
    PROVE  IInv'
<1> USE DEF IInv
<1>1. \A e \in Emitters : emit'[e].pc = "sending" => emit'[e] = emit[e]
    BY DEF EndsWell
<1>2. BufferIsRecent'
    BY DEF BufferIsRecent
<1>3. NewIsUntouched'
    BY <1>1 DEF NewIsUntouched
<1>4. ReplaysAreOwed'
    BY DEF ReplaysAreOwed
<1>5. BroadcastsAreOwed'
    BY <1>1 DEF BroadcastsAreOwed, TypeOK, Broadcast
<1>6. NothingIsMissed'
    <2> SUFFICES ASSUME NEW f \in table' \cap open', NEW n \in DOMAIN log, Outstanding(n, f)'
                 PROVE  n \in cut'
        BY DEF NothingIsMissed
    <2>1. /\ f \in table \cap open /\ f \in Sockets
          /\ n > conn[f].since /\ log[n] # Resync /\ ShouldDeliver(f, log[n])
          /\ n \notin Elements(conn[f].received) /\ n \notin conn[f].missed
        BY DEF Outstanding, TypeOK
    <2>2. CASE ~InProgress(n, f)
        BY <2>1, <2>2 DEF Outstanding, NothingIsMissed
    <2>3. ASSUME NEW e \in Emitters, emit[e].pc = "sending", emit[e].number = n,
                 f \in emit[e].clients \ emit[e].visited
          PROVE  n \in cut'
        <3>1. emit'[e] # emit[e]
            BY <2>3 DEF Outstanding, InProgress
        <3>2. f \in Unvisited(e)
            BY <2>1, <2>3 DEF Unvisited
        <3> QED
            BY <2>3, <3>1, <3>2 DEF EndsWell
    <2> QED
        BY <2>2, <2>3 DEF InProgress
<1>7. NothingIsRepeated'
    BY DEF NothingIsRepeated
<1> QED
    BY <1>2, <1>3, <1>4, <1>5, <1>6, <1>7

-----------------------------------------------------------------------------
(* Connection handlers *)

LEMMA ConnTyped ==
    ASSUME TypeOK, NEW f \in Sockets
    PROVE  /\ conn[f].pc \in {"new", "replaying", "resyncing", "live", "over"}
           /\ conn[f].since \in 0..MaxSeq /\ conn[f].missed \subseteq Numbers
           /\ conn[f].received \in Seq(Numbers)
BY DEF TypeOK, Connection

LEMMA LogTyped ==
    ASSUME TypeOK
    PROVE  /\ Len(log) \in Nat /\ Len(log) <= MaxSeq /\ MaxSeq \in Nat
           /\ DOMAIN log = 1..Len(log) /\ DOMAIN log \subseteq Numbers
<1>1. Len(log) \in Nat /\ DOMAIN log = 1..Len(log)
    BY LenProperties DEF TypeOK
<1> QED
    BY <1>1, BoundAssumption DEF TypeOK, Numbers

LEMMA LogGrows ==
    ASSUME TypeOK, NEW topic \in Topics \cup {Resync}, Len(log) < MaxSeq,
           log' = Append(log, topic)
    PROVE  /\ log' \in Seq(Topics \cup {Resync}) /\ Len(log') <= MaxSeq
           /\ Len(log') = Len(log) + 1 /\ Len(log) <= Len(log')
           /\ DOMAIN log' = DOMAIN log \cup {Len(log) + 1}
           /\ Len(log) + 1 \notin DOMAIN log /\ Len(log) + 1 \in Numbers
           /\ \A n \in DOMAIN log : log'[n] = log[n]
           /\ log'[Len(log) + 1] = topic
<1>1. /\ Len(log) \in Nat /\ MaxSeq \in Nat /\ DOMAIN log = 1..Len(log)
    BY LogTyped
<1>2. /\ log' \in Seq(Topics \cup {Resync}) /\ Len(log') = Len(log) + 1
      /\ DOMAIN log' = 1..Len(log)+1
      /\ \A n \in 1..Len(log) : log'[n] = log[n]
      /\ log'[Len(log) + 1] = topic
    BY Appended DEF TypeOK
<1>3. Len(log') <= MaxSeq /\ Len(log) <= Len(log')
    BY <1>1, <1>2
<1>4. DOMAIN log' = DOMAIN log \cup {Len(log) + 1}
    BY <1>1, <1>2
<1>5. Len(log) + 1 \notin DOMAIN log /\ Len(log) + 1 \in Numbers
    BY <1>1 DEF Numbers
<1> QED
    BY <1>1, <1>2, <1>3, <1>4, <1>5

\* Steps of a handler that change nothing but its pc.
LEMMA PcMoves ==
    ASSUME IInv, NEW f \in Sockets, conn[f].pc # "new",
           NEW pc \in {"live", "over"}, conn' = [conn EXCEPT ![f].pc = pc],
           table' \subseteq table, UNCHANGED <<log, buffer, open, emit, cut>>
    PROVE  IInv'
<1>1. conn \in [Sockets -> Connection]
    BY DEF IInv, TypeOK
<1>2. /\ [conn[f] EXCEPT !.pc = pc] \in Connection
      /\ [conn[f] EXCEPT !.pc = pc].pc = pc
      /\ [conn[f] EXCEPT !.pc = pc].since = conn[f].since
      /\ [conn[f] EXCEPT !.pc = pc].missed = conn[f].missed
      /\ [conn[f] EXCEPT !.pc = pc].received = conn[f].received
    BY <1>1 DEF Connection
<1>3. conn' = [conn EXCEPT ![f] = [conn[f] EXCEPT !.pc = pc]]
    BY <1>1
<1>4. /\ conn' \in [Sockets -> Connection]
      /\ \A g \in Sockets :
             /\ conn'[g].since = conn[g].since /\ conn'[g].missed = conn[g].missed
             /\ conn'[g].received = conn[g].received
             /\ \/ conn'[g].pc = conn[g].pc
                \/ conn[g].pc # "new" /\ conn'[g].pc \notin {"new", "replaying"}
    BY <1>1, <1>2, <1>3
<1>5. TypeOK'
    BY <1>4 DEF IInv, TypeOK
<1> QED
    BY <1>4, <1>5, QuietStep

LEMMA HandlerMoves ==
    ASSUME IInv, NEW f \in Sockets,
           SendResync(f) \/ ReplayFails(f) \/ HandlerEnds(f)
    PROVE  IInv'
BY PcMoves DEF SendResync, ReplayFails, HandlerEnds

LEMMA ClientLeaves ==
    ASSUME IInv, NEW f \in Sockets,
           HeartbeatFails(f) \/ PeerLeaves(f) \/ DisconnectUser(f)
    PROVE  IInv'
<1>1. /\ table' \subseteq table /\ open' \subseteq open
      /\ UNCHANGED <<log, buffer, conn, emit, cut>>
    BY DEF HeartbeatFails, PeerLeaves, DisconnectUser
<1>2. TypeOK'
    BY <1>1 DEF IInv, TypeOK
<1> QED
    BY <1>1, <1>2, QuietStep

\* A new client, owed from since and replayed what is missed.
LEMMA ClientEnters ==
    ASSUME IInv, NEW f \in Sockets, conn[f].pc = "new",
           NEW pc \in {"replaying", "resyncing", "live"}, NEW since \in 0..MaxSeq,
           NEW missed \in SUBSET (DOMAIN log), pc = "replaying" <=> missed # {},
           conn' = [conn EXCEPT ![f] = Fresh(pc, since, missed)],
           table' = table \cup {f}, open' = open \cup {f}, UNCHANGED <<buffer, emit, cut>>,
           \/ UNCHANGED log
           \/ log' = Append(log, Resync) /\ Len(log) < MaxSeq,
           since <= Len(log'), \A n \in missed : n > since,
           \A n \in DOMAIN log : n > since /\ log[n] # Resync => n \in missed
    PROVE  IInv'
<1> USE DEF IInv
<1>1. /\ Len(log) \in Nat /\ DOMAIN log = 1..Len(log) /\ DOMAIN log \subseteq Numbers
      /\ Len(log) <= MaxSeq /\ MaxSeq \in Nat
    BY LogTyped
<1>2. /\ log' \in Seq(Topics \cup {Resync}) /\ Len(log') <= MaxSeq
      /\ DOMAIN log \subseteq DOMAIN log' /\ Len(log) <= Len(log')
      /\ \A n \in DOMAIN log : log'[n] = log[n]
      /\ \A n \in DOMAIN log' \ DOMAIN log : log'[n] = Resync
    <2>1. CASE UNCHANGED log
        BY <1>1, <2>1 DEF TypeOK
    <2>2. CASE log' = Append(log, Resync) /\ Len(log) < MaxSeq
        BY <2>2, LogGrows
    <2> QED
        BY <2>1, <2>2
<1> DEFINE row == Fresh(pc, since, missed)
<1>3. row \in Connection /\ row.pc = pc /\ row.since = since /\ row.missed = missed
      /\ row.received = <<>>
    BY <1>1, EmptySeq DEF Connection, Fresh
<1> HIDE DEF row
<1>4. /\ conn' \in [Sockets -> Connection] /\ conn'[f] = row
      /\ \A g \in Sockets \ {f} : conn'[g] = conn[g]
    BY <1>3 DEF TypeOK, row
<1>5. TypeOK'
    BY <1>2, <1>4 DEF TypeOK
<1>6. BufferIsRecent'
    BY <1>2 DEF BufferIsRecent
<1>7. NewIsUntouched'
    BY <1>3, <1>4 DEF NewIsUntouched
<1>8. Elements(<<>>) = {}
    BY DEF Elements
<1>9. \A g \in Sockets : conn[g].since <= Len(log')
    BY <1>1, <1>2, ConnTyped, LogTyped DEF ReplaysAreOwed
<1>10. ReplaysAreOwed'
    BY <1>2, <1>3, <1>4, <1>8, <1>9 DEF ReplaysAreOwed
<1>11. BroadcastsAreOwed'
    <2>1. \A e \in Emitters : emit[e].pc = "sending" => f \notin emit[e].clients
        BY DEF NewIsUntouched
    <2>2. \A e \in Emitters : emit[e].clients \subseteq Sockets
        BY DEF TypeOK, Broadcast
    <2> QED
        BY <1>2, <1>4, <2>1, <2>2 DEF BroadcastsAreOwed
<1>12. NothingIsMissed'
    <2> SUFFICES ASSUME NEW g \in table' \cap open', NEW n \in DOMAIN log',
                        Outstanding(n, g)'
                 PROVE  n \in cut
        BY DEF NothingIsMissed
    <2>1. n \in DOMAIN log /\ log'[n] = log[n] /\ log[n] # Resync
        BY <1>2 DEF Outstanding
    <2>2. CASE g = f
        BY <1>3, <1>4, <2>1, <2>2 DEF Outstanding
    <2>3. CASE g # f
        <3>1. g \in table \cap open /\ conn'[g] = conn[g]
            BY <1>4, <2>3 DEF TypeOK
        <3>2. Outstanding(n, g)
            BY <2>1, <3>1 DEF Outstanding, InProgress
        <3> QED
            BY <2>1, <3>1, <3>2 DEF NothingIsMissed
    <2> QED
        BY <2>2, <2>3
<1>13. NothingIsRepeated'
    BY <1>3, <1>4 DEF NothingIsRepeated
<1> QED
    BY <1>5, <1>6, <1>7, <1>10, <1>11, <1>12, <1>13

LEMMA ConnectStep ==
    ASSUME IInv, NEW f \in Sockets, Connect(f)
    PROVE  IInv'
<1>1. /\ Len(log) \in Nat /\ DOMAIN log = 1..Len(log) /\ Len(log) <= MaxSeq
      /\ MaxSeq \in Nat
    BY LogTyped DEF IInv
<1>2. PICK since : since = Len(log)
    OBVIOUS
<1>3. /\ conn[f].pc = "new" /\ conn' = [conn EXCEPT ![f] = Fresh("live", since, {})]
      /\ table' = table \cup {f} /\ open' = open \cup {f}
      /\ UNCHANGED <<log, buffer, emit, cut>>
    BY <1>2 DEF Connect
<1>4. since \in 0..MaxSeq /\ since <= Len(log') /\ \A n \in DOMAIN log : ~(n > since)
    BY <1>1, <1>2, <1>3
<1>5. PICK missed \in SUBSET (DOMAIN log) : missed = {}
    OBVIOUS
<1>6. \A n \in missed : n > since
    BY <1>5
<1>7. \A n \in DOMAIN log : n > since /\ log[n] # Resync => n \in missed
    BY <1>4
<1>8. conn' = [conn EXCEPT ![f] = Fresh("live", since, missed)]
    BY <1>3, <1>5
<1>9. since \in 0..MaxSeq /\ since <= Len(log')
    BY <1>4
<1> QED
    BY <1>3, <1>5, <1>6, <1>7, <1>8, <1>9, ClientEnters

\* What is not too old is in the buffer.
LEMMA BufferAnswers ==
    ASSUME IInv, NEW last \in 0..MaxSeq, ~TooOld(last)
    PROVE  \A n \in DOMAIN log : n > last /\ log[n] # Resync => n \in Elements(buffer)
<1>1. CASE buffer = <<>>
    BY <1>1 DEF IInv, BufferIsRecent
<1>2. CASE buffer # <<>>
    <2>1. Head(buffer) \in Numbers /\ Numbers \subseteq Int /\ DOMAIN log \subseteq Int
        BY <1>2, HeadTailProperties, LogTyped DEF IInv, TypeOK, Numbers
    <2>2. PICK head : head = Head(buffer)
        OBVIOUS
    <2>3. ~(last < head)
        BY <1>2, <2>2 DEF TooOld
    <2>5. last \in Int
        BY BoundAssumption
    <2>6. head \in Int
        BY <2>1, <2>2
    <2>4. \A n \in Int : n > last => n >= head
        BY <2>3, <2>5, <2>6
    <2> QED
        BY <1>2, <2>1, <2>2, <2>4 DEF IInv, BufferIsRecent
<1> QED
    BY <1>1, <1>2

LEMMA ReconnectStep ==
    ASSUME IInv, NEW f \in Sockets, NEW last \in 0..MaxSeq, Reconnect(f, last)
    PROVE  IInv'
<1>1. /\ Len(log) \in Nat /\ DOMAIN log = 1..Len(log) /\ Len(log) <= MaxSeq
      /\ MaxSeq \in Nat
    BY LogTyped DEF IInv
<1>2. conn[f].pc = "new" /\ ~TooOld(last)
    BY DEF Reconnect
<1>3. PICK missed : missed = {n \in Elements(buffer) : n > last}
    OBVIOUS
<1>4. PICK since : since = IF last < Len(log) THEN last ELSE Len(log)
    OBVIOUS
<1>5. PICK pc : pc = IF missed = {} THEN "live" ELSE "replaying"
    OBVIOUS
<1>7. conn' = [conn EXCEPT ![f] = Fresh(pc, since, missed)]
    BY <1>3, <1>4, <1>5 DEF Reconnect
<1>8. Elements(buffer) \subseteq DOMAIN log
    BY DEF IInv, BufferIsRecent, Elements
<1>9. since \in 0..MaxSeq /\ since \in Int /\ last \in Int
    <2>1. last \in Int /\ Len(log) \in 0..MaxSeq /\ Len(log) \in Int
        BY <1>1
    <2> QED
        BY <1>4, <2>1
<1>10. since <= Len(log) /\ since <= last /\ (since = Len(log) \/ since = last)
    <2>1. (since = last /\ last < Len(log)) \/ (since = Len(log) /\ ~(last < Len(log)))
        BY <1>4
    <2>2. last < Len(log) => last <= Len(log)
        BY <1>1, <1>9
    <2>3. ~(last < Len(log)) => Len(log) <= last
        BY <1>1, <1>9, NotLess
    <2>4. last <= last /\ Len(log) <= Len(log)
        BY <1>1, <1>9
    <2> QED
        BY <2>1, <2>2, <2>3, <2>4
<1>11. \A n \in DOMAIN log : n \in Int /\ n <= Len(log)
    BY <1>1
<1>12. missed \in SUBSET (DOMAIN log) /\ \A n \in missed : n > since
    BY <1>3, <1>8, <1>9, <1>10, <1>11
<1>13. \A n \in DOMAIN log : n > since /\ log[n] # Resync => n \in missed
    <2>1. ASSUME NEW n \in DOMAIN log, n > since PROVE n > last
        <3>1. since # Len(log)
            BY <1>9, <1>11, <2>1
        <3> QED
            BY <1>10, <2>1, <3>1
    <2> QED
        BY <1>2, <1>3, <2>1, BufferAnswers
<1>14. /\ table' = table \cup {f} /\ open' = open \cup {f}
       /\ UNCHANGED <<log, buffer, emit, cut>>
    BY DEF Reconnect
<1> QED
    BY <1>2, <1>5, <1>7, <1>9, <1>10, <1>12, <1>13, <1>14, ClientEnters

LEMMA ReconnectTooLateStep ==
    ASSUME IInv, NEW f \in Sockets, NEW last \in 0..MaxSeq, ReconnectTooLate(f, last)
    PROVE  IInv'
<1>1. /\ Len(log) \in Nat /\ DOMAIN log = 1..Len(log) /\ Len(log) < MaxSeq
      /\ MaxSeq \in Nat
    BY LogTyped DEF IInv, ReconnectTooLate
<1>2. conn[f].pc = "new"
    BY DEF ReconnectTooLate
<1>3. PICK since : since = Len(log) + 1
    OBVIOUS
<1>5. conn' = [conn EXCEPT ![f] = Fresh("resyncing", since, {})]
    BY <1>3 DEF ReconnectTooLate
<1>6. /\ table' = table \cup {f} /\ open' = open \cup {f}
      /\ UNCHANGED <<buffer, emit, cut>> /\ log' = Append(log, Resync)
    BY DEF ReconnectTooLate
<1>7. Len(log') = Len(log) + 1
    BY <1>6, Appended DEF IInv, TypeOK
<1>8. since \in 0..MaxSeq /\ since <= Len(log') /\ \A n \in DOMAIN log : ~(n > since)
    BY <1>1, <1>3, <1>7
<1>9. PICK missed \in SUBSET (DOMAIN log) : missed = {}
    OBVIOUS
<1>10. \A n \in missed : n > since
    BY <1>9
<1>11. \A n \in DOMAIN log : n > since /\ log[n] # Resync => n \in missed
    BY <1>8
<1>12. conn' = [conn EXCEPT ![f] = Fresh("resyncing", since, missed)]
    BY <1>5, <1>9
<1>13. since \in 0..MaxSeq /\ since <= Len(log') /\ Len(log) < MaxSeq
    BY <1>1, <1>8
<1> QED
    BY <1>2, <1>6, <1>9, <1>10, <1>11, <1>12, <1>13, ClientEnters

LEMMA ReplayStep ==
    ASSUME IInv, NEW f \in Sockets, Replay(f)
    PROVE  IInv'
<1> USE DEF IInv
<1>1. /\ conn \in [Sockets -> Connection] /\ conn[f].pc = "replaying"
      /\ UNCHANGED <<log, buffer, table, open, emit, cut>>
    BY DEF Replay, TypeOK
<1>2. /\ conn[f].since \in 0..MaxSeq /\ conn[f].missed \subseteq Numbers
      /\ conn[f].received \in Seq(Numbers) /\ conn[f].missed # {}
    BY <1>1, ConnTyped DEF ReplaysAreOwed
<1>3. PICK n : n = LeastOf(conn[f].missed)
    OBVIOUS
<1>4. n \in conn[f].missed /\ n \in Numbers
    <2>1. conn[f].missed \in SUBSET Nat
        BY <1>2, BoundAssumption DEF Numbers
    <2> QED
        BY <1>2, <1>3, <2>1, LeastExists
<1>5. PICK rest : rest = conn[f].missed \ {n}
    OBVIOUS
<1>6. PICK pc : pc = IF rest = {} THEN "live" ELSE "replaying"
    OBVIOUS
<1>7. PICK got : got = Append(conn[f].received, n)
    OBVIOUS
<1>8. got \in Seq(Numbers) /\ Elements(got) = Elements(conn[f].received) \cup {n}
    BY <1>2, <1>4, <1>7, Appended, ElementsGrow
<1> DEFINE row == [pc |-> pc, since |-> conn[f].since, missed |-> rest, received |-> got]
<1>9. row \in Connection
    BY <1>2, <1>5, <1>6, <1>8 DEF Connection
<1>10. /\ row.pc = pc /\ row.since = conn[f].since /\ row.missed = rest
       /\ row.received = got
    OBVIOUS
<1>11. conn' = [conn EXCEPT ![f] = row]
    BY <1>1, <1>3, <1>5, <1>6, <1>7 DEF Replay
<1> HIDE DEF row
<1>12. /\ conn' \in [Sockets -> Connection] /\ conn'[f] = row
       /\ \A g \in Sockets \ {f} : conn'[g] = conn[g]
    BY <1>1, <1>9, <1>11
<1>13. TypeOK'
    BY <1>1, <1>12 DEF TypeOK
<1>14. BufferIsRecent'
    BY <1>1 DEF BufferIsRecent
<1>15. NewIsUntouched'
    BY <1>1, <1>6, <1>10, <1>12 DEF NewIsUntouched
<1>16. n > conn[f].since /\ n \in DOMAIN log
    BY <1>4 DEF ReplaysAreOwed
<1>17. n \in cut \/ n \notin Elements(conn[f].received)
    BY <1>4 DEF ReplaysAreOwed
<1>18. ReplaysAreOwed'
    BY <1>1, <1>5, <1>6, <1>8, <1>10, <1>12, <1>16 DEF ReplaysAreOwed
<1>19. BroadcastsAreOwed'
    <2>1. \A e \in Emitters : emit[e].clients \subseteq Sockets
        BY DEF TypeOK, Broadcast
    <2>2. \A e \in Emitters : emit[e].pc = "sending" =>
              (f \in emit[e].clients \ emit[e].visited => emit[e].number # n)
        BY <1>4 DEF BroadcastsAreOwed
    <2> QED
        BY <1>1, <1>5, <1>8, <1>10, <1>12, <2>1, <2>2 DEF BroadcastsAreOwed
<1>20. NothingIsMissed'
    <2> SUFFICES ASSUME NEW g \in table \cap open, NEW m \in DOMAIN log, Outstanding(m, g)'
                 PROVE  m \in cut
        BY <1>1 DEF NothingIsMissed
    <2>1. g \in Sockets
        BY DEF TypeOK
    <2>2. Outstanding(m, g)
        BY <1>1, <1>5, <1>8, <1>10, <1>12, <2>1 DEF Outstanding, InProgress
    <2> QED
        BY <2>2 DEF NothingIsMissed
<1>21. NothingIsRepeated'
    <2>1. \A g \in Sockets : SentOnce(conn[g].received, conn[g].since, cut)
        BY DEF NothingIsRepeated, SentOnce
    <2>2. SentOnce(got, conn[f].since, cut)
        BY <1>2, <1>4, <1>7, <1>16, <1>17, <2>1, SentOnceMore
    <2>3. \A g \in Sockets : SentOnce(conn'[g].received, conn'[g].since, cut)
        BY <1>10, <1>12, <2>1, <2>2
    <2> QED
        BY <1>1, <2>3 DEF NothingIsRepeated, SentOnce
<1> QED
    BY <1>13, <1>14, <1>15, <1>18, <1>19, <1>20, <1>21

-----------------------------------------------------------------------------
(* Broadcasts *)

\* What a send does to the broadcast and to the client, if it gets there.
LEMMA Sending ==
    ASSUME TypeOK, NEW e \in Emitters, NEW f \in Sockets, NEW b \in Broadcast,
           b.number \in Numbers, SendTo(e, b, f)
    PROVE  /\ emit' \in [Emitters -> Broadcast]
           /\ emit'[e].pc = b.pc /\ emit'[e].number = b.number
           /\ emit'[e].clients = b.clients /\ emit'[e].visited = b.visited \cup {f}
           /\ \A d \in Emitters \ {e} : emit'[d] = emit[d]
           /\ conn' \in [Sockets -> Connection]
           /\ \A g \in Sockets \ {f} : conn'[g] = conn[g]
           /\ conn'[f].pc = conn[f].pc /\ conn'[f].since = conn[f].since
           /\ conn'[f].missed = conn[f].missed
           /\ \/ conn'[f].received = Append(conn[f].received, b.number)
              \/ f \notin open /\ conn'[f].received = conn[f].received
<1>1. emit \in [Emitters -> Broadcast] /\ conn \in [Sockets -> Connection]
    BY DEF TypeOK
<1>2. CASE /\ emit' = [emit EXCEPT ![e] = [b EXCEPT !.visited = @ \cup {f}]]
           /\ conn' = [conn EXCEPT ![f].received = Append(@, b.number)]
    <2> DEFINE c == [b EXCEPT !.visited = @ \cup {f}]
    <2>1. /\ c \in Broadcast /\ c.pc = b.pc /\ c.number = b.number
          /\ c.clients = b.clients /\ c.visited = b.visited \cup {f}
        BY DEF Broadcast
    <2>2. PICK got : got = Append(conn[f].received, b.number)
        OBVIOUS
    <2>3. got \in Seq(Numbers)
        BY <2>2, ConnTyped, Appended
    <2> DEFINE row == [conn[f] EXCEPT !.received = got]
    <2>4. /\ row \in Connection /\ row.pc = conn[f].pc /\ row.since = conn[f].since
          /\ row.missed = conn[f].missed /\ row.received = got
        BY <1>1, <2>3 DEF Connection
    <2>5. emit' = [emit EXCEPT ![e] = c] /\ conn' = [conn EXCEPT ![f] = row]
        BY <1>1, <1>2, <2>2
    <2> HIDE DEF c, row
    <2> QED
        BY <1>1, <2>1, <2>2, <2>4, <2>5
<1>3. CASE /\ f \notin open /\ UNCHANGED conn
           /\ emit' = [emit EXCEPT ![e] = [b EXCEPT !.visited = @ \cup {f},
                                                    !.failed = @ \cup {f}]]
    <2> DEFINE c == [b EXCEPT !.visited = @ \cup {f}, !.failed = @ \cup {f}]
    <2>1. /\ c \in Broadcast /\ c.pc = b.pc /\ c.number = b.number
          /\ c.clients = b.clients /\ c.visited = b.visited \cup {f}
        BY DEF Broadcast
    <2>2. emit' = [emit EXCEPT ![e] = c]
        BY <1>3
    <2> HIDE DEF c
    <2> QED
        BY <1>1, <1>3, <2>1, <2>2
<1> QED
    BY <1>2, <1>3 DEF SendTo

\* A send that reaches f leaves it right: what it gets is owed and new, or cut.
LEMMA SendKeeps ==
    ASSUME IInv, NEW f \in Sockets, NEW n \in Numbers, cut \subseteq cut',
           conn' \in [Sockets -> Connection],
           \A g \in Sockets \ {f} : conn'[g] = conn[g],
           conn'[f].since = conn[f].since,
           \/ conn'[f].received = Append(conn[f].received, n)
           \/ conn'[f].received = conn[f].received,
           \/ n \in cut'
           \/ n > conn[f].since /\ n \notin Elements(conn[f].received)
    PROVE  NothingIsRepeated'
<1>1. conn[f].received \in Seq(Numbers)
    BY ConnTyped DEF IInv
<1>2. \A g \in Sockets : SentOnce(conn[g].received, conn[g].since, cut)
    BY DEF IInv, NothingIsRepeated, SentOnce
<1>3. \A g \in Sockets : SentOnce(conn[g].received, conn[g].since, cut')
    BY <1>2 DEF SentOnce
<1>4. SentOnce(Append(conn[f].received, n), conn[f].since, cut')
    BY <1>1, <1>2, SentOnceMore
<1>5. \A g \in Sockets : SentOnce(conn'[g].received, conn'[g].since, cut')
    BY <1>3, <1>4
<1> QED
    BY <1>5 DEF NothingIsRepeated, SentOnce

LEMMA ContinueStep ==
    ASSUME IInv, NEW e \in Emitters, Continue(e)
    PROVE  IInv'
<1> USE DEF IInv
<1>1. /\ emit[e].pc = "sending" /\ NoteChange(e)
      /\ UNCHANGED <<log, buffer, table, open>>
    BY DEF Continue
<1>2. PICK f \in Unvisited(e) : SendTo(e, emit[e], f)
    BY DEF Continue
<1>3. PICK n : n = emit[e].number
    OBVIOUS
<1>4. n \in DOMAIN log /\ n \in Numbers /\ emit[e] \in Broadcast
    BY <1>1, <1>3, LogTyped DEF BroadcastsAreOwed, TypeOK
<1>5. f \in table /\ f \in Sockets /\ f \notin emit[e].visited
    BY <1>2 DEF Unvisited, TypeOK
<1>6. /\ emit' \in [Emitters -> Broadcast]
      /\ emit'[e].pc = "sending" /\ emit'[e].number = n
      /\ emit'[e].clients = emit[e].clients
      /\ emit'[e].visited = emit[e].visited \cup {f}
      /\ \A d \in Emitters \ {e} : emit'[d] = emit[d]
      /\ conn' \in [Sockets -> Connection]
      /\ \A g \in Sockets \ {f} : conn'[g] = conn[g]
      /\ conn'[f].pc = conn[f].pc /\ conn'[f].since = conn[f].since
      /\ conn'[f].missed = conn[f].missed
      /\ \/ conn'[f].received = Append(conn[f].received, n)
         \/ f \notin open /\ conn'[f].received = conn[f].received
    BY <1>1, <1>2, <1>3, <1>4, <1>5, Sending
<1>7. cut \subseteq cut' /\ cut' \subseteq cut \cup {n}
    BY <1>1, <1>3 DEF NoteChange
<1>8. Elements(Append(conn[f].received, n)) = Elements(conn[f].received) \cup {n}
    BY <1>4, <1>5, ConnTyped, ElementsGrow
<1>9. \/ n \in cut'
      \/ /\ n > conn[f].since /\ n \notin conn[f].missed
         /\ n \notin Elements(conn[f].received)
    <2>1. CASE table = emit[e].clients
        BY <1>1, <1>3, <1>5, <2>1 DEF BroadcastsAreOwed
    <2>2. CASE table # emit[e].clients
        BY <1>1, <1>3, <2>2 DEF NoteChange
    <2> QED
        BY <2>1, <2>2
<1>10. TypeOK'
    BY <1>1, <1>4, <1>6, <1>7 DEF TypeOK
<1>11. BufferIsRecent'
    BY <1>1 DEF BufferIsRecent
<1>12. NewIsUntouched'
    <2>1. conn[f].pc # "new"
        BY <1>5 DEF NewIsUntouched
    <2> QED
        BY <1>1, <1>6, <2>1 DEF NewIsUntouched
<1>13. ReplaysAreOwed'
    <2>1. Elements(conn'[f].received) \subseteq Elements(conn[f].received) \cup {n}
        BY <1>6, <1>8
    <2>2. /\ Elements(conn'[f].received) \subseteq DOMAIN log
          /\ conn[f].missed \cap Elements(conn'[f].received) \subseteq cut'
        BY <1>4, <1>5, <1>7, <1>9, <2>1 DEF ReplaysAreOwed
    <2> QED
        BY <1>1, <1>6, <1>7, <2>2 DEF ReplaysAreOwed
<1>14. BroadcastsAreOwed'
    <2>1. \A d \in Emitters : emit'[d].clients \subseteq Sockets
        BY <1>6 DEF Broadcast
    <2>2. \A d \in Emitters : /\ emit'[d].pc = emit[d].pc
                              /\ emit'[d].number = emit[d].number
        BY <1>1, <1>3, <1>6
    <2>3. ASSUME NEW d \in Emitters, emit[d].pc = "sending",
                 NEW g \in emit'[d].clients \ emit'[d].visited
          PROVE  /\ emit[d].number > conn'[g].since
                 /\ emit[d].number \notin conn'[g].missed
                 /\ emit[d].number \notin Elements(conn'[g].received)
        <3>1. g \in Sockets /\ g \in emit[d].clients \ emit[d].visited
            BY <1>6, <2>1, <2>3
        <3>2. /\ emit[d].number > conn[g].since
              /\ emit[d].number \notin conn[g].missed
              /\ emit[d].number \notin Elements(conn[g].received)
            BY <2>3, <3>1 DEF BroadcastsAreOwed
        <3>3. g = f => d # e /\ emit[d].number # n
            BY <1>1, <1>3, <1>6, <2>3 DEF BroadcastsAreOwed
        <3> QED
            BY <1>6, <1>8, <3>1, <3>2, <3>3
    <2> QED
        BY <1>1, <2>2, <2>3 DEF BroadcastsAreOwed
<1>15. NothingIsMissed'
    <2> SUFFICES ASSUME NEW g \in table \cap open, NEW m \in DOMAIN log, Outstanding(m, g)'
                 PROVE  m \in cut'
        BY <1>1 DEF NothingIsMissed
    <2>1. /\ g \in Sockets /\ m > conn[g].since /\ m \notin conn[g].missed
          /\ log[m] # Resync /\ ShouldDeliver(g, log[m])
          /\ m \notin Elements(conn'[g].received)
        BY <1>1, <1>6 DEF Outstanding, TypeOK
    <2>2. m \notin Elements(conn[g].received)
        BY <1>6, <1>8, <2>1
    <2>3. ~InProgress(m, g)
        <3> SUFFICES ASSUME NEW d \in Emitters, emit[d].pc = "sending", emit[d].number = m,
                            g \in emit[d].clients \ emit[d].visited
                     PROVE  FALSE
            BY DEF InProgress
        <3>1. ~InProgress(m, g)'
            BY DEF Outstanding
        <3>2. d = e
            BY <1>6, <3>1 DEF InProgress
        <3>3. m = n /\ g = f
            BY <1>3, <1>6, <3>1, <3>2 DEF InProgress
        <3> QED
            BY <1>6, <1>8, <2>1, <3>3
    <2> QED
        BY <1>7, <2>1, <2>2, <2>3 DEF NothingIsMissed, Outstanding
<1>16. NothingIsRepeated'
    BY <1>4, <1>5, <1>6, <1>7, <1>9, SendKeeps
<1> QED
    BY <1>10, <1>11, <1>12, <1>13, <1>14, <1>15, <1>16

LEMMA BroadcastEnds ==
    ASSUME IInv, NEW e \in Emitters, Finish(e) \/ Interrupted(e)
    PROVE  IInv'
<1>1. /\ emit[e].pc = "sending" /\ NoteChange(e) /\ table' \subseteq table
      /\ emit' = [emit EXCEPT ![e] = IdleBroadcast]
      /\ UNCHANGED <<log, buffer, open, conn>>
      /\ Unvisited(e) = {} \/ table # emit[e].clients
    BY DEF Finish, Interrupted
<1>2. cut \subseteq cut' /\ cut' \subseteq cut \cup {emit[e].number}
    BY <1>1 DEF NoteChange
<1>3. emit[e].number \in Numbers
    BY <1>1, LogTyped DEF IInv, BroadcastsAreOwed
<1>4. IdleBroadcast \in Broadcast /\ IdleBroadcast.pc = "idle"
    BY BoundAssumption DEF IdleBroadcast, Broadcast
<1>5. /\ emit' \in [Emitters -> Broadcast] /\ emit'[e] = IdleBroadcast
      /\ \A d \in Emitters \ {e} : emit'[d] = emit[d]
    BY <1>1, <1>4 DEF IInv, TypeOK
<1>6. TypeOK'
    BY <1>1, <1>2, <1>3, <1>5 DEF IInv, TypeOK
<1>7. EndsWell(e)
    BY <1>1, <1>4, <1>5 DEF EndsWell, NoteChange
<1> QED
    BY <1>1, <1>2, <1>5, <1>6, <1>7, QuietStep

\* The buffer stays the end of the log, whatever expires.
LEMMA BufferGoesOn ==
    ASSUME IInv, NEW topic \in Topics, Len(log) < MaxSeq, log' = Append(log, topic),
           NEW expired \in 0..Len(buffer),
           buffer' = Append(SubSeq(buffer, expired + 1, Len(buffer)), Len(log) + 1)
    PROVE  buffer' \in Seq(Numbers) /\ BufferIsRecent'
<1>1. PICK n : n = Len(log) + 1
    OBVIOUS
<1>2. /\ DOMAIN log' = DOMAIN log \cup {n} /\ n \notin DOMAIN log /\ n \in Numbers
      /\ \A m \in DOMAIN log : log'[m] = log[m]
    BY <1>1, LogGrows DEF IInv
<1>3. \A m \in DOMAIN log : m \in Int /\ m < n
    BY <1>1, LogTyped DEF IInv
<1>4. PICK l : l = Len(buffer)
    OBVIOUS
<1>5. l \in Nat /\ expired \in 0..l /\ DOMAIN buffer = 1..l /\ buffer \in Seq(Numbers)
    BY <1>4, LenProperties DEF IInv, TypeOK
<1>6. \A i \in 1..l : buffer[i] \in DOMAIN log /\ buffer[i] \in Numbers
    BY <1>5, ElementOfSeq, <1>4 DEF IInv, BufferIsRecent
<1>7. \A i, j \in 1..l : i < j => buffer[i] < buffer[j]
    BY <1>5 DEF IInv, BufferIsRecent
<1>8. PICK kept : kept = SubSeq(buffer, expired + 1, l)
    OBVIOUS
<1>9. /\ kept \in Seq(Numbers) /\ Len(kept) = l - expired
      /\ \A i \in 1..l-expired : kept[i] = buffer[expired + i]
    <2>1. /\ expired + 1 \in Int /\ l \in Int
          /\ \A i \in expired+1..l : buffer[i] \in Numbers
        BY <1>5, <1>6
    <2>2. /\ kept \in Seq(Numbers)
          /\ Len(kept) = IF expired + 1 <= l THEN l - (expired + 1) + 1 ELSE 0
          /\ \A i \in 1..l-(expired+1)+1 : kept[i] = buffer[(expired + 1) + i - 1]
        BY <1>8, <2>1, SubSeqProperties
    <2>3. Len(kept) = l - expired
        BY <1>5, <2>2
    <2>4. \A i \in 1..l-expired : i \in 1..l-(expired+1)+1 /\ (expired + 1) + i - 1 = expired + i
        BY <1>5
    <2> QED
        BY <2>2, <2>3, <2>4
<1>10. PICK k \in Nat : k = l - expired
    BY <1>5
<1>11. PICK new : new = buffer'
    OBVIOUS
<1>12. /\ new \in Seq(Numbers) /\ DOMAIN new = 1..k+1
       /\ \A i \in 1..k : new[i] = buffer[expired + i] /\ expired + i \in 1..l
       /\ new[k + 1] = n
    <2>1. /\ new \in Seq(Numbers) /\ DOMAIN new = 1..k+1
          /\ \A i \in 1..k : new[i] = kept[i]
          /\ new[k + 1] = n
        BY <1>1, <1>2, <1>4, <1>8, <1>9, <1>10, <1>11, Appended
    <2>2. \A i \in 1..k : expired + i \in 1..l
        BY <1>5, <1>10
    <2> QED
        BY <1>9, <1>10, <2>1, <2>2
<1>13. \A i \in 1..k+1 : i \in 1..k \/ i = k + 1
    BY <1>10
<1>14. \A i, j \in 1..k+1 : i < j => new[i] < new[j]
    <2> SUFFICES ASSUME NEW i \in 1..k+1, NEW j \in 1..k+1, i < j
                 PROVE  new[i] < new[j]
        OBVIOUS
    <2>1. i \in 1..k
        BY <1>10
    <2>2. CASE j = k + 1
        BY <1>3, <1>6, <1>12, <2>1, <2>2
    <2>3. CASE j \in 1..k
        <3>1. expired + i < expired + j
            BY <1>5, <2>1, <2>3
        <3> QED
            BY <1>7, <1>12, <2>1, <2>3, <3>1
    <2> QED
        BY <1>13, <2>2, <2>3
<1>15. \A i \in 1..k+1 : new[i] \in DOMAIN log'
    <2>1. \A i \in 1..k : new[i] \in DOMAIN log'
        BY <1>2, <1>6, <1>12
    <2>2. new[k + 1] \in DOMAIN log'
        BY <1>2, <1>12
    <2> QED
        BY <1>13, <2>1, <2>2
<1>16. new # <<>> /\ Head(new) = new[1]
    <2>1. 1 \in DOMAIN new
        BY <1>10, <1>12
    <2> QED
        BY <2>1, EmptySeq
<1>17. ASSUME NEW m \in DOMAIN log', log'[m] # Resync, m >= new[1]
       PROVE  m \in Elements(new)
    <2>1. CASE m = n
        BY <1>10, <1>12, <2>1 DEF Elements
    <2>2. CASE m \in DOMAIN log
        <3>1. m \in Int /\ m < n /\ n \in Int /\ log[m] # Resync
            BY <1>2, <1>3, <1>17, <2>2 DEF Numbers
        <3>2. k # 0
            BY <1>12, <1>17, <3>1
        <3>3. /\ 1 \in 1..k /\ expired + 1 \in 1..l /\ new[1] = buffer[expired + 1]
              /\ 1 \in 1..l
            BY <1>5, <1>10, <1>12, <3>2
        <3>4. PICK low : low = buffer[expired + 1]
            OBVIOUS
        <3>5. PICK first : first = buffer[1]
            OBVIOUS
        <3>6. low \in Int /\ first \in Int /\ m >= low
            BY <1>3, <1>6, <1>17, <3>3, <3>4, <3>5
        <3>7. low >= first
            <4>1. CASE expired = 0
                BY <3>4, <3>5, <3>6, <4>1
            <4>2. CASE expired # 0
                <5>1. 1 < expired + 1
                    BY <1>5, <4>2
                <5>2. first < low
                    BY <1>7, <3>3, <3>4, <3>5, <5>1
                <5> QED
                    BY <3>6, <5>2
            <4> QED
                BY <4>1, <4>2
        <3>8. buffer # <<>> /\ Head(buffer) = first
            <4>1. 1 \in DOMAIN buffer
                BY <1>5, <3>3
            <4> QED
                BY <3>5, <4>1, EmptySeq
        <3>9. m >= first
            BY <3>1, <3>6, <3>7
        <3>10. m \in Elements(buffer)
            BY <2>2, <3>1, <3>8, <3>9 DEF IInv, BufferIsRecent
        <3>11. PICK i \in 1..l : m = buffer[i]
            BY <1>5, <3>10 DEF Elements
        <3>12. ~(i < expired + 1)
            BY <1>7, <3>1, <3>3, <3>4, <3>6, <3>11
        <3>13. i - expired \in 1..k /\ expired + (i - expired) = i
            BY <1>5, <1>10, <3>12
        <3>14. new[i - expired] = m
            BY <1>12, <3>11, <3>13
        <3> QED
            BY <1>10, <1>12, <3>13, <3>14 DEF Elements
    <2> QED
        BY <1>2, <2>1, <2>2
<1> QED
    BY <1>11, <1>12, <1>14, <1>15, <1>16, <1>17 DEF BufferIsRecent

\* A number that was not drawn before is owed to everyone and sent to nobody.
LEMMA NumberIsNew ==
    ASSUME IInv, NEW n, n = Len(log) + 1
    PROVE  /\ n \notin DOMAIN log
           /\ \A g \in Sockets :
                  /\ n > conn[g].since /\ n \notin conn[g].missed
                  /\ n \notin Elements(conn[g].received)
           /\ \A e \in Emitters : emit[e].pc = "sending" => emit[e].number # n
<1>1. Len(log) \in Nat /\ MaxSeq \in Nat /\ DOMAIN log = 1..Len(log)
    BY LogTyped DEF IInv
<1>2. n \notin DOMAIN log
    BY <1>1
<1>3. \A g \in Sockets : conn[g].since \in 0..MaxSeq /\ conn[g].since <= Len(log)
    BY ConnTyped DEF IInv, ReplaysAreOwed
<1>4. \A g \in Sockets : n > conn[g].since
    BY <1>1, <1>3
<1>5. \A g \in Sockets : n \notin conn[g].missed /\ n \notin Elements(conn[g].received)
    BY <1>2 DEF IInv, ReplaysAreOwed
<1>6. \A e \in Emitters : emit[e].pc = "sending" => emit[e].number # n
    BY <1>2 DEF IInv, BroadcastsAreOwed
<1> QED
    BY <1>2, <1>4, <1>5, <1>6

\* The number is drawn and stored, and the event is for nobody in the table.
LEMMA EmitToNobody ==
    ASSUME IInv, NEW n, n = Len(log) + 1, NEW topic \in Topics, TypeOK', BufferIsRecent',
           DOMAIN log' = DOMAIN log \cup {n}, \A m \in DOMAIN log : log'[m] = log[m],
           log'[n] = topic, Len(log) <= Len(log'), Len(log') \in Nat,
           \A f \in table : ~ShouldDeliver(f, topic),
           UNCHANGED <<conn, emit, table, open, cut>>
    PROVE  IInv'
<1> USE DEF IInv
<1>1. \A g \in Sockets : conn[g].since <= Len(log')
    <2>1. Len(log) \in Nat
        BY LogTyped
    <2>2. \A g \in Sockets : conn[g].since \in Int /\ conn[g].since <= Len(log)
        BY ConnTyped, LogTyped DEF ReplaysAreOwed
    <2> QED
        BY <2>1, <2>2
<1>2. NewIsUntouched'
    BY DEF NewIsUntouched
<1>3. ReplaysAreOwed'
    BY <1>1 DEF ReplaysAreOwed
<1>4. BroadcastsAreOwed'
    BY DEF BroadcastsAreOwed
<1>5. NothingIsMissed'
    <2> SUFFICES ASSUME NEW g \in table \cap open, NEW m \in DOMAIN log', Outstanding(m, g)'
                 PROVE  m \in cut
        BY DEF NothingIsMissed
    <2>1. m \in DOMAIN log /\ log'[m] = log[m]
        BY DEF Outstanding
    <2>2. Outstanding(m, g)
        BY <2>1 DEF Outstanding, InProgress
    <2> QED
        BY <2>1, <2>2 DEF NothingIsMissed
<1>6. NothingIsRepeated'
    BY DEF NothingIsRepeated
<1> QED
    BY <1>2, <1>3, <1>4, <1>5, <1>6

\* The number is drawn and stored, and a first client is sent the event.
LEMMA EmitToFirst ==
    ASSUME IInv, NEW n, n = Len(log) + 1, NEW topic \in Topics, TypeOK', BufferIsRecent',
           n \in Numbers,
           DOMAIN log' = DOMAIN log \cup {n}, \A m \in DOMAIN log : log'[m] = log[m],
           log'[n] = topic, Len(log) <= Len(log'), Len(log') \in Nat,
           NEW e \in Emitters, emit[e].pc = "idle", NEW f \in table,
           emit'[e].pc = "sending", emit'[e].number = n, emit'[e].clients = table,
           emit'[e].visited = {f}, \A d \in Emitters \ {e} : emit'[d] = emit[d],
           conn' \in [Sockets -> Connection],
           \A g \in Sockets \ {f} : conn'[g] = conn[g],
           conn'[f].pc = conn[f].pc, conn'[f].since = conn[f].since,
           conn'[f].missed = conn[f].missed,
           \/ conn'[f].received = Append(conn[f].received, n)
           \/ f \notin open /\ conn'[f].received = conn[f].received,
           UNCHANGED <<table, open, cut>>
    PROVE  IInv'
<1> USE DEF IInv
<1>1. /\ n \notin DOMAIN log
      /\ \A g \in Sockets : /\ n > conn[g].since /\ n \notin conn[g].missed
                            /\ n \notin Elements(conn[g].received)
      /\ \A d \in Emitters : emit[d].pc = "sending" => emit[d].number # n
    BY NumberIsNew
<1>2. f \in Sockets /\ table \subseteq Sockets
    BY DEF TypeOK
<1>3. Elements(Append(conn[f].received, n)) = Elements(conn[f].received) \cup {n}
    BY <1>2, ConnTyped, ElementsGrow
<1>4. \A g \in Sockets :
          /\ conn'[g].pc = conn[g].pc /\ conn'[g].since = conn[g].since
          /\ conn'[g].missed = conn[g].missed
          /\ Elements(conn[g].received) \subseteq Elements(conn'[g].received)
          /\ Elements(conn'[g].received) \subseteq Elements(conn[g].received) \cup {n}
    BY <1>2, <1>3
<1>5. \A g \in Sockets : conn[g].since <= Len(log')
    <2>1. Len(log) \in Nat
        BY LogTyped
    <2>2. \A g \in Sockets : conn[g].since \in Int /\ conn[g].since <= Len(log)
        BY ConnTyped, LogTyped DEF ReplaysAreOwed
    <2> QED
        BY <2>1, <2>2
<1>6. NewIsUntouched'
    <2>1. \A g \in table : conn[g].pc # "new"
        BY <1>2 DEF NewIsUntouched
    <2>2. \A g \in Sockets \ {f} : conn'[g] = conn[g]
        OBVIOUS
    <2> QED
        BY <1>2, <1>4, <2>1, <2>2 DEF NewIsUntouched
<1>7. ReplaysAreOwed'
    <2> SUFFICES ASSUME NEW g \in Sockets
                 PROVE  /\ conn[g].pc = "replaying" => conn[g].missed # {}
                        /\ conn[g].since <= Len(log')
                        /\ Elements(conn'[g].received) \subseteq DOMAIN log'
                        /\ conn[g].missed \subseteq {m \in DOMAIN log' : m > conn[g].since}
                        /\ conn[g].missed \cap Elements(conn'[g].received) \subseteq cut
        BY <1>4 DEF ReplaysAreOwed
    <2> QED
        BY <1>1, <1>4, <1>5 DEF ReplaysAreOwed
<1>8. BroadcastsAreOwed'
    <2>1. n \in DOMAIN log' /\ \A d \in Emitters : emit'[d].pc = "sending" /\ d # e =>
              /\ emit[d].pc = "sending" /\ emit'[d].number = emit[d].number
              /\ emit[d].number # n /\ emit[d].number \in DOMAIN log'
        BY <1>1 DEF BroadcastsAreOwed
    <2>2. \A g \in table \ {f} : /\ n > conn'[g].since /\ n \notin conn'[g].missed
                                 /\ n \notin Elements(conn'[g].received)
        BY <1>1, <1>2
    <2>3. ASSUME NEW d \in Emitters \ {e}, emit[d].pc = "sending",
                 NEW g \in emit[d].clients \ emit[d].visited
          PROVE  /\ emit[d].number > conn'[g].since
                 /\ emit[d].number \notin conn'[g].missed
                 /\ emit[d].number \notin Elements(conn'[g].received)
        <3>1. g \in Sockets
            BY DEF TypeOK, Broadcast
        <3>2. /\ emit[d].number > conn[g].since
              /\ emit[d].number \notin conn[g].missed
              /\ emit[d].number \notin Elements(conn[g].received)
            BY <2>3 DEF BroadcastsAreOwed
        <3> QED
            BY <1>1, <1>4, <2>3, <3>1, <3>2
    <2>4. ASSUME NEW d \in Emitters, emit'[d].pc = "sending"
          PROVE  /\ emit'[d].number \in DOMAIN log'
                 /\ \A c \in Emitters \ {d} : emit'[c].pc = "sending" =>
                        emit'[c].number # emit'[d].number
        BY <2>1, <2>4 DEF BroadcastsAreOwed
    <2>5. ASSUME NEW d \in Emitters, emit'[d].pc = "sending",
                 NEW g \in emit'[d].clients \ emit'[d].visited
          PROVE  /\ emit'[d].number > conn'[g].since
                 /\ emit'[d].number \notin conn'[g].missed
                 /\ emit'[d].number \notin Elements(conn'[g].received)
        <3>1. CASE d = e
            BY <2>2, <2>5, <3>1
        <3>2. CASE d # e
            BY <2>3, <2>5, <3>2
        <3> QED
            BY <3>1, <3>2
    <2> QED
        BY <2>4, <2>5 DEF BroadcastsAreOwed
<1>9. NothingIsMissed'
    <2> SUFFICES ASSUME NEW g \in table \cap open, NEW m \in DOMAIN log', Outstanding(m, g)'
                 PROVE  m \in cut
        BY DEF NothingIsMissed
    <2>1. /\ g \in Sockets /\ m > conn[g].since /\ m \notin conn[g].missed
          /\ log'[m] # Resync /\ ShouldDeliver(g, log'[m])
          /\ m \notin Elements(conn'[g].received)
        BY <1>2, <1>4 DEF Outstanding
    <2>2. m # n
        <3> SUFFICES ASSUME m = n PROVE FALSE
            OBVIOUS
        <3>1. g = f
            BY DEF Outstanding, InProgress
        <3> QED
            BY <1>3, <2>1, <3>1
    <2>3. m \in DOMAIN log /\ log'[m] = log[m] /\ m \notin Elements(conn[g].received)
        <3>1. m \in DOMAIN log
            BY <2>2
        <3>2. log'[m] = log[m]
            BY <3>1
        <3>3. m \notin Elements(conn[g].received)
            BY <1>4, <2>1
        <3> QED
            BY <3>1, <3>2, <3>3
    <2>4. ~InProgress(m, g)
        <3> SUFFICES ASSUME NEW d \in Emitters, emit[d].pc = "sending", emit[d].number = m,
                            g \in emit[d].clients \ emit[d].visited
                     PROVE  FALSE
            BY DEF InProgress
        <3>1. emit'[d] = emit[d]
            OBVIOUS
        <3> QED
            BY <3>1 DEF Outstanding, InProgress
    <2> QED
        BY <2>1, <2>3, <2>4 DEF NothingIsMissed, Outstanding
<1>10. NothingIsRepeated'
    <2>1. cut \subseteq cut' /\ n > conn[f].since /\ n \notin Elements(conn[f].received)
        BY <1>1, <1>2
    <2> QED
        BY <1>2, <2>1, SendKeeps
<1> QED
    BY <1>6, <1>7, <1>8, <1>9, <1>10

LEMMA EmitStep ==
    ASSUME IInv, NEW e \in Emitters, NEW topic \in Topics, Emit(e, topic)
    PROVE  IInv'
<1>1. PICK n : n = Len(log) + 1
    OBVIOUS
<1>2. Len(log) \in Nat /\ MaxSeq \in Nat /\ n <= MaxSeq /\ Len(log) < MaxSeq /\ n \in Nat
    BY <1>1, LogTyped DEF IInv, Emit
<1>3. log' = Append(log, topic) /\ emit[e].pc = "idle" /\ UNCHANGED <<table, open, cut>>
    BY DEF Emit
<1>4. /\ log' \in Seq(Topics \cup {Resync}) /\ Len(log') <= MaxSeq
      /\ Len(log) <= Len(log') /\ Len(log') \in Nat
      /\ DOMAIN log' = DOMAIN log \cup {n} /\ n \in Numbers
      /\ \A m \in DOMAIN log : log'[m] = log[m]
      /\ log'[n] = topic
    BY <1>1, <1>2, <1>3, LogGrows DEF IInv
<1>5. buffer' \in Seq(Numbers) /\ BufferIsRecent'
    BY <1>2, <1>3, BufferGoesOn DEF Emit
<1>6. PICK to : to = {f \in table : ShouldDeliver(f, topic)}
    OBVIOUS
<1>7. PICK b : b = [IdleBroadcast EXCEPT !.pc = "sending", !.number = n, !.clients = table]
    OBVIOUS
<1>8. b = [pc |-> "sending", number |-> n, clients |-> table, visited |-> {}, failed |-> {}]
    BY <1>7 DEF IdleBroadcast
<1>9. /\ b \in Broadcast /\ b.pc = "sending" /\ b.number = n /\ b.clients = table
      /\ b.visited = {}
    BY <1>2, <1>8 DEF Broadcast, IInv, TypeOK
<1>10. CASE to = {}
    <2>1. UNCHANGED <<conn, emit>> /\ \A f \in table : ~ShouldDeliver(f, topic)
        BY <1>6, <1>10 DEF Emit
    <2>2. TypeOK'
        BY <1>3, <1>4, <1>5, <2>1 DEF IInv, TypeOK
    <2> QED
        BY <1>1, <1>3, <1>4, <1>5, <2>1, <2>2, EmitToNobody
<1>11. CASE to # {}
    <2>1. PICK f \in to : SendTo(e, b, f)
        BY <1>1, <1>6, <1>7, <1>11 DEF Emit
    <2>2. f \in table /\ f \in Sockets /\ TypeOK
        BY <1>6, <2>1 DEF IInv, TypeOK
    <2>3. /\ emit' \in [Emitters -> Broadcast]
          /\ emit'[e].pc = "sending" /\ emit'[e].number = n
          /\ emit'[e].clients = table /\ emit'[e].visited = {f}
          /\ \A d \in Emitters \ {e} : emit'[d] = emit[d]
          /\ conn' \in [Sockets -> Connection]
          /\ \A g \in Sockets \ {f} : conn'[g] = conn[g]
          /\ conn'[f].pc = conn[f].pc /\ conn'[f].since = conn[f].since
          /\ conn'[f].missed = conn[f].missed
          /\ \/ conn'[f].received = Append(conn[f].received, n)
             \/ f \notin open /\ conn'[f].received = conn[f].received
        BY <1>4, <1>9, <2>1, <2>2, Sending
    <2>4. TypeOK'
        BY <1>3, <1>4, <1>5, <2>2, <2>3 DEF TypeOK
    <2> QED
        BY <1>1, <1>3, <1>4, <1>5, <2>2, <2>3, <2>4, EmitToFirst
<1> QED
    BY <1>10, <1>11

-----------------------------------------------------------------------------
(* The theorems *)

LEMMA InitialInvariant == Init => IInv
<1> SUFFICES ASSUME Init PROVE IInv
    OBVIOUS
<1>1. /\ Fresh("new", 0, {}) \in Connection /\ IdleBroadcast \in Broadcast
      /\ Fresh("new", 0, {}).pc = "new" /\ Fresh("new", 0, {}).received = <<>>
      /\ Fresh("new", 0, {}).missed = {} /\ Fresh("new", 0, {}).since = 0
      /\ IdleBroadcast.pc = "idle"
    BY BoundAssumption, EmptySeq DEF Fresh, Connection, IdleBroadcast, Broadcast
<1>2. /\ log = <<>> /\ buffer = <<>> /\ table = {} /\ open = {} /\ cut = {}
      /\ \A f \in Sockets : conn[f] = Fresh("new", 0, {})
      /\ \A e \in Emitters : emit[e] = IdleBroadcast
    BY DEF Init
<1>3. Len(log) = 0 /\ DOMAIN log = {} /\ DOMAIN buffer = {} /\ Elements(<<>>) = {}
    BY <1>2 DEF Elements
<1>4. TypeOK
    <2>1. log \in Seq(Topics \cup {Resync}) /\ buffer \in Seq(Numbers)
        BY <1>2, EmptySeq
    <2>2. Len(log) <= MaxSeq
        BY <1>3, BoundAssumption
    <2>3. conn \in [Sockets -> Connection] /\ emit \in [Emitters -> Broadcast]
        BY <1>1 DEF Init
    <2> QED
        BY <1>2, <2>1, <2>2, <2>3 DEF TypeOK
<1>5. BufferIsRecent /\ NothingIsMissed
    BY <1>2, <1>3 DEF BufferIsRecent, NothingIsMissed
<1>6. NewIsUntouched /\ BroadcastsAreOwed
    BY <1>1, <1>2 DEF NewIsUntouched, BroadcastsAreOwed
<1>7. ReplaysAreOwed /\ NothingIsRepeated
    BY <1>1, <1>2, <1>3 DEF ReplaysAreOwed, NothingIsRepeated
<1> QED
    BY <1>4, <1>5, <1>6, <1>7 DEF IInv

LEMMA InductiveStep == IInv /\ [Next]_vars => IInv'
<1> SUFFICES ASSUME IInv, [Next]_vars PROVE IInv'
    OBVIOUS
<1>1. ASSUME NEW f \in Sockets, Connect(f) PROVE IInv'
    BY <1>1, ConnectStep
<1>2. ASSUME NEW f \in Sockets, NEW last \in 0..MaxSeq, Reconnect(f, last) PROVE IInv'
    BY <1>2, ReconnectStep
<1>3. ASSUME NEW f \in Sockets, NEW last \in 0..MaxSeq, ReconnectTooLate(f, last)
      PROVE  IInv'
    BY <1>3, ReconnectTooLateStep
<1>4. ASSUME NEW f \in Sockets, Replay(f) PROVE IInv'
    BY <1>4, ReplayStep
<1>5. ASSUME NEW f \in Sockets, SendResync(f) \/ ReplayFails(f) \/ HandlerEnds(f)
      PROVE  IInv'
    BY <1>5, HandlerMoves
<1>6. ASSUME NEW f \in Sockets, HeartbeatFails(f) \/ PeerLeaves(f) \/ DisconnectUser(f)
      PROVE  IInv'
    BY <1>6, ClientLeaves
<1>7. ASSUME NEW e \in Emitters, NEW topic \in Topics, Emit(e, topic) PROVE IInv'
    BY <1>7, EmitStep
<1>8. ASSUME NEW e \in Emitters, Continue(e) PROVE IInv'
    BY <1>8, ContinueStep
<1>9. ASSUME NEW e \in Emitters, Finish(e) \/ Interrupted(e) PROVE IInv'
    BY <1>9, BroadcastEnds
<1>10. ASSUME UNCHANGED vars PROVE IInv'
    <2>1. UNCHANGED <<log, buffer, table, open, conn, emit, cut>>
        BY <1>10 DEF vars
    <2>2. TypeOK'
        BY <2>1 DEF IInv, TypeOK
    <2> QED
        BY <2>1, <2>2, QuietStep
<1> QED
    BY <1>1, <1>2, <1>3, <1>4, <1>5, <1>6, <1>7, <1>8, <1>9, <1>10 DEF Next

\* Numbers, buffer, connections and broadcasts stay what replays and
\* broadcasts rely on: the buffer is the end of the numbering, what a replay or
\* a broadcast has left is owed and unsent (event_store.py: emit, get_after;
\* event_connection_manager.py: broadcast; api/events.py: events_websocket).
THEOREM Invariance == Spec => []IInv
<1>1. Init => IInv
    BY InitialInvariant
<1>2. IInv /\ [Next]_vars => IInv'
    BY InductiveStep
<1> QED
    BY <1>1, <1>2, PTL DEF Spec

\* The numbering, the buffer, the table of clients and every handler and
\* broadcast hold values of their types.
THEOREM TypeCorrect == Spec => []TypeOK
<1>1. IInv => TypeOK
    BY DEF IInv
<1> QED
    BY <1>1, Invariance, PTL

\* A registered client whose connection stands gets every event meant for it
\* after the number it named, by the replay of the buffer or by a broadcast
\* under way, whatever sends and other clients interleave; only an event whose
\* broadcast saw the table of clients change can be lost (get_after, broadcast).
THEOREM NothingMissed == Spec => []NothingIsMissed
<1>1. IInv => NothingIsMissed
    BY DEF IInv
<1> QED
    BY <1>1, Invariance, PTL

\* No connection is sent an event twice or one the client has named as
\* received, though replays and broadcasts of several requests interleave;
\* again except for a broadcast that saw the table change.
THEOREM NothingRepeated == Spec => []NothingIsRepeated
<1>1. IInv => NothingIsRepeated
    BY DEF IInv
<1> QED
    BY <1>1, Invariance, PTL
=============================================================================
