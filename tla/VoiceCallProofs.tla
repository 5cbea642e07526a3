---------------------------- MODULE VoiceCallProofs ----------------------------
(***************************************************************************)
(* The voice calls of one session, for any number of calls and frames.     *)
(*                                                                         *)
(* The argument: a call numbers its lines one after the other, so a line   *)
(* is stored once; what is buffered always is what was recorded last and   *)
(* begins where the stored lines end, except after a handler's end has     *)
(* forgotten lines, and then nothing of the call is stored any more.       *)
(***************************************************************************)
EXTENDS VoiceCall, FiniteSetTheorems, SequenceTheorems, TLAPS

-----------------------------------------------------------------------------
(* Parts of sequences *)

LEMMA PartOf ==
    ASSUME NEW T, NEW all \in Seq(T), NEW a \in Nat, NEW b \in Nat, b <= Len(all)
    PROVE  /\ SubSeq(all, a + 1, b) \in Seq(T)
           /\ Len(SubSeq(all, a + 1, b)) = IF a < b THEN b - a ELSE 0
           /\ \A i \in 1..Len(SubSeq(all, a + 1, b)) :
                  SubSeq(all, a + 1, b)[i] = all[a + i]
<1>1. a + 1 \in Int /\ b \in Int /\ \A i \in a + 1..b : all[i] \in T
    BY ElementOfSeq
<1>2. Len(SubSeq(all, a + 1, b)) = IF a + 1 <= b THEN b - (a + 1) + 1 ELSE 0
    BY <1>1, SubSeqProperties
<1>3. SubSeq(all, a + 1, b) \in Seq(T)
    BY <1>1, SubSeqProperties
<1>4. \A i \in 1..b - (a + 1) + 1 : SubSeq(all, a + 1, b)[i] = all[(a + 1) + i - 1]
    BY <1>1, SubSeqProperties
<1> QED
    BY <1>2, <1>3, <1>4

LEMMA EndPointwise ==
    ASSUME NEW T, NEW rows \in Seq(T), NEW all \in Seq(T), NEW b \in Nat
    PROVE  EndAt(rows, all, b) <=>
             /\ Len(rows) <= b /\ b <= Len(all)
             /\ \A i \in 1..Len(rows) : rows[i] = all[b - Len(rows) + i]
<1>1. Len(rows) \in Nat /\ Len(all) \in Nat
    BY LenProperties
<1>2. CASE Len(rows) <= b /\ b <= Len(all)
    <2> DEFINE part == SubSeq(all, (b - Len(rows)) + 1, b)
    <2>1. b - Len(rows) \in Nat
        BY <1>1, <1>2
    <2>2. part \in Seq(T) /\ Len(part) = Len(rows)
        BY <1>1, <1>2, <2>1, PartOf
    <2>3. \A i \in 1..Len(rows) : part[i] = all[b - Len(rows) + i]
        BY <1>1, <1>2, <2>1, <2>2, PartOf
    <2>4. ASSUME \A i \in 1..Len(rows) : rows[i] = all[b - Len(rows) + i]
          PROVE  rows = part
        <3>1. \A i \in 1..Len(rows) : rows[i] = part[i]
            BY <2>3, <2>4
        <3> HIDE DEF part
        <3> QED
            BY <2>2, <3>1, SeqEqual
    <2> QED
        BY <1>2, <2>3, <2>4 DEF EndAt
<1>3. CASE ~(Len(rows) <= b /\ b <= Len(all))
    BY <1>3 DEF EndAt
<1> QED
    BY <1>2, <1>3

LEMMA PrefixPointwise ==
    ASSUME NEW T, NEW s \in Seq(T), NEW t \in Seq(T)
    PROVE  IsPrefix(s, t) <=>
             Len(s) <= Len(t) /\ \A i \in 1..Len(s) : s[i] = t[i]
<1>1. Len(s) \in Nat /\ Len(t) \in Nat
    BY LenProperties
<1>2. SubSeq(s, 1, Len(s)) = s
    BY SubSeqFull
<1>3. CASE Len(s) <= Len(t)
    <2> DEFINE part == SubSeq(t, 0 + 1, Len(s))
    <2>1. part \in Seq(T) /\ Len(part) = Len(s)
        BY <1>1, <1>3, PartOf
    <2>2. \A i \in 1..Len(s) : part[i] = t[i]
        <3>1. \A i \in 1..Len(part) : part[i] = t[0 + i]
            BY <1>1, <1>3, PartOf
        <3> QED
            BY <1>1, <2>1, <3>1
    <2>3. ASSUME \A i \in 1..Len(s) : s[i] = t[i]
          PROVE  s = part
        <3>1. \A i \in 1..Len(s) : s[i] = part[i]
            BY <2>2, <2>3
        <3> HIDE DEF part
        <3> QED
            BY <2>1, <3>1, SeqEqual
    <2> QED
        BY <1>2, <1>3, <2>2, <2>3 DEF IsPrefix
<1>4. CASE ~(Len(s) <= Len(t))
    BY <1>4 DEF IsPrefix
<1> QED
    BY <1>3, <1>4

\* A session that is handed rows again inserts those that are new, in order.
LEMMA InsertedOnce ==
    ASSUME NEW T, NEW all \in Seq(T), NEW stored \in Seq(T), NEW rows \in Seq(T),
           NEW b \in Nat,
           \A i, j \in 1..Len(all) : all[i] = all[j] => i = j,
           IsPrefix(stored, all), EndAt(rows, all, b),
           b - Len(rows) <= Len(stored)
    PROVE  LET now == stored \o Unstored(stored, rows)
           IN  /\ now \in Seq(T) /\ IsPrefix(now, all)
               /\ Len(now) = IF b > Len(stored) THEN b ELSE Len(stored)
<1> DEFINE s == Len(stored)
           n == Len(rows)
           m == s - b + n + 1
           new == {i \in DOMAIN rows : rows[i] \notin Range(stored)}
           Nth(j) == CHOOSE i \in new : Cardinality({k \in new : k <= i}) = j
           late == Unstored(stored, rows)
<1>1. s \in Nat /\ n \in Nat /\ Len(all) \in Nat /\ DOMAIN rows = 1..n
      /\ DOMAIN stored = 1..s
    BY LenProperties
<1>2. s <= Len(all) /\ \A i \in 1..s : stored[i] = all[i]
    BY PrefixPointwise
<1>3. n <= b /\ b <= Len(all) /\ \A i \in 1..n : rows[i] = all[b - n + i]
    BY EndPointwise
<1>4. m \in Nat \ {0} /\ b - n \in Nat
    BY <1>1, <1>3
<1>5. new = m..n
    <2>1. ASSUME NEW i \in 1..n
          PROVE  rows[i] \in Range(stored) <=> b - n + i <= s
        <3>1. b - n + i \in 1..Len(all) /\ rows[i] = all[b - n + i]
            BY <1>1, <1>3
        <3>2. ASSUME b - n + i <= s
              PROVE  rows[i] \in Range(stored)
            <4>1. b - n + i \in 1..s
                BY <1>1, <3>1, <3>2
            <4>2. stored[b - n + i] = rows[i] /\ b - n + i \in DOMAIN stored
                BY <1>1, <1>2, <3>1, <4>1
            <4> QED
                BY <4>2 DEF Range
        <3>3. ASSUME rows[i] \in Range(stored)
              PROVE  b - n + i <= s
            <4>1. PICK k \in DOMAIN stored : stored[k] = rows[i]
                BY <3>3 DEF Range
            <4>2. k \in 1..s /\ k \in 1..Len(all) /\ all[k] = all[b - n + i]
                BY <1>1, <1>2, <3>1, <4>1
            <4>3. k = b - n + i
                BY <3>1, <4>2
            <4> QED
                BY <4>2, <4>3
        <3> QED
            BY <3>2, <3>3
    <2>2. \A i \in 1..n : rows[i] \notin Range(stored) <=> m <= i
        BY <1>1, <1>4, <2>1
    <2> QED
        BY <1>1, <1>4, <2>2
<1> HIDE DEF new, m, n
<1>6. Cardinality(new) = IF m > n THEN 0 ELSE n - m + 1
    <2>1. Cardinality(m..n) = IF m > n THEN 0 ELSE n - m + 1
        BY <1>1, <1>4, FS_Interval
    <2> QED
        BY <1>5, <2>1
<1>7. ASSUME NEW j \in 1..Cardinality(new)
      PROVE  Nth(j) = m + j - 1 /\ m + j - 1 \in 1..n
    <2>1. \A i \in new : Cardinality({k \in new : k <= i}) = i - m + 1
        <3> TAKE i \in new
        <3>1. {k \in new : k <= i} = m..i /\ i \in Int /\ m <= i
            BY <1>1, <1>4, <1>5
        <3>2. Cardinality(m..i) = i - m + 1
            BY <1>4, <3>1, FS_Interval
        <3> QED
            BY <3>1, <3>2
    <2>2. m + j - 1 \in new /\ m + j - 1 \in 1..n
        BY <1>1, <1>4, <1>5, <1>6
    <2>3. (m + j - 1) - m + 1 = j
        BY <1>1, <1>4
    <2>4. Cardinality({k \in new : k <= m + j - 1}) = j
        BY <2>1, <2>2, <2>3
    <2>5. Nth(j) \in new /\ Cardinality({k \in new : k <= Nth(j)}) = j
        BY <2>2, <2>4
    <2>6. Nth(j) - m + 1 = j
        BY <2>1, <2>5
    <2> HIDE DEF Nth
    <2>7. Nth(j) \in Int
        BY <1>1, <1>4, <1>5, <2>5
    <2> QED
        <3>1. Nth(j) = m + j - 1
            BY <1>1, <1>4, <2>6, <2>7
        <3> QED
            BY <2>2, <3>1
<1>8. late = [j \in 1..Cardinality(new) |-> rows[Nth(j)]]
    BY DEF Unstored, new
<1> HIDE DEF Nth
<1>9. \A j \in 1..Cardinality(new) : rows[m + j - 1] \in T /\ rows[Nth(j)] = rows[m + j - 1]
    BY <1>1, <1>7, ElementOfSeq
<1>10. Cardinality(new) \in Nat
    BY <1>1, <1>4, <1>6
<1>11. late \in Seq(T) /\ Len(late) = Cardinality(new)
    <2>1. \A j \in 1..Cardinality(new) : rows[Nth(j)] \in T
        BY <1>9
    <2> DEFINE f == [j \in 1..Cardinality(new) |-> rows[Nth(j)]]
    <2>2. f \in [1..Cardinality(new) -> T]
        BY <2>1
    <2> HIDE DEF f
    <2>3. f \in Seq(T) /\ DOMAIN f = 1..Cardinality(new)
        <3>1. [1..Cardinality(new) -> T] \subseteq Seq(T)
            BY <1>10, SeqDef
        <3> QED
            BY <2>2, <3>1
    <2>4. Len(f) = Cardinality(new)
        BY <1>10, <2>3, LenProperties
    <2>5. late = f
        BY <1>8 DEF f
    <2> HIDE DEF late
    <2> QED
        BY <2>3, <2>4, <2>5
<1>12. \A j \in 1..Len(late) : late[j] = all[s + j]
    <2> TAKE j \in 1..Len(late)
    <2>1. j \in 1..Cardinality(new) /\ late[j] = rows[m + j - 1]
        BY <1>8, <1>9, <1>11
    <2>2. m + j - 1 \in 1..n
        BY <1>7, <2>1
    <2>3. rows[m + j - 1] = all[b - n + (m + j - 1)]
        BY <1>3, <2>2
    <2>4. b - n + (m + j - 1) = s + j
        BY <1>1, <1>10, <2>1 DEF m
    <2> QED
        BY <2>1, <2>3, <2>4
<1> HIDE DEF late
<1> DEFINE now == stored \o late
<1>13. now \in Seq(T) /\ Len(now) = s + Len(late)
       /\ \A i \in 1..s + Len(late) :
              now[i] = IF i <= s THEN stored[i] ELSE late[i - s]
    BY <1>11, ConcatProperties
<1>14. s + Len(late) = IF b > s THEN b ELSE s
    BY <1>1, <1>3, <1>4, <1>6, <1>11 DEF m
<1>15. ASSUME NEW i \in 1..s + Len(late)
       PROVE  now[i] = all[i]
    <2>1. CASE i <= s
        BY <1>1, <1>2, <1>13, <2>1
    <2>2. CASE i > s
        <3>1. i - s \in 1..Len(late) /\ s + (i - s) = i
            BY <1>1, <1>10, <1>11, <2>2
        <3>2. now[i] = late[i - s]
            BY <1>1, <1>10, <1>11, <1>13, <2>2
        <3> QED
            BY <1>12, <3>1, <3>2
    <2> QED
        BY <1>1, <2>1, <2>2
<1>16. s + Len(late) <= Len(all)
    BY <1>1, <1>2, <1>3, <1>14
<1> HIDE DEF now
<1>17. IsPrefix(now, all)
    BY <1>13, <1>15, <1>16, PrefixPointwise
<1> QED
    BY <1>13, <1>14, <1>17 DEF now, late

-----------------------------------------------------------------------------
(* What the actions do to the pipelines *)

\* At most the audio loop of q ends.
Undisturbed(q) ==
    /\ pipe'[q].buffer = pipe[q].buffer /\ pipe'[q].added = pipe[q].added
    /\ \/ pipe'[q].step = pipe[q].step
       \/ pipe[q].step = "listening" /\ pipe'[q].step = "none"

LEMMA WithStep ==
    ASSUME NEW r \in PipeState,
           NEW step \in {"none", "listening", "recording", "thinking", "speaking",
                         "farewell", "closing", "storing"}
    PROVE  LET now == [r EXCEPT !.step = step]
           IN  /\ now \in PipeState /\ now.step = step
               /\ now.buffer = r.buffer /\ now.added = r.added
BY DEF PipeState

LEMMA ClosedPipes ==
    ASSUME NEW pipes \in [Calls -> PipeState]
    PROVE  /\ Closing(pipes) \in [Calls -> PipeState]
           /\ \A q \in Calls :
                 /\ Closing(pipes)[q].buffer = pipes[q].buffer
                 /\ Closing(pipes)[q].added = pipes[q].added
                 /\ \/ Closing(pipes)[q].step = pipes[q].step
                    \/ pipes[q].step = "listening" /\ Closing(pipes)[q].step = "none"
<1>1. ASSUME NEW q \in Calls
      PROVE  LET now == [pipes[q] EXCEPT !.step = "none"]
             IN  /\ now \in PipeState /\ now.step = "none"
                 /\ now.buffer = pipes[q].buffer /\ now.added = pipes[q].added
    <2>1. pipes[q] \in PipeState
        OBVIOUS
    <2> QED
        BY <2>1, WithStep
<1>2. \A q \in Calls : Closing(pipes)[q] = pipes[q]
          \/ /\ pipes[q].step = "listening"
             /\ Closing(pipes)[q] = [pipes[q] EXCEPT !.step = "none"]
    BY DEF Closing
<1>3. \A q \in Calls : Closing(pipes)[q] \in PipeState
    BY <1>1, <1>2
<1>4. Closing(pipes) \in [Calls -> PipeState]
    BY <1>3 DEF Closing
<1> QED
    BY <1>1, <1>2, <1>4

LEMMA RestedPipe ==
    ASSUME VoiceTypeOK, NEW p \in Calls
    PROVE  /\ Rested(p) \in PipeState
           /\ Rested(p).buffer = <<>>
           /\ Rested(p).step = "none" \/ (Rested(p).step = "listening" /\ owner = p)
<1>1. pipe[p] \in PipeState
    BY DEF VoiceTypeOK
<1>2. <<>> \in Seq(Nat) /\ <<>> \in Seq(Rows)
    BY EmptySeq
<1> DEFINE step == IF pipe[p].active /\ owner = p THEN "listening" ELSE "none"
           r == [pipe[p] EXCEPT !.step = step,
                    !.seen = FALSE, !.silent = 0, !.buffer = <<>>, !.added = <<>>]
<1>3. step = "none" \/ (step = "listening" /\ owner = p)
    OBVIOUS
<1>4. step \in {"none", "listening"}
    BY <1>3
<1>5. Rested(p) = r
    BY DEF Rested
<1> HIDE DEF step
<1>6. r \in PipeState /\ r.buffer = <<>> /\ r.step = step
    BY <1>1, <1>2, <1>4 DEF PipeState
<1> HIDE DEF r
<1> QED
    BY <1>3, <1>5, <1>6

LEMMA HandleTrackPipes ==
    ASSUME VoiceTypeOK, NEW p \in Calls, HandleTrack(p)
    PROVE  /\ pipe' \in [Calls -> PipeState]
           /\ \A q \in Calls : q # p => Undisturbed(q)
           /\ pipe'[p].step = "listening" /\ pipe'[p].buffer = pipe[p].buffer
<1>1. pipe[p] \in PipeState /\ pipe \in [Calls -> PipeState]
    BY DEF VoiceTypeOK
<1> DEFINE r == [pipe[p] EXCEPT !.step = "listening", !.active = TRUE]
<1>2. r \in PipeState /\ r.step = "listening" /\ r.buffer = pipe[p].buffer
    BY <1>1 DEF PipeState
<1>3. pipe' = [pipe EXCEPT ![p] = r]
    BY <1>1 DEF HandleTrack, PipeState
<1> HIDE DEF r
<1> QED
    BY <1>1, <1>2, <1>3 DEF Undisturbed

LEMMA StepPipes ==
    ASSUME VoiceTypeOK, NEW p \in Calls,
           NEW step \in {"none", "listening", "recording", "thinking", "speaking",
                         "farewell", "closing", "storing"},
           pipe' = [pipe EXCEPT ![p].step = step]
    PROVE  /\ pipe' \in [Calls -> PipeState]
           /\ \A q \in Calls : q # p => Undisturbed(q)
           /\ pipe'[p].step = step /\ pipe'[p].buffer = pipe[p].buffer
<1>1. pipe[p] \in PipeState /\ pipe \in [Calls -> PipeState]
    BY DEF VoiceTypeOK
<1> DEFINE r == [pipe[p] EXCEPT !.step = step]
<1>2. r \in PipeState /\ r.step = step /\ r.buffer = pipe[p].buffer
    BY <1>1, WithStep
<1>3. pipe' = [pipe EXCEPT ![p] = r]
    BY <1>1
<1> HIDE DEF r
<1> QED
    BY <1>1, <1>2, <1>3 DEF Undisturbed

LEMMA EndUtterancePipes ==
    ASSUME VoiceTypeOK, NEW p \in Calls, EndUtterance(p)
    PROVE  /\ pipe' \in [Calls -> PipeState]
           /\ \A q \in Calls : q # p => Undisturbed(q)
           /\ pipe'[p].buffer = <<>>
           /\ pipe'[p].step = "none" \/ (pipe'[p].step = "listening" /\ owner = p)
<1>1. pipe[p] \in PipeState /\ pipe \in [Calls -> PipeState]
    BY DEF VoiceTypeOK
<1>2. pipe' = [pipe EXCEPT ![p] = Rested(p)]
    BY DEF EndUtterance
<1>3. pipe'[p] = Rested(p) /\ \A q \in Calls : q # p => pipe'[q] = pipe[q]
    BY <1>1, <1>2
<1> QED
    BY <1>1, <1>2, <1>3, RestedPipe DEF Undisturbed

LEMMA SpeakPipes ==
    ASSUME VoiceTypeOK, NEW p \in Calls, Speak(p)
    PROVE  /\ pipe' \in [Calls -> PipeState]
           /\ \A q \in Calls : q # p => Undisturbed(q)
           /\ pipe'[p].buffer = <<>>
           /\ pipe'[p].step = "none" \/ (pipe'[p].step = "listening" /\ owner = p)
<1>1. pipe[p] \in PipeState /\ pipe \in [Calls -> PipeState]
    BY DEF VoiceTypeOK
<1> DEFINE r == [Rested(p) EXCEPT !.answered = TRUE]
<1>2. pipe' = [pipe EXCEPT ![p] = r]
    BY DEF Speak
<1>3. r \in PipeState /\ r.step = Rested(p).step /\ r.buffer = Rested(p).buffer
    BY RestedPipe DEF PipeState
<1> HIDE DEF r
<1>4. pipe'[p] = r /\ \A q \in Calls : q # p => pipe'[q] = pipe[q]
    BY <1>1, <1>2
<1> QED
    BY <1>1, <1>2, <1>3, <1>4, RestedPipe DEF Undisturbed

LEMMA FarewellPipes ==
    ASSUME VoiceTypeOK, NEW p \in Calls, Farewell(p)
    PROVE  /\ pipe' \in [Calls -> PipeState]
           /\ \A q \in Calls : q # p => Undisturbed(q)
           /\ pipe'[p].step = "closing" /\ pipe'[p].buffer = pipe[p].buffer
<1>1. pipe[p] \in PipeState /\ pipe \in [Calls -> PipeState]
    BY DEF VoiceTypeOK
<1> DEFINE r == [pipe[p] EXCEPT !.step = "closing", !.active = FALSE,
                                !.answered = TRUE]
           pipes == [pipe EXCEPT ![p] = r]
<1>2. r \in PipeState /\ r.step = "closing" /\ r.buffer = pipe[p].buffer
    BY <1>1 DEF PipeState
<1>3. pipe' = Closing(pipes)
    <2>1. [pipe EXCEPT ![p].step = "closing", ![p].active = FALSE, ![p].answered = TRUE]
          = pipes
        BY <1>1 DEF PipeState
    <2> QED
        BY <2>1 DEF Farewell
<1>4. pipes \in [Calls -> PipeState] /\ pipes[p] = r
      /\ \A q \in Calls : q # p => pipes[q] = pipe[q]
    BY <1>1, <1>2
<1>5. pipes[p].step = "closing" /\ pipes[p].buffer = pipe[p].buffer
    BY <1>2, <1>4
<1> HIDE DEF pipes, r
<1>6. pipe' \in [Calls -> PipeState]
    BY <1>3, <1>4, ClosedPipes
<1>7. \A q \in Calls :
          /\ pipe'[q].buffer = pipes[q].buffer /\ pipe'[q].added = pipes[q].added
          /\ \/ pipe'[q].step = pipes[q].step
             \/ pipes[q].step = "listening" /\ pipe'[q].step = "none"
    BY <1>3, <1>4, ClosedPipes
<1>8. \A q \in Calls : q # p => Undisturbed(q)
    BY <1>4, <1>7 DEF Undisturbed
<1> QED
    BY <1>5, <1>6, <1>7, <1>8

LEMMA BeginPersistPipes ==
    ASSUME VoiceTypeOK, NEW p \in Calls, BeginPersist(p)
    PROVE  /\ pipe' \in [Calls -> PipeState]
           /\ \A q \in Calls : q # p => Undisturbed(q)
           /\ pipe'[p].step = "storing" /\ pipe'[p].buffer = pipe[p].buffer
           /\ pipe'[p].added = lines[p]
<1>1. pipe[p] \in PipeState /\ pipe \in [Calls -> PipeState] /\ lines[p] \in Seq(Rows)
    BY DEF VoiceTypeOK
<1> DEFINE r == [pipe[p] EXCEPT !.step = "storing", !.added = lines[p]]
<1>2. r \in PipeState /\ r.step = "storing" /\ r.buffer = pipe[p].buffer
      /\ r.added = lines[p]
    BY <1>1 DEF PipeState
<1>3. pipe' = [pipe EXCEPT ![p] = r]
    BY <1>1 DEF BeginPersist, PipeState
<1> HIDE DEF r
<1> QED
    BY <1>1, <1>2, <1>3 DEF Undisturbed

LEMMA LeavePipes ==
    ASSUME VoiceTypeOK, NEW p \in Calls, Leave(p)
    PROVE  /\ pipe' \in [Calls -> PipeState]
           /\ \A q \in Calls : Undisturbed(q)
<1>1. pipe[p] \in PipeState /\ pipe \in [Calls -> PipeState]
    BY DEF VoiceTypeOK
<1> DEFINE r == [pipe[p] EXCEPT !.active = FALSE]
           pipes == [pipe EXCEPT ![p] = r]
<1>2. r \in PipeState /\ r.step = pipe[p].step /\ r.buffer = pipe[p].buffer
      /\ r.added = pipe[p].added
    BY <1>1 DEF PipeState
<1>3. pipe' = Closing(pipes)
    <2>1. [pipe EXCEPT ![p].active = FALSE] = pipes
        BY <1>1 DEF PipeState
    <2> QED
        BY <2>1 DEF Leave
<1>4. pipes \in [Calls -> PipeState] /\ pipes[p] = r
      /\ \A q \in Calls : q # p => pipes[q] = pipe[q]
    BY <1>1, <1>2
<1>5. \A q \in Calls : /\ pipes[q].step = pipe[q].step /\ pipes[q].buffer = pipe[q].buffer
                       /\ pipes[q].added = pipe[q].added
    BY <1>2, <1>4
<1> HIDE DEF pipes
<1> QED
    BY <1>3, <1>4, <1>5, ClosedPipes DEF Undisturbed

LEMMA ClosingPipes ==
    ASSUME VoiceTypeOK, pipe' = Closing(pipe)
    PROVE  /\ pipe' \in [Calls -> PipeState]
           /\ \A q \in Calls : Undisturbed(q)
<1>1. pipe \in [Calls -> PipeState]
    BY DEF VoiceTypeOK
<1> QED
    BY <1>1, ClosedPipes DEF Undisturbed

-----------------------------------------------------------------------------
(* The buffer *)

LEMMA LatestShape ==
    ASSUME NEW h \in Seq(Nat)
    PROVE  /\ Latest(h) \in Seq(Nat)
           /\ Len(Latest(h)) = IF Len(h) < MaxFrames THEN Len(h) ELSE MaxFrames
           /\ \A i \in 1..Len(Latest(h)) :
                  Latest(h)[i] = h[Len(h) - Len(Latest(h)) + i]
<1>1. Len(h) \in Nat /\ MaxFrames \in Nat \ {0}
    BY LenProperties, AudioAssumption
<1> DEFINE a == IF Len(h) < MaxFrames THEN 0 ELSE Len(h) - MaxFrames
<1>2. a \in Nat
    BY <1>1
<1>3. Latest(h) = SubSeq(h, a + 1, Len(h))
    <2>1. (IF Len(h) - MaxFrames + 1 < 1 THEN 1 ELSE Len(h) - MaxFrames + 1) = a + 1
        BY <1>1
    <2> HIDE DEF a
    <2> QED
        BY <2>1 DEF Latest
<1>4. IF a < Len(h) THEN Len(h) - a = Len(Latest(h)) ELSE Len(Latest(h)) = 0
    <2> HIDE DEF a
    <2>1. Len(SubSeq(h, a + 1, Len(h))) = IF a < Len(h) THEN Len(h) - a ELSE 0
        BY <1>1, <1>2, PartOf
    <2> QED
        BY <1>3, <2>1
<1>5. Latest(h) \in Seq(Nat) /\ \A i \in 1..Len(Latest(h)) : Latest(h)[i] = h[a + i]
    <2> HIDE DEF a
    <2> QED
        BY <1>1, <1>2, <1>3, PartOf
<1>6. Len(Latest(h)) = IF Len(h) < MaxFrames THEN Len(h) ELSE MaxFrames
    BY <1>1, <1>4
<1>7. Len(h) - Len(Latest(h)) = a
    BY <1>1, <1>6
<1> QED
    BY <1>5, <1>6, <1>7

LEMMA NothingLatest == Latest(<<>>) = <<>> /\ <<>> \in Seq(Nat)
<1>1. <<>> \in Seq(Nat) /\ Len(<<>>) = 0
    BY EmptySeq
<1>2. MaxFrames \in Nat \ {0}
    BY AudioAssumption
<1>3. Len(Latest(<<>>)) = 0 /\ Latest(<<>>) \in Seq(Nat)
    <2> DEFINE e == <<>>
    <2>1. e \in Seq(Nat) /\ Len(e) = 0
        BY <1>1
    <2> HIDE DEF e
    <2>2. Latest(e) \in Seq(Nat)
          /\ Len(Latest(e)) = IF Len(e) < MaxFrames THEN Len(e) ELSE MaxFrames
        BY <2>1, LatestShape
    <2>3. Len(Latest(e)) = 0
        BY <1>2, <2>1, <2>2
    <2> QED
        BY <2>2, <2>3 DEF e
<1>4. Latest(<<>>) = <<>>
    BY <1>3, EmptySeq
<1> QED
    BY <1>1, <1>4

\* The deque of the last frames stays the end of what was heard.
LEMMA LatestGrows ==
    ASSUME NEW h \in Seq(Nat), NEW n \in Nat
    PROVE  Buffered(Latest(h), n) = Latest(Append(h, n))
<1> DEFINE old == Latest(h)
           grown == Append(h, n)
           new == Latest(grown)
           base == IF Len(old) >= MaxFrames THEN Tail(old) ELSE old
<1>1. Len(h) \in Nat /\ MaxFrames \in Nat \ {0}
    BY LenProperties, AudioAssumption
<1>2. grown \in Seq(Nat) /\ Len(grown) = Len(h) + 1
      /\ \A i \in 1..Len(h) : grown[i] = h[i]
    BY AppendProperties
<1>3. grown[Len(h) + 1] = n
    BY AppendProperties
<1>4. old \in Seq(Nat)
      /\ Len(old) = (IF Len(h) < MaxFrames THEN Len(h) ELSE MaxFrames)
      /\ \A i \in 1..Len(old) : old[i] = h[Len(h) - Len(old) + i]
    BY LatestShape
<1> HIDE DEF grown, old
<1>5. new \in Seq(Nat)
      /\ Len(new) = (IF Len(grown) < MaxFrames THEN Len(grown) ELSE MaxFrames)
      /\ \A i \in 1..Len(new) : new[i] = grown[Len(grown) - Len(new) + i]
    BY <1>2, LatestShape
<1> HIDE DEF new
<1>6. base \in Seq(Nat) /\ Len(base) + 1 = Len(new)
      /\ \A i \in 1..Len(base) : base[i] = h[Len(h) - Len(base) + i]
    <2>1. CASE Len(old) >= MaxFrames
        <3>1. old # <<>> /\ Len(old) = MaxFrames
            BY <1>1, <1>4, <2>1, EmptySeq
        <3>2. Tail(old) \in Seq(Nat) /\ Len(Tail(old)) = Len(old) - 1
              /\ \A i \in 1..Len(Tail(old)) : Tail(old)[i] = old[i + 1]
            BY <1>4, <3>1, HeadTailProperties
        <3>3. base = Tail(old)
            BY <2>1
        <3>4. Len(Tail(old)) + 1 = Len(new)
            BY <1>1, <1>2, <1>4, <1>5, <2>1, <3>2
        <3>5. ASSUME NEW i \in 1..Len(Tail(old))
              PROVE  Tail(old)[i] = h[Len(h) - Len(Tail(old)) + i]
            <4>1. i + 1 \in 1..Len(old)
                BY <1>1, <3>1, <3>2
            <4>2. Len(h) - Len(old) + (i + 1) = Len(h) - Len(Tail(old)) + i
                BY <1>1, <3>1, <3>2
            <4>3. old[i + 1] = h[Len(h) - Len(old) + (i + 1)]
                BY <1>4, <4>1
            <4> QED
                BY <3>2, <4>2, <4>3
        <3> QED
            BY <3>2, <3>3, <3>4, <3>5
    <2>2. CASE ~(Len(old) >= MaxFrames)
        <3>1. base = old /\ Len(old) = Len(h)
            BY <1>1, <1>4, <2>2
        <3>2. Len(old) + 1 = Len(new)
            BY <1>1, <1>2, <1>4, <1>5, <2>2
        <3> HIDE DEF base
        <3> QED
            BY <1>4, <3>1, <3>2
    <2> QED
        BY <2>1, <2>2
<1> HIDE DEF base
<1> DEFINE made == Append(base, n)
<1>7. made \in Seq(Nat) /\ Len(made) = Len(base) + 1 /\ made[Len(base) + 1] = n
      /\ \A i \in 1..Len(base) : made[i] = base[i]
    BY <1>6, AppendProperties
<1> HIDE DEF made
<1>8. ASSUME NEW i \in 1..Len(made)
      PROVE  made[i] = new[i]
    <2>1. Len(base) \in Nat /\ Len(base) <= Len(h) /\ Len(new) = Len(base) + 1
        BY <1>1, <1>2, <1>5, <1>6, LenProperties
    <2>2. new[i] = grown[Len(h) - Len(base) + i]
        <3>1. i \in 1..Len(new) /\ Len(grown) - Len(new) + i = Len(h) - Len(base) + i
            BY <1>1, <1>2, <1>7, <2>1
        <3>2. new[i] = grown[Len(grown) - Len(new) + i]
            BY <1>5, <3>1
        <3> QED
            BY <3>1, <3>2
    <2>3. CASE i = Len(base) + 1
        <3>1. Len(h) - Len(base) + i = Len(h) + 1
            BY <1>1, <2>1, <2>3
        <3> QED
            BY <1>3, <1>7, <2>2, <2>3, <3>1
    <2>4. CASE i \in 1..Len(base)
        <3>1. Len(h) - Len(base) + i \in 1..Len(h)
            BY <1>1, <2>1, <2>4
        <3> QED
            BY <1>2, <1>6, <1>7, <2>2, <2>4, <3>1
    <2> QED
        BY <1>7, <2>1, <2>3, <2>4
<1>9. made = new
    BY <1>5, <1>6, <1>7, <1>8, SeqEqual
<1> QED
    BY <1>9 DEF made, base, new, old, grown, Buffered

LEMMA BufferKeepsItsLimit ==
    ASSUME NEW h \in Seq(Nat)
    PROVE  Len(Latest(h)) <= MaxFrames
<1>1. Len(h) \in Nat /\ MaxFrames \in Nat
    BY LenProperties, AudioAssumption
<1> QED
    BY <1>1, LatestShape

\* A frame goes to the buffer, or an utterance is taken.
LEMMA HearPipes ==
    ASSUME VoiceTypeOK, BufferIsLatest, NEW p \in Calls, NEW speech \in BOOLEAN,
           Hear(p, speech)
    PROVE  /\ pipe' \in [Calls -> PipeState] /\ heard' \in [Calls -> Seq(Nat)]
           /\ \A q \in Calls : q # p => Undisturbed(q) /\ heard'[q] = heard[q]
           /\ pipe'[p].step \in {"none", "listening", "recording"}
           /\ pipe'[p].buffer = Latest(heard'[p])
           /\ pipe'[p].step = "recording" => heard'[p] = <<>>
<1>1. pipe[p] \in PipeState /\ pipe \in [Calls -> PipeState]
      /\ heard[p] \in Seq(Nat) /\ heard \in [Calls -> Seq(Nat)] /\ frames[p] \in Nat
    BY DEF VoiceTypeOK
<1> DEFINE n == frames[p] + 1
           buf == IF speech THEN Buffered(pipe[p].buffer, n) ELSE pipe[p].buffer
           d == Detected(pipe[p], speech)
           vad == [d EXCEPT !.buffer = IF speech THEN Buffered(@, n) ELSE @]
           ends == SpeechEnded(vad) /\ vad.buffer # <<>>
           now == IF speech THEN Append(heard[p], n) ELSE heard[p]
<1>2. n \in Nat /\ now \in Seq(Nat)
    BY <1>1, AppendProperties
<1>3. buf = Latest(now)
    BY <1>1, <1>2, LatestGrows DEF BufferIsLatest
<1>4. buf \in Seq(Nat)
    BY <1>2, <1>3, LatestShape
<1>5. d \in PipeState /\ d.step = pipe[p].step /\ d.buffer = pipe[p].buffer
    <2> DEFINE silent == IF speech THEN 0 ELSE pipe[p].silent + 1
    <2>1. pipe[p].silent \in Nat
        BY <1>1 DEF PipeState
    <2>2. silent \in Nat
        BY <2>1
    <2>3. d = [pipe[p] EXCEPT !.seen = @ \/ speech, !.silent = silent]
        BY DEF Detected
    <2> HIDE DEF silent, d
    <2> QED
        BY <1>1, <2>2, <2>3 DEF PipeState
<1> HIDE DEF d
<1>6. vad = [d EXCEPT !.buffer = buf]
    BY <1>5
<1> HIDE DEF vad, buf
<1>7. vad \in PipeState /\ vad.step = pipe[p].step /\ vad.buffer = buf
    BY <1>4, <1>5, <1>6 DEF PipeState
<1>8. pipe[p].step = "listening"
    BY DEF Hear
<1>9. heard' = [heard EXCEPT ![p] = IF ends THEN <<>> ELSE now]
    <2> HIDE DEF ends
    <2>1. heard' = [heard EXCEPT ![p] = IF ends THEN <<>>
                        ELSE IF speech THEN Append(@, n) ELSE @]
        BY DEF Hear, vad, d, ends
    <2> QED
        BY <2>1
<1>10. \/ ~ends /\ pipe' = [pipe EXCEPT ![p] = vad]
       \/ ends /\ pipe' = [pipe EXCEPT ![p] = Rested(p)]
       \/ ends /\ pipe' = [pipe EXCEPT ![p] =
                              [vad EXCEPT !.step = "recording", !.buffer = <<>>]]
    <2>1. \/ ~ends /\ pipe' = [pipe EXCEPT ![p] = vad]
          \/ /\ ends
             /\ \E text \in Transcriptions :
                   pipe' = [pipe EXCEPT ![p] =
                      IF text = "nothing" THEN Rested(p)
                      ELSE [vad EXCEPT !.step = "recording", !.buffer = <<>>]]
        BY DEF Hear, vad, d
    <2> QED
        BY <2>1
<1> HIDE DEF ends, now
<1>11. /\ heard' \in [Calls -> Seq(Nat)]
       /\ \A q \in Calls : q # p => heard'[q] = heard[q]
       /\ heard'[p] = IF ends THEN <<>> ELSE now
    BY <1>1, <1>2, <1>9, NothingLatest
<1>12. CASE ~ends /\ pipe' = [pipe EXCEPT ![p] = vad]
    BY <1>1, <1>3, <1>7, <1>8, <1>11, <1>12 DEF Undisturbed
<1>13. CASE ends /\ pipe' = [pipe EXCEPT ![p] = Rested(p)]
    BY <1>1, <1>11, <1>13, RestedPipe, NothingLatest DEF Undisturbed
<1>14. CASE ends /\ pipe' = [pipe EXCEPT ![p] =
                                [vad EXCEPT !.step = "recording", !.buffer = <<>>]]
    <2> DEFINE r == [vad EXCEPT !.step = "recording", !.buffer = <<>>]
    <2>1. r \in PipeState /\ r.step = "recording" /\ r.buffer = <<>>
        BY <1>7, NothingLatest DEF PipeState
    <2>2. pipe' = [pipe EXCEPT ![p] = r]
        BY <1>14
    <2> HIDE DEF r
    <2> QED
        BY <1>1, <1>11, <1>14, <2>1, <2>2, NothingLatest DEF Undisturbed
<1> QED
    BY <1>10, <1>12, <1>13, <1>14

-----------------------------------------------------------------------------
(* Numbers *)

LEMMA TableIsAnswered ==
    ASSUME VoiceTypeOK, TableHasMaximum
    PROVE  /\ StoredNumbers \subseteq Nat
           /\ DbMax \in Int /\ DbMax >= -1
           /\ \A m \in StoredNumbers : m <= DbMax
<1>1. StoredNumbers \subseteq Nat
    <2> SUFFICES ASSUME NEW n \in StoredNumbers PROVE n \in Nat
        OBVIOUS
    <2>1. PICK row \in UNION {Range(transcript[w]) : w \in Writers} : n = row.number
        BY DEF StoredNumbers
    <2>2. PICK w \in Writers : row \in Range(transcript[w])
        OBVIOUS
    <2>3. transcript[w] \in Seq(Rows)
        BY DEF VoiceTypeOK
    <2>4. PICK i \in DOMAIN transcript[w] : row = transcript[w][i]
        BY <2>2 DEF Range
    <2>5. row \in Rows
        BY <2>3, <2>4, LenProperties, ElementOfSeq
    <2> QED
        BY <2>1, <2>5 DEF Rows
<1>2. CASE StoredNumbers = {}
    BY <1>2 DEF DbMax
<1>3. CASE StoredNumbers # {}
    <2>1. DbMax \in StoredNumbers /\ \A m \in StoredNumbers : m <= DbMax
        BY <1>3 DEF DbMax, TableHasMaximum
    <2> QED
        BY <1>1, <2>1
<1> QED
    BY <1>1, <1>2, <1>3

LEMMA NextIsNatural ==
    ASSUME VoiceTypeOK, TableHasMaximum, NEW p \in Calls
    PROVE  NextNumber(p) \in Nat
<1>1. counter[p] \in Nat
    BY DEF VoiceTypeOK
<1>2. DbMax \in Int /\ DbMax >= -1
    BY TableIsAnswered
<1> HIDE DEF DbMax
<1> QED
    BY <1>1, <1>2 DEF NextNumber

Turns == {<<"agent">>, <<"debtor">>, <<"agent", "debtor">>}

LEMMA KeptAreRoles ==
    ASSUME NEW p \in Calls, NEW roles \in Turns, NEW kept \in Recorded(p, roles)
    PROVE  kept \in Seq({"agent", "debtor"})
<1>1. roles \in Seq({"agent", "debtor"})
    <2>1. /\ <<"agent">> \in Seq({"agent", "debtor"})
          /\ <<"debtor">> \in Seq({"agent", "debtor"})
          /\ <<"agent", "debtor">> \in Seq({"agent", "debtor"})
        OBVIOUS
    <2> QED
        BY <2>1 DEF Turns
<1>2. Len(roles) \in Nat
    BY <1>1, LenProperties
<1>3. CASE kept = roles
    BY <1>1, <1>3
<1>4. CASE \E i \in 1..Len(roles) + 1 : kept = SubSeq(roles, i, Len(roles))
    <2>1. PICK i \in 1..Len(roles) + 1 : kept = SubSeq(roles, i, Len(roles))
        BY <1>4
    <2>2. i - 1 \in Nat /\ (i - 1) + 1 = i
        BY <1>2
    <2>3. SubSeq(roles, (i - 1) + 1, Len(roles)) \in Seq({"agent", "debtor"})
        BY <1>1, <1>2, <2>2, PartOf
    <2> QED
        BY <2>1, <2>2, <2>3
<1> QED
    BY <1>3, <1>4 DEF Recorded

\* append_entry gives consecutive numbers, and remembers the next one.
LEMMA Recording ==
    ASSUME VoiceTypeOK, TableHasMaximum, NEW p \in Calls, NEW roles \in Turns,
           NEW kept \in Recorded(p, roles), Record(p, kept)
    PROVE  \E rows \in Seq(Rows) :
              /\ lines' = [lines EXCEPT ![p] = @ \o rows]
              /\ spoken' = [spoken EXCEPT ![p] = @ \o rows]
              /\ counter' = [counter EXCEPT ![p] =
                               IF rows = <<>> THEN @ ELSE NextNumber(p) + Len(rows)]
              /\ \A i \in 1..Len(rows) : rows[i].number = NextNumber(p) + i - 1
<1> DEFINE rows == [i \in DOMAIN kept |-> Row(p, kept[i], NextNumber(p) + i - 1)]
<1>1. kept \in Seq({"agent", "debtor"})
    BY KeptAreRoles
<1>2. Len(kept) \in Nat /\ DOMAIN kept = 1..Len(kept)
      /\ \A i \in 1..Len(kept) : kept[i] \in {"agent", "debtor"}
    BY <1>1, LenProperties, ElementOfSeq
<1>3. NextNumber(p) \in Nat
    BY NextIsNatural
<1> HIDE DEF NextNumber
<1>4. \A i \in 1..Len(kept) : rows[i] \in Rows /\ rows[i].number = NextNumber(p) + i - 1
    <2> TAKE i \in 1..Len(kept)
    <2>1. NextNumber(p) + i - 1 \in Nat /\ kept[i] \in {"agent", "debtor"} /\ p \in Writers
        BY <1>2, <1>3 DEF Writers
    <2>2. rows[i] = [by |-> p, role |-> kept[i], number |-> NextNumber(p) + i - 1]
        BY <1>2 DEF Row
    <2> HIDE DEF rows
    <2> QED
        BY <2>1, <2>2 DEF Rows
<1>5. rows \in [1..Len(kept) -> Rows]
    BY <1>2, <1>4
<1> DEFINE all == rows
<1>6. /\ lines' = [lines EXCEPT ![p] = @ \o all]
      /\ spoken' = [spoken EXCEPT ![p] = @ \o all]
      /\ counter' = [counter EXCEPT ![p] =
                        IF kept = <<>> THEN @ ELSE NextNumber(p) + Len(kept)]
    BY DEF Record
<1> HIDE DEF rows
<1>7. rows \in Seq(Rows)
    <2>1. [1..Len(kept) -> Rows] \subseteq Seq(Rows)
        BY <1>2, SeqDef
    <2> QED
        BY <1>5, <2>1
<1>8. Len(rows) = Len(kept)
    BY <1>2, <1>5, <1>7, LenProperties
<1>9. rows = <<>> <=> kept = <<>>
    BY <1>1, <1>7, <1>8, EmptySeq
<1> QED
    BY <1>4, <1>6, <1>7, <1>8, <1>9

\* A line has one number, so no two of a call are the same.
LEMMA LinesAreApart ==
    ASSUME VoiceTypeOK, NumbersAreConsecutive, NEW p \in Calls
    PROVE  \A i, j \in 1..Len(spoken[p]) : spoken[p][i] = spoken[p][j] => i = j
<1>1. spoken[p] \in Seq(Rows) /\ counter[p] \in Nat
    BY DEF VoiceTypeOK
<1>2. Len(spoken[p]) \in Nat /\ DOMAIN spoken[p] = 1..Len(spoken[p])
    BY <1>1, LenProperties
<1> TAKE i, j \in 1..Len(spoken[p])
<1>3. /\ spoken[p][i].number = counter[p] - Len(spoken[p]) + i - 1
      /\ spoken[p][j].number = counter[p] - Len(spoken[p]) + j - 1
    BY <1>2 DEF NumbersAreConsecutive
<1> QED
    BY <1>1, <1>2, <1>3

-----------------------------------------------------------------------------
(* Storing *)

\* The first lines of the call are stored, at least up to the b-th, and its
\* buffer is forgotten, or both stay as they are.
Settled(p, rows, b) ==
    /\ transcript' \in [Writers -> Seq(Rows)] /\ lines' \in [Calls -> Seq(Rows)]
    /\ failed' \subseteq Calls /\ failed \subseteq failed'
    /\ \A w \in Writers : w # p => transcript'[w] = transcript[w]
    /\ \A q \in Calls : q # p => lines'[q] = lines[q]
    /\ IsPrefix(transcript'[p], spoken[p])
    /\ Len(transcript'[p]) >= Len(transcript[p])
    /\ \/ rows = <<>> /\ lines'[p] = lines[p]
       \/ p \in failed' /\ lines'[p] = lines[p]
       \/ rows # <<>> /\ lines'[p] = <<>> /\ Len(transcript'[p]) >= b

LEMMA Persisting ==
    ASSUME VoiceTypeOK, NumbersAreConsecutive, StoredLinesAreAPrefix,
           NEW p \in Calls, NEW rows \in Seq(Rows), NEW b \in Nat,
           rows # <<>> => /\ EndAt(rows, spoken[p], b)
                          /\ b - Len(rows) <= Len(transcript[p]),
           Persist(p, rows)
    PROVE  Settled(p, rows, b)
<1>1. /\ transcript \in [Writers -> Seq(Rows)] /\ lines \in [Calls -> Seq(Rows)]
      /\ failed \subseteq Calls /\ p \in Writers /\ transcript[p] \in Seq(Rows)
      /\ spoken[p] \in Seq(Rows)
    BY DEF VoiceTypeOK, Writers
<1>2. IsPrefix(transcript[p], spoken[p])
    BY DEF StoredLinesAreAPrefix
<1>3. Len(transcript[p]) \in Nat
    BY <1>1, LenProperties
<1>4. CASE rows = <<>> /\ UNCHANGED <<transcript, lines, failed>>
    BY <1>1, <1>2, <1>3, <1>4 DEF Settled
<1>5. CASE rows # <<>> /\ failed' = failed \cup {p} /\ UNCHANGED <<transcript, lines>>
    BY <1>1, <1>2, <1>3, <1>5 DEF Settled
<1>6. CASE /\ rows # <<>>
           /\ transcript' = [transcript EXCEPT ![p] = @ \o Unstored(@, rows)]
           /\ lines' = [lines EXCEPT ![p] = <<>>] /\ UNCHANGED failed
    <2> DEFINE now == transcript[p] \o Unstored(transcript[p], rows)
    <2>1. \A i, j \in 1..Len(spoken[p]) : spoken[p][i] = spoken[p][j] => i = j
        BY LinesAreApart
    <2>2. EndAt(rows, spoken[p], b) /\ b - Len(rows) <= Len(transcript[p])
        BY <1>6
    <2>3. /\ now \in Seq(Rows) /\ IsPrefix(now, spoken[p])
          /\ Len(now) = IF b > Len(transcript[p]) THEN b ELSE Len(transcript[p])
        <3> DEFINE all == spoken[p]
                   stored == transcript[p]
        <3>1. /\ all \in Seq(Rows) /\ stored \in Seq(Rows)
              /\ \A i, j \in 1..Len(all) : all[i] = all[j] => i = j
              /\ IsPrefix(stored, all) /\ EndAt(rows, all, b)
              /\ b - Len(rows) <= Len(stored)
            BY <1>1, <1>2, <2>1, <2>2
        <3> HIDE DEF all, stored
        <3>2. LET new == stored \o Unstored(stored, rows)
              IN  /\ new \in Seq(Rows) /\ IsPrefix(new, all)
                  /\ Len(new) = IF b > Len(stored) THEN b ELSE Len(stored)
            BY <3>1, InsertedOnce
        <3> QED
            BY <3>2 DEF all, stored
    <2>4. transcript' = [transcript EXCEPT ![p] = now]
        BY <1>6
    <2> HIDE DEF now
    <2>5. transcript' \in [Writers -> Seq(Rows)] /\ transcript'[p] = now
          /\ \A w \in Writers : w # p => transcript'[w] = transcript[w]
        BY <1>1, <2>3, <2>4
    <2>6. lines' \in [Calls -> Seq(Rows)] /\ lines'[p] = <<>>
          /\ \A q \in Calls : q # p => lines'[q] = lines[q]
        BY <1>1, <1>6, EmptySeq
    <2>7. Len(now) >= Len(transcript[p]) /\ Len(now) >= b
        BY <1>3, <2>3
    <2> QED
        BY <1>1, <1>6, <2>3, <2>5, <2>6, <2>7 DEF Settled
<1> QED
    BY <1>4, <1>5, <1>6 DEF Persist

LEMMA StoredNumber ==
    ASSUME NEW n
    PROVE  n \in StoredNumbers <=>
             \E w \in Writers : \E i \in DOMAIN transcript[w] :
                 n = transcript[w][i].number
BY DEF StoredNumbers, Range

LEMMA StoredNumberNext ==
    ASSUME NEW n
    PROVE  n \in StoredNumbers' <=>
             \E w \in Writers : \E i \in DOMAIN transcript'[w] :
                 n = transcript'[w][i].number
BY DEF StoredNumbers, Range

\* The last line stored has the greatest number of its call.
LEMMA MaximumAfterPersist ==
    ASSUME VoiceTypeOK, TableHasMaximum, NumbersAreConsecutive, StoredLinesAreAPrefix,
           NEW p \in Calls, transcript' \in [Writers -> Seq(Rows)],
           \A w \in Writers : w # p => transcript'[w] = transcript[w],
           IsPrefix(transcript'[p], spoken[p]),
           Len(transcript'[p]) >= Len(transcript[p])
    PROVE  TableHasMaximum'
<1> DEFINE s == Len(transcript[p])
           t == Len(transcript'[p])
           k == Len(spoken[p])
           base == counter[p] - k
           last == base + t - 1
<1>1. /\ transcript[p] \in Seq(Rows) /\ transcript'[p] \in Seq(Rows)
      /\ spoken[p] \in Seq(Rows) /\ p \in Writers /\ counter[p] \in Nat
    BY DEF VoiceTypeOK, Writers
<1>2. /\ s \in Nat /\ t \in Nat /\ k \in Nat /\ s <= t
      /\ DOMAIN transcript[p] = 1..s /\ DOMAIN transcript'[p] = 1..t
      /\ DOMAIN spoken[p] = 1..k
    BY <1>1, LenProperties
<1>3. t <= k /\ \A i \in 1..t : transcript'[p][i] = spoken[p][i]
    BY <1>1, PrefixPointwise
<1>4. \A i \in 1..s : transcript[p][i] = spoken[p][i]
    BY <1>1, PrefixPointwise DEF StoredLinesAreAPrefix
<1>5. \A i \in 1..t : transcript'[p][i].number = base + i - 1
    <2>1. \A i \in 1..k : spoken[p][i].number = base + i - 1
        BY <1>2 DEF NumbersAreConsecutive
    <2>2. \A i \in 1..t : i \in 1..k
        BY <1>2, <1>3
    <2> HIDE DEF base, k
    <2> QED
        BY <1>3, <2>1, <2>2
<1>6. \A i \in 1..s : transcript'[p][i] = transcript[p][i]
    BY <1>2, <1>3, <1>4
<1>7. StoredNumbers \subseteq Nat
    BY TableIsAnswered
<1> HIDE DEF s, t, k, base
<1>8. base \in Int
    BY <1>1, <1>2 DEF base
<1>9. StoredNumbers \subseteq StoredNumbers'
    <2> SUFFICES ASSUME NEW n \in StoredNumbers PROVE n \in StoredNumbers'
        OBVIOUS
    <2>1. PICK w \in Writers : \E i \in DOMAIN transcript[w] : n = transcript[w][i].number
        BY StoredNumber
    <2>2. PICK i \in DOMAIN transcript[w] : n = transcript[w][i].number
        BY <2>1
    <2>3. i \in DOMAIN transcript'[w] /\ transcript'[w][i] = transcript[w][i]
        <3>1. CASE w = p
            BY <1>2, <1>6, <2>2, <3>1
        <3>2. CASE w # p
            BY <2>2, <3>2
        <3> QED
            BY <3>1, <3>2
    <2> QED
        BY <2>2, <2>3, StoredNumberNext
<1>10. ASSUME NEW n \in StoredNumbers'
       PROVE  n \in StoredNumbers \/ (t > 0 /\ n \in Int /\ n <= last)
    <2>1. PICK w \in Writers : \E i \in DOMAIN transcript'[w] : n = transcript'[w][i].number
        BY StoredNumberNext
    <2>2. PICK i \in DOMAIN transcript'[w] : n = transcript'[w][i].number
        BY <2>1
    <2>3. CASE w # p
        BY <2>2, <2>3, StoredNumber
    <2>4. CASE w = p
        BY <1>2, <1>5, <1>8, <2>2, <2>4
    <2> QED
        BY <2>3, <2>4
<1>11. CASE t = 0
    <2>1. StoredNumbers' = StoredNumbers
        <3>1. ~(t > 0)
            BY <1>11
        <3>2. \A n \in StoredNumbers' : n \in StoredNumbers
            BY <1>10, <3>1
        <3> QED
            BY <1>9, <3>2
    <2> QED
        BY <2>1 DEF TableHasMaximum
<1>12. CASE t > 0
    <2>1. last \in StoredNumbers'
        <3>1. t \in DOMAIN transcript'[p] /\ transcript'[p][t].number = last
            BY <1>2, <1>5, <1>12
        <3> QED
            BY <1>1, <3>1, StoredNumberNext
    <2>2. CASE StoredNumbers = {}
        <3>1. \A n \in StoredNumbers' : n <= last
            BY <1>10, <2>2
        <3> QED
            BY <2>1, <3>1 DEF TableHasMaximum
    <2>3. CASE StoredNumbers # {}
        <3>1. PICK M \in StoredNumbers : \A m \in StoredNumbers : m <= M
            BY <2>3 DEF TableHasMaximum
        <3>2. M \in Int /\ last \in Int /\ M \in StoredNumbers'
            BY <1>2, <1>7, <1>8, <1>9
        <3> DEFINE top == IF M <= last THEN last ELSE M
        <3>3. top \in StoredNumbers' /\ top \in Int /\ M <= top /\ last <= top
            BY <2>1, <3>2
        <3> HIDE DEF top, last
        <3>4. ASSUME NEW n \in StoredNumbers'
              PROVE  n <= top
            <4>1. CASE n \in StoredNumbers
                <5>1. n \in Int /\ n <= M
                    BY <1>7, <3>1, <4>1
                <5> QED
                    BY <3>2, <3>3, <5>1
            <4>2. CASE n \in Int /\ n <= last
                BY <3>2, <3>3, <4>2
            <4> QED
                BY <1>10, <4>1, <4>2 DEF last
        <3> QED
            BY <3>3, <3>4 DEF TableHasMaximum
    <2> QED
        BY <2>2, <2>3
<1> QED
    BY <1>2, <1>11, <1>12

-----------------------------------------------------------------------------
(* Pipelines, buffers and types *)

LEMMA BufferStep ==
    ASSUME IInv, Next
    PROVE  /\ pipe' \in [Calls -> PipeState] /\ heard' \in [Calls -> Seq(Nat)]
           /\ BufferIsLatest'
<1>1. VoiceTypeOK /\ BufferIsLatest
    BY DEF IInv
<1>2. pipe \in [Calls -> PipeState] /\ heard \in [Calls -> Seq(Nat)]
    BY <1>1 DEF VoiceTypeOK
<1> DEFINE Good(q) == /\ pipe'[q].buffer = Latest(heard'[q])
                      /\ pipe'[q].step \notin {"none", "listening"} => heard'[q] = <<>>
<1>3. ASSUME NEW q \in Calls, Undisturbed(q), heard'[q] = heard[q]
      PROVE  Good(q)
    BY <1>1, <1>3 DEF BufferIsLatest, Undisturbed
<1>4. \A q \in Calls : /\ pipe[q].buffer = Latest(heard[q])
                       /\ pipe[q].step \notin {"none", "listening"} => heard[q] = <<>>
    BY <1>1 DEF BufferIsLatest
<1>5. SUFFICES /\ pipe' \in [Calls -> PipeState] /\ heard' \in [Calls -> Seq(Nat)]
               /\ \A q \in Calls : Good(q)
    BY DEF BufferIsLatest, Latest
<1> HIDE DEF Good
<1>6. ASSUME UNCHANGED <<pipe, heard>>
      PROVE  /\ pipe' \in [Calls -> PipeState] /\ heard' \in [Calls -> Seq(Nat)]
             /\ \A q \in Calls : Good(q)
    BY <1>2, <1>4, <1>6 DEF Good
<1>7. ASSUME NEW p \in Calls, NEW speech \in BOOLEAN, Hear(p, speech)
      PROVE  /\ pipe' \in [Calls -> PipeState] /\ heard' \in [Calls -> Seq(Nat)]
             /\ \A q \in Calls : Good(q)
    <2>1. /\ pipe' \in [Calls -> PipeState] /\ heard' \in [Calls -> Seq(Nat)]
          /\ \A q \in Calls : q # p => Undisturbed(q) /\ heard'[q] = heard[q]
          /\ pipe'[p].step \in {"none", "listening", "recording"}
          /\ pipe'[p].buffer = Latest(heard'[p])
          /\ pipe'[p].step = "recording" => heard'[p] = <<>>
        BY <1>1, <1>7, HearPipes
    <2>2. Good(p)
        BY <2>1 DEF Good
    <2> QED
        BY <1>3, <2>1, <2>2
<1>8. ASSUME NEW p \in Calls, HandleTrack(p)
      PROVE  /\ pipe' \in [Calls -> PipeState] /\ heard' = heard
             /\ \A q \in Calls : Good(q)
    <2>1. heard' = heard
        BY <1>8 DEF HandleTrack, audio
    <2>2. /\ pipe' \in [Calls -> PipeState]
          /\ \A q \in Calls : q # p => Undisturbed(q)
          /\ pipe'[p].step = "listening" /\ pipe'[p].buffer = pipe[p].buffer
        BY <1>1, <1>8, HandleTrackPipes
    <2>3. Good(p)
        BY <1>4, <2>1, <2>2 DEF Good
    <2> QED
        BY <1>3, <2>1, <2>2, <2>3
<1>9. ASSUME NEW p \in Calls, heard' = heard, pipe' \in [Calls -> PipeState],
             pipe[p].step \notin {"none", "listening"},
             \A q \in Calls : q # p => Undisturbed(q),
             pipe'[p].buffer = pipe[p].buffer \/ pipe'[p].buffer = <<>>
      PROVE  \A q \in Calls : Good(q)
    <2>1. heard[p] = <<>> /\ pipe[p].buffer = <<>>
        BY <1>4, <1>9, NothingLatest
    <2>2. Good(p)
        BY <1>9, <2>1, NothingLatest DEF Good
    <2> QED
        BY <1>3, <1>9, <2>2
<1>10. ASSUME NEW p \in Calls, PipelineStep(p)
       PROVE  /\ pipe' \in [Calls -> PipeState] /\ heard' = heard
              /\ pipe[p].step \notin {"none", "listening"}
              /\ \A q \in Calls : q # p => Undisturbed(q)
              /\ pipe'[p].buffer = pipe[p].buffer \/ pipe'[p].buffer = <<>>
    <2>1. heard' = heard
        BY <1>10 DEF PipelineStep, RecordUtterance, Answer, GiveUp, Speak, Farewell,
                     BeginPersist, EndCall, audio
    <2>2. pipe[p].step \notin {"none", "listening"}
        BY <1>10 DEF PipelineStep, RecordUtterance, Answer, GiveUp, Speak, Farewell,
                     BeginPersist, EndCall
    <2>3. ASSUME NEW next \in {"thinking", "speaking", "farewell"},
                 pipe' = [pipe EXCEPT ![p].step = next]
          PROVE  /\ pipe' \in [Calls -> PipeState]
                 /\ \A q \in Calls : q # p => Undisturbed(q)
                 /\ pipe'[p].buffer = pipe[p].buffer
        BY <1>1, <2>3, StepPipes
    <2>4. ASSUME NEW next \in {"thinking", "speaking", "farewell"}, NEW roles,
                 RecordUtterance(p, next, roles)
          PROVE  pipe' = [pipe EXCEPT ![p].step = next]
        BY <2>4 DEF RecordUtterance
    <2>5. ASSUME Answer(p)
          PROVE  pipe' = [pipe EXCEPT ![p].step = "speaking"]
        BY <2>5 DEF Answer
    <2>6. CASE GiveUp(p) \/ EndCall(p)
        BY <1>1, <2>1, <2>2, <2>6, EndUtterancePipes DEF GiveUp, EndCall
    <2>7. CASE Speak(p)
        BY <1>1, <2>1, <2>2, <2>7, SpeakPipes
    <2>8. CASE Farewell(p)
        BY <1>1, <2>1, <2>2, <2>8, FarewellPipes
    <2>9. CASE BeginPersist(p)
        BY <1>1, <2>1, <2>2, <2>9, BeginPersistPipes
    <2>10. CASE Answer(p)
        BY <2>1, <2>2, <2>3, <2>5, <2>10
    <2>11. CASE \E next \in {"thinking", "speaking", "farewell"},
                   roles \in {<<"agent">>, <<"agent", "debtor">>} :
                      RecordUtterance(p, next, roles)
        BY <2>1, <2>2, <2>3, <2>4, <2>11
    <2> QED
        BY <1>10, <2>6, <2>7, <2>8, <2>9, <2>10, <2>11 DEF PipelineStep
<1>11. ASSUME heard' = heard, pipe' \in [Calls -> PipeState],
              \A q \in Calls : Undisturbed(q)
       PROVE  \A q \in Calls : Good(q)
    BY <1>3, <1>11
<1>12. ASSUME NEW p \in Calls, Leave(p)
       PROVE  /\ pipe' \in [Calls -> PipeState] /\ heard' = heard
              /\ \A q \in Calls : Undisturbed(q)
    BY <1>1, <1>12, LeavePipes DEF Leave, audio
<1>13. ASSUME ConnectionFails \/ \E p \in Calls : EndHandler(p)
       PROVE  /\ pipe' \in [Calls -> PipeState] /\ heard' = heard
              /\ \A q \in Calls : Undisturbed(q)
    BY <1>1, <1>13, ClosingPipes DEF ConnectionFails, EndHandler, audio
<1>14. ASSUME NEW p \in Calls,
              \/ Connect(p) \/ RefuseCall(p) \/ Offer(p)
              \/ BeginHandlerPersist(p) \/ RetryPersist(p)
              \/ ForwardOutput(p)
       PROVE  UNCHANGED <<pipe, heard>>
    BY <1>14 DEF Connect, RefuseCall, Offer, BeginHandlerPersist, RetryPersist,
                 ForwardOutput, audio
<1>15. ASSUME NEW t \in Texts, TextTurn(t)
       PROVE  UNCHANGED <<pipe, heard>>
    BY <1>15 DEF TextTurn, audio
<1>16. CASE \E p \in Calls :
                \/ Connect(p) \/ RefuseCall(p) \/ Offer(p)
                \/ BeginHandlerPersist(p) \/ RetryPersist(p)
                \/ ForwardOutput(p)
    BY <1>6, <1>14, <1>16
<1>17. CASE \E p \in Calls : PipelineStep(p)
    BY <1>2, <1>9, <1>10, <1>17
<1>18. CASE \E p \in Calls : Leave(p)
    BY <1>2, <1>11, <1>12, <1>18
<1>19. CASE ConnectionFails \/ \E p \in Calls : EndHandler(p)
    BY <1>2, <1>11, <1>13, <1>19
<1>20. CASE \E p \in Calls : HandleTrack(p)
    BY <1>2, <1>8, <1>20
<1>21. CASE \E p \in Calls, speech \in BOOLEAN : Hear(p, speech)
    BY <1>7, <1>21
<1>22. CASE \E t \in Texts : TextTurn(t)
    BY <1>6, <1>15, <1>22
<1> QED
    BY <1>16, <1>17, <1>18, <1>19, <1>20, <1>21, <1>22 DEF Next, HandlerStep

LEMMA EndCallSettles ==
    ASSUME IInv, NEW p \in Calls, EndCall(p)
    PROVE  Settled(p, pipe[p].added, Len(spoken[p]))
<1>1. /\ VoiceTypeOK /\ NumbersAreConsecutive /\ StoredLinesAreAPrefix
      /\ Persist(p, pipe[p].added) /\ pipe[p].step = "storing"
    BY DEF IInv, EndCall
<1>2. pipe[p].added \in Seq(Rows) /\ Len(spoken[p]) \in Nat
    BY <1>1, LenProperties DEF VoiceTypeOK, PipeState
<1>3. pipe[p].added # <<>> =>
          /\ EndAt(pipe[p].added, spoken[p], Len(spoken[p]))
          /\ Len(spoken[p]) - Len(pipe[p].added) <= Len(transcript[p])
    BY <1>1 DEF IInv, AddedFollow
<1> QED
    BY <1>1, <1>2, <1>3, Persisting

LEMMA EndHandlerSettles ==
    ASSUME IInv, NEW p \in Calls, EndHandler(p)
    PROVE  \E b \in 0..Len(spoken[p]) :
              /\ Settled(p, socket[p].added, b)
              /\ EndAt(socket[p].added, spoken[p], b)
              /\ b - Len(socket[p].added) <= Len(transcript[p])
              /\ pipe[p].step \in {"listening", "recording"} => b = Len(spoken[p])
<1>1. /\ VoiceTypeOK /\ NumbersAreConsecutive /\ StoredLinesAreAPrefix
      /\ Persist(p, socket[p].added) /\ socket[p].state = "storing"
    BY DEF IInv, EndHandler
<1>2. socket[p].added \in Seq(Rows) /\ Len(spoken[p]) \in Nat
    BY <1>1, LenProperties DEF VoiceTypeOK, SocketState
<1>3. PICK b \in 0..Len(spoken[p]) :
          /\ EndAt(socket[p].added, spoken[p], b)
          /\ b - Len(socket[p].added) <= Len(transcript[p])
          /\ pipe[p].step \in {"listening", "recording"} => b = Len(spoken[p])
    BY <1>1 DEF IInv, HandlerFollows
<1>4. Settled(p, socket[p].added, b)
    <2>1. b \in Nat
        BY <1>2
    <2> QED
        BY <1>1, <1>2, <1>3, <2>1, Persisting
<1> QED
    BY <1>3, <1>4

LEMMA SettledMaximum ==
    ASSUME IInv, NEW p \in Calls, NEW rows, NEW b, Settled(p, rows, b)
    PROVE  TableHasMaximum'
<1>1. VoiceTypeOK /\ TableHasMaximum /\ NumbersAreConsecutive /\ StoredLinesAreAPrefix
    BY DEF IInv
<1>2. /\ transcript' \in [Writers -> Seq(Rows)]
      /\ \A w \in Writers : w # p => transcript'[w] = transcript[w]
      /\ IsPrefix(transcript'[p], spoken[p])
      /\ Len(transcript'[p]) >= Len(transcript[p])
    BY DEF Settled
<1> QED
    BY <1>1, <1>2, MaximumAfterPersist

\* A text message stores after all that is stored.
LEMMA TextTurnRows ==
    ASSUME IInv, NEW t \in Texts, TextTurn(t)
    PROVE  /\ transcript' \in [Writers -> Seq(Rows)]
           /\ \A p \in Calls : transcript'[p] = transcript[p]
           /\ TableHasMaximum'
<1>1. VoiceTypeOK /\ TableHasMaximum
    BY DEF IInv
<1>2. transcript \in [Writers -> Seq(Rows)] /\ t \in Writers
    BY <1>1 DEF VoiceTypeOK, Writers
<1>3. /\ StoredNumbers \subseteq Nat /\ DbMax \in Int /\ DbMax >= -1
      /\ \A m \in StoredNumbers : m <= DbMax
    BY <1>1, TableIsAnswered
<1> DEFINE first == DbMax + 1
           second == DbMax + 2
           rows == <<Row(t, "agent", first), Row(t, "debtor", second)>>
<1>4. transcript' = [transcript EXCEPT ![t] = rows] /\ transcript[t] = <<>>
    BY DEF TextTurn
<1> HIDE DEF DbMax
<1>5. first \in Nat /\ second \in Nat /\ second = first + 1
    BY <1>3
<1>12. \A m \in StoredNumbers : m \in Int /\ m <= second
    BY <1>3
<1> HIDE DEF first, second
<1>6. Row(t, "agent", first) \in Rows /\ Row(t, "debtor", second) \in Rows
      /\ Row(t, "agent", first).number = first
      /\ Row(t, "debtor", second).number = second
    BY <1>2, <1>5 DEF Row, Rows
<1>7. rows \in Seq(Rows) /\ DOMAIN rows = 1..2
      /\ rows[1].number = first /\ rows[2].number = second
    BY <1>6
<1> HIDE DEF rows
<1>8. /\ transcript' \in [Writers -> Seq(Rows)] /\ transcript'[t] = rows
      /\ \A w \in Writers : w # t => transcript'[w] = transcript[w]
    BY <1>2, <1>4, <1>7
<1>9. \A p \in Calls : transcript'[p] = transcript[p]
    BY <1>8, CallsAssumption DEF Writers
<1>10. second \in StoredNumbers'
    BY <1>2, <1>7, <1>8, StoredNumberNext
<1>11. ASSUME NEW n \in StoredNumbers'
       PROVE  n <= second
    <2>1. PICK w \in Writers : \E i \in DOMAIN transcript'[w] : n = transcript'[w][i].number
        BY StoredNumberNext
    <2>2. PICK i \in DOMAIN transcript'[w] : n = transcript'[w][i].number
        BY <2>1
    <2>3. CASE w # t
        <3>1. n \in StoredNumbers
            BY <1>8, <2>2, <2>3, StoredNumber
        <3> QED
            BY <1>12, <3>1
    <2>4. CASE w = t
        <3>1. i \in 1..2 /\ n = rows[i].number
            BY <1>7, <1>8, <2>2, <2>4
        <3>2. i = 1 \/ i = 2
            BY <3>1
        <3> QED
            BY <1>5, <1>7, <3>1, <3>2
    <2> QED
        BY <2>3, <2>4
<1> QED
    BY <1>8, <1>9, <1>10, <1>11 DEF TableHasMaximum

\* The call p records rows, and counts on.
Grown(p, rows) ==
    /\ {lines', spoken'} \subseteq [Calls -> Seq(Rows)] /\ counter' \in [Calls -> Nat]
    /\ \A q \in Calls : q # p => /\ lines'[q] = lines[q] /\ spoken'[q] = spoken[q]
                                 /\ counter'[q] = counter[q]
    /\ lines'[p] = lines[p] \o rows /\ spoken'[p] = spoken[p] \o rows
    /\ \/ rows = <<>> /\ counter'[p] = counter[p]
       \/ /\ counter[p] > 0 => counter'[p] = counter[p] + Len(rows)
          /\ \A i \in 1..Len(rows) : rows[i].number = counter'[p] - Len(rows) + i - 1
          /\ counter'[p] > 0

LEMMA RecordingGrows ==
    ASSUME VoiceTypeOK, TableHasMaximum, NEW p \in Calls, NEW roles \in Turns,
           NEW kept \in Recorded(p, roles), Record(p, kept)
    PROVE  \E rows \in Seq(Rows) : Grown(p, rows)
<1>1. PICK rows \in Seq(Rows) :
              /\ lines' = [lines EXCEPT ![p] = @ \o rows]
              /\ spoken' = [spoken EXCEPT ![p] = @ \o rows]
              /\ counter' = [counter EXCEPT ![p] =
                               IF rows = <<>> THEN @ ELSE NextNumber(p) + Len(rows)]
              /\ \A i \in 1..Len(rows) : rows[i].number = NextNumber(p) + i - 1
    BY Recording
<1>2. /\ lines \in [Calls -> Seq(Rows)] /\ spoken \in [Calls -> Seq(Rows)]
      /\ counter \in [Calls -> Nat] /\ lines[p] \in Seq(Rows) /\ spoken[p] \in Seq(Rows)
    BY DEF VoiceTypeOK
<1>3. NextNumber(p) \in Nat
    BY NextIsNatural
<1>4. counter[p] > 0 => NextNumber(p) = counter[p]
    BY DEF NextNumber
<1> HIDE DEF NextNumber
<1>5. Len(rows) \in Nat /\ (rows # <<>> => Len(rows) > 0)
    BY EmptySeq, LenProperties
<1>6. lines[p] \o rows \in Seq(Rows) /\ spoken[p] \o rows \in Seq(Rows)
    BY <1>2, ConcatProperties
<1>7. /\ lines' \in [Calls -> Seq(Rows)] /\ spoken' \in [Calls -> Seq(Rows)]
      /\ counter' \in [Calls -> Nat]
      /\ \A q \in Calls : q # p => /\ lines'[q] = lines[q] /\ spoken'[q] = spoken[q]
                                   /\ counter'[q] = counter[q]
      /\ lines'[p] = lines[p] \o rows /\ spoken'[p] = spoken[p] \o rows
    BY <1>1, <1>2, <1>3, <1>5, <1>6
<1>8. CASE rows = <<>>
    <2>1. counter'[p] = counter[p]
        BY <1>1, <1>2, <1>8
    <2> QED
        BY <1>7, <1>8, <2>1 DEF Grown
<1>9. CASE rows # <<>>
    <2>1. counter'[p] = NextNumber(p) + Len(rows)
        BY <1>1, <1>2, <1>9
    <2>2. \A i \in 1..Len(rows) : rows[i].number = counter'[p] - Len(rows) + i - 1
        BY <1>1, <1>3, <1>5, <2>1
    <2>3. counter'[p] > 0
        BY <1>3, <1>5, <1>9, <2>1
    <2>4. counter[p] > 0 => counter'[p] = counter[p] + Len(rows)
        BY <1>4, <2>1
    <2> QED
        BY <1>7, <2>2, <2>3, <2>4 DEF Grown
<1> QED
    BY <1>8, <1>9

Recorders(p) ==
    \/ Answer(p)
    \/ \E next \in {"thinking", "speaking", "farewell"},
          roles \in {<<"agent">>, <<"agent", "debtor">>} :
             RecordUtterance(p, next, roles)

LEMMA StepRecords ==
    ASSUME IInv, NEW p \in Calls, Recorders(p)
    PROVE  /\ \E rows \in Seq(Rows) : Grown(p, rows)
           /\ UNCHANGED <<script, transcript, owner, socket, out, told, audio, failed>>
           /\ \/ /\ pipe[p].step = "thinking"
                 /\ pipe' = [pipe EXCEPT ![p].step = "speaking"]
              \/ /\ pipe[p].step = "recording"
                 /\ \E next \in {"thinking", "speaking", "farewell"} :
                       pipe' = [pipe EXCEPT ![p].step = next]
<1>1. VoiceTypeOK /\ TableHasMaximum
    BY DEF IInv
<1>2. CASE Answer(p)
    <2>1. PICK kept \in Recorded(p, <<"debtor">>) : Record(p, kept)
        BY <1>2 DEF Answer
    <2>2. <<"debtor">> \in Turns
        BY DEF Turns
    <2>3. \E rows \in Seq(Rows) : Grown(p, rows)
        BY <1>1, <2>1, <2>2, RecordingGrows
    <2> QED
        BY <1>2, <2>3 DEF Answer
<1>3. CASE \E next \in {"thinking", "speaking", "farewell"},
              roles \in {<<"agent">>, <<"agent", "debtor">>} :
                 RecordUtterance(p, next, roles)
    <2>1. PICK next \in {"thinking", "speaking", "farewell"},
               roles \in {<<"agent">>, <<"agent", "debtor">>} :
                  RecordUtterance(p, next, roles)
        BY <1>3
    <2>2. PICK kept \in Recorded(p, roles) : Record(p, kept)
        BY <2>1 DEF RecordUtterance
    <2>3. roles \in Turns
        BY DEF Turns
    <2>4. \E rows \in Seq(Rows) : Grown(p, rows)
        BY <1>1, <2>2, <2>3, RecordingGrows
    <2>5. pipe[p].step = "recording" /\ pipe' = [pipe EXCEPT ![p].step = next]
        BY <2>1 DEF RecordUtterance
    <2>6. UNCHANGED <<script, transcript, owner, socket, out, told, audio, failed>>
        BY <2>1 DEF RecordUtterance
    <2> QED
        BY <2>4, <2>5, <2>6
<1> QED
    BY <1>2, <1>3 DEF Recorders

LEMMA OwnerStep ==
    ASSUME IInv, Next
    PROVE  OwnerIsOpen' /\ owner' \in Calls \cup {NoCall}
           /\ socket' \in [Calls -> SocketState]
<1>1. /\ OwnerIsOpen /\ owner \in Calls \cup {NoCall}
      /\ socket \in [Calls -> SocketState] /\ lines \in [Calls -> Seq(Rows)]
    BY DEF IInv, VoiceTypeOK
<1>2. NoCall \notin Calls
    BY CallsAssumption
<1>3. ASSUME NEW p \in Calls, Connect(p) \/ RefuseCall(p)
      PROVE  OwnerIsOpen' /\ owner' = owner /\ socket' \in [Calls -> SocketState]
    <2>1. owner' = owner /\ socket[p].state = "new"
        BY <1>3 DEF Connect, RefuseCall
    <2>2. PICK state \in {"open", "closed"} : socket' = [socket EXCEPT ![p].state = state]
        BY <1>3 DEF Connect, RefuseCall
    <2>3. /\ socket' \in [Calls -> SocketState]
          /\ \A q \in Calls : q # p => socket'[q] = socket[q]
        BY <1>1, <2>2 DEF SocketState
    <2> QED
        BY <1>1, <1>2, <2>1, <2>3 DEF OwnerIsOpen
<1>4. ASSUME NEW p \in Calls, Offer(p)
      PROVE  OwnerIsOpen' /\ owner' = p /\ socket' = socket
    BY <1>4 DEF Offer, OwnerIsOpen
<1>5. ASSUME NEW p \in Calls, Leave(p) \/ EndHandler(p)
      PROVE  owner' = NoCall /\ socket' \in [Calls -> SocketState]
    <2>1. owner' = NoCall
        BY <1>5 DEF Leave, EndHandler
    <2>2. CASE Leave(p)
        BY <1>1, <2>2 DEF Leave, SocketState
    <2>3. CASE EndHandler(p)
        <3> DEFINE r == [NoSocket EXCEPT !.state = "closed"]
        <3>1. r \in SocketState
            BY EmptySeq DEF NoSocket, SocketState
        <3>2. socket' = [socket EXCEPT ![p] = r]
            BY <2>3 DEF EndHandler
        <3> HIDE DEF r
        <3> QED
            BY <1>1, <2>1, <3>1, <3>2
    <2> QED
        BY <1>5, <2>1, <2>2, <2>3
<1>6. ASSUME NEW p \in Calls, BeginHandlerPersist(p)
      PROVE  OwnerIsOpen' /\ owner' = owner /\ socket' \in [Calls -> SocketState]
    <2> DEFINE r == [state |-> "storing", added |-> lines[p]]
    <2>1. /\ owner' = owner /\ socket[p].state = "closing"
          /\ socket' = [socket EXCEPT ![p] = r]
        BY <1>6 DEF BeginHandlerPersist
    <2>2. r \in SocketState
        BY <1>1 DEF SocketState
    <2>3. /\ socket' \in [Calls -> SocketState]
          /\ \A q \in Calls : q # p => socket'[q] = socket[q]
        BY <1>1, <2>1, <2>2
    <2> QED
        BY <1>1, <1>2, <2>1, <2>3 DEF OwnerIsOpen
<1>19. ASSUME NEW p \in Calls, RetryPersist(p)
       PROVE  OwnerIsOpen' /\ owner' = owner /\ socket' \in [Calls -> SocketState]
    <2>1. /\ owner' = owner /\ socket[p].state = "storing"
          /\ socket' = [socket EXCEPT ![p].added = lines[p]]
        BY <1>19 DEF RetryPersist
    <2>2. /\ socket' \in [Calls -> SocketState]
          /\ \A q \in Calls : q # p => socket'[q] = socket[q]
        BY <1>1, <2>1 DEF SocketState
    <2> QED
        BY <1>1, <1>2, <2>1, <2>2 DEF OwnerIsOpen
<1>7. ASSUME \/ \E p \in Calls : Farewell(p)
             \/ ConnectionFails
      PROVE  owner' = NoCall /\ socket' = socket
    BY <1>7 DEF Farewell, ConnectionFails
<1>8. ASSUME NEW p \in Calls,
             \/ HandleTrack(p) \/ GiveUp(p) \/ Speak(p)
             \/ BeginPersist(p) \/ EndCall(p) \/ ForwardOutput(p) \/ Recorders(p)
             \/ \E speech \in BOOLEAN : Hear(p, speech)
      PROVE  UNCHANGED <<owner, socket>>
    BY <1>8, StepRecords DEF Recorders, HandleTrack, GiveUp, Speak, BeginPersist, EndCall,
                             ForwardOutput, Hear
<1>9. ASSUME NEW t \in Texts, TextTurn(t)
      PROVE  UNCHANGED <<owner, socket>>
    BY <1>9 DEF TextTurn
<1>10. ASSUME UNCHANGED <<owner, socket>>
       PROVE  OwnerIsOpen' /\ owner' \in Calls \cup {NoCall}
              /\ socket' \in [Calls -> SocketState]
    BY <1>1, <1>10 DEF OwnerIsOpen
<1>11. ASSUME owner' = NoCall PROVE OwnerIsOpen' /\ owner' \in Calls \cup {NoCall}
    BY <1>11 DEF OwnerIsOpen
<1>12. CASE \E p \in Calls : Connect(p) \/ RefuseCall(p)
    BY <1>1, <1>3, <1>12
<1>13. CASE \E p \in Calls : Offer(p)
    BY <1>1, <1>4, <1>13
<1>14. CASE \E p \in Calls : Leave(p) \/ EndHandler(p)
    BY <1>5, <1>11, <1>14
<1>15. CASE \E p \in Calls : BeginHandlerPersist(p) \/ RetryPersist(p)
    BY <1>1, <1>6, <1>15, <1>19
<1>16. CASE ConnectionFails \/ \E p \in Calls : Farewell(p)
    BY <1>1, <1>7, <1>11, <1>16
<1>17. CASE \E p \in Calls :
              \/ HandleTrack(p) \/ GiveUp(p) \/ Speak(p)
              \/ BeginPersist(p) \/ EndCall(p) \/ ForwardOutput(p) \/ Recorders(p)
              \/ \E speech \in BOOLEAN : Hear(p, speech)
    BY <1>8, <1>10, <1>17
<1>18. CASE \E t \in Texts : TextTurn(t)
    BY <1>9, <1>10, <1>18
<1> QED
    BY <1>12, <1>13, <1>14, <1>15, <1>16, <1>17, <1>18
       DEF Next, PipelineStep, HandlerStep, Recorders

-----------------------------------------------------------------------------
(* One call at a time *)

\* What another call, a text message or the connection can do to q.
Quiet(q) ==
    /\ Undisturbed(q) /\ socket'[q] = socket[q] /\ transcript'[q] = transcript[q]
    /\ lines'[q] = lines[q] /\ spoken'[q] = spoken[q] /\ counter'[q] = counter[q]
    /\ out'[q] = out[q] /\ (q \in told' <=> q \in told) /\ (q \in failed => q \in failed')

\* What q does itself.
Acts(q) ==
    \/ Connect(q) \/ RefuseCall(q) \/ Offer(q) \/ HandleTrack(q) \/ Leave(q)
    \/ \E speech \in BOOLEAN : Hear(q, speech)
    \/ Recorders(q) \/ GiveUp(q) \/ Speak(q) \/ Farewell(q) \/ BeginPersist(q)
    \/ EndCall(q)
    \/ BeginHandlerPersist(q) \/ RetryPersist(q) \/ EndHandler(q) \/ ForwardOutput(q)

LEMMA Actors ==
    ASSUME Next
    PROVE  (\E p \in Calls : Acts(p)) \/ ConnectionFails \/ \E t \in Texts : TextTurn(t)
BY DEF Next, Acts, Recorders, PipelineStep, HandlerStep

LEMMA OthersAreQuiet ==
    ASSUME IInv, NEW p \in Calls, Acts(p), NEW q \in Calls, q # p
    PROVE  Quiet(q)
<1>1. VoiceTypeOK /\ BufferIsLatest
    BY DEF IInv
<1>2. /\ transcript \in [Writers -> Seq(Rows)] /\ socket \in [Calls -> SocketState]
      /\ pipe \in [Calls -> PipeState] /\ lines \in [Calls -> Seq(Rows)]
      /\ spoken \in [Calls -> Seq(Rows)] /\ counter \in [Calls -> Nat]
      /\ out \in [Calls -> Seq({"audio", "end"})] /\ q \in Writers
    BY <1>1 DEF VoiceTypeOK, Writers
<1>3. ASSUME pipe' = pipe PROVE Undisturbed(q)
    BY <1>3 DEF Undisturbed
<1>4. CASE Connect(p) \/ RefuseCall(p)
    <2>1. PICK state \in {"open", "closed"} : socket' = [socket EXCEPT ![p].state = state]
        BY <1>4 DEF Connect, RefuseCall
    <2>2. socket'[q] = socket[q]
        BY <1>2, <2>1
    <2> QED
        BY <1>3, <1>4, <2>2 DEF Connect, RefuseCall, Quiet
<1>5. CASE Offer(p)
    BY <1>3, <1>5 DEF Offer, Quiet
<1>6. CASE HandleTrack(p)
    BY <1>1, <1>6, HandleTrackPipes DEF HandleTrack, Quiet
<1>7. CASE Leave(p)
    <2>1. socket'[q] = socket[q]
        BY <1>2, <1>7 DEF Leave
    <2> QED
        BY <1>1, <1>7, <2>1, LeavePipes DEF Leave, Quiet
<1>8. CASE \E speech \in BOOLEAN : Hear(p, speech)
    <2>1. Undisturbed(q)
        BY <1>1, <1>8, HearPipes
    <2>2. UNCHANGED <<socket, transcript, lines, spoken, counter, out, told, failed>>
        BY <1>8 DEF Hear
    <2> QED
        BY <2>1, <2>2 DEF Quiet
<1>9. CASE Recorders(p)
    <2>1. /\ \E rows \in Seq(Rows) : Grown(p, rows)
          /\ UNCHANGED <<transcript, socket, out, told, failed>>
          /\ \E next \in {"thinking", "speaking", "farewell"} :
                pipe' = [pipe EXCEPT ![p].step = next]
        BY <1>9, StepRecords
    <2>2. Undisturbed(q)
        BY <1>1, <2>1, StepPipes
    <2>3. lines'[q] = lines[q] /\ spoken'[q] = spoken[q] /\ counter'[q] = counter[q]
        BY <2>1 DEF Grown
    <2> QED
        BY <2>1, <2>2, <2>3 DEF Quiet
<1>10. CASE GiveUp(p)
    BY <1>1, <1>10, EndUtterancePipes DEF GiveUp, Quiet
<1>11. CASE Speak(p)
    <2>1. Undisturbed(q)
        BY <1>1, <1>11, SpeakPipes
    <2>2. UNCHANGED <<socket, transcript, lines, spoken, counter, told, failed>>
          /\ out'[q] = out[q]
        BY <1>2, <1>11 DEF Speak
    <2> QED
        BY <2>1, <2>2 DEF Quiet
<1>12. CASE Farewell(p)
    BY <1>1, <1>12, FarewellPipes DEF Farewell, Quiet
<1>13. CASE BeginPersist(p)
    BY <1>1, <1>13, BeginPersistPipes DEF BeginPersist, Quiet
<1>14. CASE EndCall(p)
    <2>1. Undisturbed(q)
        BY <1>1, <1>14, EndUtterancePipes DEF EndCall
    <2>2. /\ transcript'[q] = transcript[q] /\ lines'[q] = lines[q]
          /\ failed \subseteq failed'
        BY <1>2, <1>14, EndCallSettles DEF Settled
    <2>3. UNCHANGED <<socket, spoken, counter, told>> /\ out'[q] = out[q]
        BY <1>2, <1>14 DEF EndCall
    <2> QED
        BY <2>1, <2>2, <2>3 DEF Quiet
<1>15. CASE BeginHandlerPersist(p) \/ RetryPersist(p)
    <2>1. socket'[q] = socket[q]
        BY <1>2, <1>15 DEF BeginHandlerPersist, RetryPersist
    <2> QED
        BY <1>3, <1>15, <2>1 DEF BeginHandlerPersist, RetryPersist, Quiet
<1>16. CASE EndHandler(p)
    <2>1. Undisturbed(q)
        BY <1>1, <1>16, ClosingPipes DEF EndHandler
    <2>2. /\ transcript'[q] = transcript[q] /\ lines'[q] = lines[q]
          /\ failed \subseteq failed'
        BY <1>2, <1>16, EndHandlerSettles DEF Settled
    <2>3. UNCHANGED <<spoken, counter, told>> /\ out'[q] = out[q] /\ socket'[q] = socket[q]
        BY <1>2, <1>16 DEF EndHandler
    <2> QED
        BY <2>1, <2>2, <2>3 DEF Quiet
<1>17. CASE ForwardOutput(p)
    <2>1. out'[q] = out[q]
        BY <1>2, <1>17 DEF ForwardOutput
    <2>2. (q \in told' <=> q \in told)
        BY <1>17 DEF ForwardOutput
    <2> QED
        BY <1>3, <1>17, <2>1, <2>2 DEF ForwardOutput, Quiet
<1> QED
    BY <1>4, <1>5, <1>6, <1>7, <1>8, <1>9, <1>10, <1>11, <1>12, <1>13, <1>14, <1>15,
       <1>16, <1>17 DEF Acts

LEMMA EachActsOrIsQuiet ==
    ASSUME IInv, Next, NEW q \in Calls
    PROVE  Acts(q) \/ Quiet(q)
<1>1. VoiceTypeOK
    BY DEF IInv
<1>2. CASE \E p \in Calls : Acts(p)
    BY <1>2, OthersAreQuiet
<1>3. CASE ConnectionFails
    BY <1>1, <1>3, ClosingPipes DEF ConnectionFails, Quiet
<1>4. CASE \E t \in Texts : TextTurn(t)
    <2>1. PICK t \in Texts : TextTurn(t)
        BY <1>4
    <2>2. transcript'[q] = transcript[q]
        BY <2>1, TextTurnRows
    <2> QED
        BY <2>1, <2>2 DEF TextTurn, Quiet, Undisturbed
<1> QED
    BY <1>2, <1>3, <1>4, Actors

LEMMA RowsStep ==
    ASSUME IInv, Next
    PROVE  /\ transcript' \in [Writers -> Seq(Rows)]
           /\ {lines', spoken'} \subseteq [Calls -> Seq(Rows)]
           /\ counter' \in [Calls -> Nat] /\ failed' \subseteq Calls
           /\ TableHasMaximum'
<1>1. /\ transcript \in [Writers -> Seq(Rows)]
      /\ lines \in [Calls -> Seq(Rows)] /\ spoken \in [Calls -> Seq(Rows)]
      /\ counter \in [Calls -> Nat] /\ failed \subseteq Calls /\ TableHasMaximum
    BY DEF IInv, VoiceTypeOK
<1>2. ASSUME transcript' = transcript
      PROVE  TableHasMaximum'
    BY <1>1, <1>2 DEF TableHasMaximum, StoredNumbers
<1>3. ASSUME NEW p \in Calls, Recorders(p)
      PROVE  /\ transcript' = transcript /\ failed' = failed
             /\ {lines', spoken'} \subseteq [Calls -> Seq(Rows)]
             /\ counter' \in [Calls -> Nat]
    BY <1>3, StepRecords DEF Grown
<1>4. ASSUME NEW p \in Calls, EndCall(p)
      PROVE  /\ transcript' \in [Writers -> Seq(Rows)] /\ lines' \in [Calls -> Seq(Rows)]
             /\ UNCHANGED <<spoken, counter>> /\ failed' \subseteq Calls
             /\ TableHasMaximum'
    <2>1. Settled(p, pipe[p].added, Len(spoken[p]))
        BY <1>4, EndCallSettles
    <2>2. TableHasMaximum'
        BY <2>1, SettledMaximum
    <2>3. UNCHANGED <<spoken, counter>>
        BY <1>4 DEF EndCall
    <2> QED
        BY <2>1, <2>2, <2>3 DEF Settled
<1>5. ASSUME NEW p \in Calls, EndHandler(p)
      PROVE  /\ transcript' \in [Writers -> Seq(Rows)] /\ lines' \in [Calls -> Seq(Rows)]
             /\ UNCHANGED <<spoken, counter>> /\ failed' \subseteq Calls
             /\ TableHasMaximum'
    <2>1. PICK b \in 0..Len(spoken[p]) : Settled(p, socket[p].added, b)
        BY <1>5, EndHandlerSettles
    <2>2. TableHasMaximum'
        BY <2>1, SettledMaximum
    <2>3. UNCHANGED <<spoken, counter>>
        BY <1>5 DEF EndHandler
    <2> QED
        BY <2>1, <2>2, <2>3 DEF Settled
<1>6. ASSUME NEW t \in Texts, TextTurn(t)
      PROVE  /\ transcript' \in [Writers -> Seq(Rows)] /\ TableHasMaximum'
             /\ UNCHANGED <<lines, spoken, counter, failed>>
    BY <1>6, TextTurnRows DEF TextTurn
<1>7. ASSUME \/ ConnectionFails
             \/ \E p \in Calls :
                   \/ Connect(p) \/ RefuseCall(p) \/ Offer(p) \/ HandleTrack(p)
                   \/ Leave(p) \/ (\E speech \in BOOLEAN : Hear(p, speech))
                   \/ GiveUp(p) \/ Speak(p) \/ Farewell(p) \/ BeginPersist(p)
                   \/ BeginHandlerPersist(p) \/ RetryPersist(p) \/ ForwardOutput(p)
      PROVE  UNCHANGED <<transcript, lines, spoken, counter, failed>>
    <2>1. ASSUME NEW p \in Calls, \/ Connect(p) \/ RefuseCall(p) \/ Offer(p)
                                  \/ HandleTrack(p) \/ Leave(p)
          PROVE  UNCHANGED <<transcript, lines, spoken, counter, failed>>
        BY <2>1 DEF Connect, RefuseCall, Offer, HandleTrack, Leave
    <2>2. ASSUME NEW p \in Calls, \/ GiveUp(p) \/ Speak(p) \/ Farewell(p)
                                  \/ BeginPersist(p)
                                  \/ BeginHandlerPersist(p) \/ RetryPersist(p)
                                  \/ ForwardOutput(p)
          PROVE  UNCHANGED <<transcript, lines, spoken, counter, failed>>
        BY <2>2 DEF GiveUp, Speak, Farewell, BeginPersist, BeginHandlerPersist,
                    RetryPersist,
                    ForwardOutput
    <2>3. ASSUME NEW p \in Calls, \E speech \in BOOLEAN : Hear(p, speech)
          PROVE  UNCHANGED <<transcript, lines, spoken, counter, failed>>
        BY <2>3 DEF Hear
    <2>4. CASE ConnectionFails
        BY <2>4 DEF ConnectionFails
    <2> QED
        BY <1>7, <2>1, <2>2, <2>3, <2>4
<1> QED
    <2>1. CASE \E p \in Calls : Recorders(p)
        BY <1>1, <1>2, <1>3, <2>1
    <2>2. CASE \E p \in Calls : EndCall(p)
        BY <1>1, <1>4, <2>2
    <2>3. CASE \E p \in Calls : EndHandler(p)
        BY <1>1, <1>5, <2>3
    <2>4. CASE \E t \in Texts : TextTurn(t)
        BY <1>1, <1>6, <2>4
    <2>5. CASE \/ ConnectionFails
               \/ \E p \in Calls :
                   \/ Connect(p) \/ RefuseCall(p) \/ Offer(p) \/ HandleTrack(p)
                   \/ Leave(p) \/ (\E speech \in BOOLEAN : Hear(p, speech))
                   \/ GiveUp(p) \/ Speak(p) \/ Farewell(p) \/ BeginPersist(p)
                   \/ BeginHandlerPersist(p) \/ RetryPersist(p) \/ ForwardOutput(p)
        BY <1>1, <1>2, <1>7, <2>5
    <2> QED
        BY <2>1, <2>2, <2>3, <2>4, <2>5, Actors DEF Acts

LEMMA OutputStep ==
    ASSUME IInv, Next
    PROVE  /\ script' \in Scripts
           /\ out' \in [Calls -> Seq({"audio", "end"})] /\ told' \subseteq Calls
           /\ frames' \in [Calls -> Nat] /\ \A p \in Calls : frames'[p] <= FrameBound[p]
<1>1. /\ script \in Scripts
      /\ out \in [Calls -> Seq({"audio", "end"})] /\ told \subseteq Calls
      /\ frames \in [Calls -> Nat] /\ \A p \in Calls : frames[p] <= FrameBound[p]
    BY DEF IInv, VoiceTypeOK
<1>2. ASSUME NEW p \in Calls, \E speech \in BOOLEAN : Hear(p, speech)
      PROVE  /\ frames' \in [Calls -> Nat] /\ \A q \in Calls : frames'[q] <= FrameBound[q]
             /\ UNCHANGED <<script, out, told>>
    <2>1. frames[p] + 1 <= FrameBound[p] /\ frames' = [frames EXCEPT ![p] = frames[p] + 1]
          /\ UNCHANGED <<script, out, told>>
        BY <1>2 DEF Hear
    <2> QED
        BY <1>1, <2>1
<1>3. ASSUME NEW p \in Calls, ForwardOutput(p)
      PROVE  /\ out' \in [Calls -> Seq({"audio", "end"})] /\ told' \subseteq Calls
             /\ UNCHANGED <<script, frames>>
    <2>1. Tail(out[p]) \in Seq({"audio", "end"})
        BY <1>1, <1>3, HeadTailProperties DEF ForwardOutput
    <2>2. out' = [out EXCEPT ![p] = Tail(out[p])] /\ told' \subseteq told \cup {p}
          /\ UNCHANGED <<script, frames>>
        BY <1>3 DEF ForwardOutput, audio
    <2> QED
        BY <1>1, <2>1, <2>2
<1>4. ASSUME NEW p \in Calls, Speak(p) \/ EndCall(p) \/ EndHandler(p)
      PROVE  /\ out' \in [Calls -> Seq({"audio", "end"})]
             /\ UNCHANGED <<script, told, frames>>
    <2>1. /\ Append(out[p], "audio") \in Seq({"audio", "end"})
          /\ <<"end">> \in Seq({"audio", "end"}) /\ <<>> \in Seq({"audio", "end"})
        BY <1>1, AppendProperties, EmptySeq
    <2>2. PICK queue \in {Append(out[p], "audio"), <<"end">>, <<>>} :
              out' = [out EXCEPT ![p] = queue]
        BY <1>4 DEF Speak, EndCall, EndHandler, Announced
    <2>3. UNCHANGED <<script, told, frames>>
        BY <1>4 DEF Speak, EndCall, EndHandler, audio
    <2> QED
        BY <1>1, <2>1, <2>2, <2>3
<1>5. ASSUME NEW p \in Calls, Recorders(p)
      PROVE  UNCHANGED <<script, out, told, frames>>
    BY <1>5, StepRecords DEF audio
<1>6. ASSUME \/ ConnectionFails \/ (\E t \in Texts : TextTurn(t))
             \/ \E p \in Calls :
                   \/ Connect(p) \/ RefuseCall(p) \/ Offer(p) \/ HandleTrack(p)
                   \/ Leave(p) \/ GiveUp(p) \/ Farewell(p) \/ BeginPersist(p)
                   \/ BeginHandlerPersist(p) \/ RetryPersist(p)
      PROVE  UNCHANGED <<script, out, told, frames>>
    BY <1>6 DEF ConnectionFails, TextTurn, Connect, RefuseCall, Offer, HandleTrack, Leave,
                GiveUp, Farewell, BeginPersist, BeginHandlerPersist, RetryPersist, audio
<1> QED
    <2>1. CASE \E p \in Calls : \E speech \in BOOLEAN : Hear(p, speech)
        BY <1>1, <1>2, <2>1
    <2>2. CASE \E p \in Calls : ForwardOutput(p)
        BY <1>1, <1>3, <2>2
    <2>3. CASE \E p \in Calls : Speak(p) \/ EndCall(p) \/ EndHandler(p)
        BY <1>1, <1>4, <2>3
    <2>4. CASE \E p \in Calls : Recorders(p)
        BY <1>1, <1>5, <2>4
    <2>5. CASE \/ ConnectionFails \/ (\E t \in Texts : TextTurn(t))
               \/ \E p \in Calls :
                   \/ Connect(p) \/ RefuseCall(p) \/ Offer(p) \/ HandleTrack(p)
                   \/ Leave(p) \/ GiveUp(p) \/ Farewell(p) \/ BeginPersist(p)
                   \/ BeginHandlerPersist(p) \/ RetryPersist(p)
        BY <1>1, <1>6, <2>5
    <2> QED
        BY <2>1, <2>2, <2>3, <2>4, <2>5, Actors DEF Acts

LEMMA TypeStep ==
    ASSUME IInv, Next
    PROVE  VoiceTypeOK'
<1>1. /\ pipe' \in [Calls -> PipeState] /\ heard' \in [Calls -> Seq(Nat)]
      /\ BufferIsLatest'
    BY BufferStep
<1>2. \A p \in Calls : pipe'[p].buffer = Latest(heard'[p])
    BY <1>1 DEF BufferIsLatest, Latest
<1>3. \A p \in Calls : Len(pipe'[p].buffer) <= MaxFrames
    BY <1>1, <1>2, BufferKeepsItsLimit
<1> QED
    BY <1>1, <1>3, OwnerStep, RowsStep, OutputStep DEF VoiceTypeOK

-----------------------------------------------------------------------------
(* The end of a call *)

LEMMA Forwarded ==
    ASSUME NEW T, NEW queue \in Seq(T), queue # <<>>
    PROVE  Range(Tail(queue)) \subseteq Range(queue) /\ Head(queue) \in Range(queue)
<1>1. /\ Len(queue) \in Nat \ {0} /\ DOMAIN queue = 1..Len(queue)
      /\ Tail(queue) \in Seq(T) /\ Len(Tail(queue)) = Len(queue) - 1
      /\ \A i \in 1..Len(Tail(queue)) : Tail(queue)[i] = queue[i + 1]
      /\ Head(queue) = queue[1]
    BY HeadTailProperties, LenProperties, EmptySeq
<1>2. DOMAIN Tail(queue) = 1..Len(Tail(queue))
    BY <1>1, LenProperties
<1>3. Head(queue) \in Range(queue)
    BY <1>1 DEF Range
<1>4. ASSUME NEW x \in Range(Tail(queue))
      PROVE  x \in Range(queue)
    <2>1. PICK i \in 1..Len(Tail(queue)) : x = Tail(queue)[i]
        BY <1>2 DEF Range
    <2>2. i + 1 \in DOMAIN queue /\ x = queue[i + 1]
        BY <1>1, <2>1
    <2> QED
        BY <2>2 DEF Range
<1> QED
    BY <1>3, <1>4

LEMMA Queued ==
    ASSUME NEW T, NEW queue \in Seq(T), NEW x \in T
    PROVE  Range(Append(queue, x)) \subseteq Range(queue) \cup {x}
<1>1. /\ Len(queue) \in Nat /\ DOMAIN queue = 1..Len(queue)
      /\ Append(queue, x) \in Seq(T) /\ Len(Append(queue, x)) = Len(queue) + 1
      /\ \A i \in 1..Len(queue) : Append(queue, x)[i] = queue[i]
      /\ Append(queue, x)[Len(queue) + 1] = x
    BY AppendProperties, LenProperties
<1>2. DOMAIN Append(queue, x) = 1..Len(queue) + 1
    BY <1>1, LenProperties
<1>3. ASSUME NEW y \in Range(Append(queue, x))
      PROVE  y \in Range(queue) \cup {x}
    <2>1. PICK i \in 1..Len(queue) + 1 : y = Append(queue, x)[i]
        BY <1>2, <1>3 DEF Range
    <2>2. CASE i \in 1..Len(queue)
        BY <1>1, <2>1, <2>2 DEF Range
    <2>3. CASE i = Len(queue) + 1
        BY <1>1, <2>1, <2>3
    <2> QED
        BY <1>1, <2>1, <2>2, <2>3
<1> QED
    BY <1>3

LEMMA EndStep ==
    ASSUME IInv, Next
    PROVE  EndIsFinal'
<1>1. /\ VoiceTypeOK /\ EndIsFinal /\ StoringIsOfTheBuffer
      /\ out \in [Calls -> Seq({"audio", "end"})] /\ failed \subseteq failed'
    <2>1. VoiceTypeOK /\ EndIsFinal /\ StoringIsOfTheBuffer
        BY DEF IInv
    <2>2. ASSUME NEW p \in Calls PROVE p \in failed => p \in failed'
        <3>1. CASE Quiet(p)
            BY <3>1 DEF Quiet
        <3>2. CASE EndCall(p)
            BY <3>2, EndCallSettles DEF Settled
        <3>3. CASE EndHandler(p)
            BY <3>3, EndHandlerSettles DEF Settled
        <3>4. CASE Recorders(p)
            BY <3>4, StepRecords
        <3>5. CASE \/ Connect(p) \/ RefuseCall(p) \/ Offer(p) \/ HandleTrack(p)
                   \/ Leave(p) \/ \E speech \in BOOLEAN : Hear(p, speech)
            BY <3>5 DEF Connect, RefuseCall, Offer, HandleTrack, Leave, Hear
        <3>6. CASE \/ GiveUp(p) \/ Speak(p) \/ Farewell(p) \/ BeginPersist(p)
                   \/ BeginHandlerPersist(p) \/ RetryPersist(p) \/ ForwardOutput(p)
            BY <3>6 DEF GiveUp, Speak, Farewell, BeginPersist, BeginHandlerPersist,
                        RetryPersist,
                        ForwardOutput
        <3> QED
            BY <3>1, <3>2, <3>3, <3>4, <3>5, <3>6, EachActsOrIsQuiet DEF Acts
    <2> QED
        BY <2>1, <2>2 DEF VoiceTypeOK
<1> SUFFICES ASSUME NEW q \in Calls
             PROVE  q \in told' \/ "end" \in Range(out'[q]) =>
                       /\ pipe'[q].step \in {"none", "listening"}
                       /\ lines'[q] = <<>> \/ q \in failed'
    BY DEF EndIsFinal
<1> DEFINE Before == q \in told \/ "end" \in Range(out[q])
           After == q \in told' \/ "end" \in Range(out'[q])
<1>2. out[q] \in Seq({"audio", "end"})
    BY <1>1
<1>3. Before => /\ pipe[q].step \in {"none", "listening"}
                /\ lines[q] = <<>> \/ q \in failed
    BY <1>1 DEF EndIsFinal
<1> HIDE DEF Before, After
<1>4. SUFFICES After => /\ pipe'[q].step \in {"none", "listening"}
                        /\ lines'[q] = <<>> \/ q \in failed'
    BY DEF After
<1>5. CASE Quiet(q)
    <2>1. After => Before
        BY <1>5 DEF Quiet, Before, After
    <2> QED
        BY <1>1, <1>3, <1>5, <2>1 DEF Quiet, Undisturbed
<1>6. CASE \/ Connect(q) \/ RefuseCall(q) \/ Offer(q)
           \/ BeginHandlerPersist(q) \/ RetryPersist(q)
    <2>1. UNCHANGED <<pipe, out, told, lines>>
        BY <1>6 DEF Connect, RefuseCall, Offer, BeginHandlerPersist, RetryPersist
    <2>2. After => Before
        BY <2>1 DEF Before, After
    <2> QED
        BY <1>1, <1>3, <2>1, <2>2
<1>7. CASE HandleTrack(q)
    <2>1. UNCHANGED <<out, told, lines>> /\ pipe'[q].step = "listening"
        BY <1>1, <1>7, HandleTrackPipes DEF HandleTrack
    <2>2. After => Before
        BY <2>1 DEF Before, After
    <2> QED
        BY <1>1, <1>3, <2>1, <2>2
<1>8. CASE Leave(q)
    <2>1. UNCHANGED <<out, told, lines>> /\ Undisturbed(q)
        BY <1>1, <1>8, LeavePipes DEF Leave
    <2>2. After => Before
        BY <2>1 DEF Before, After
    <2> QED
        BY <1>1, <1>3, <2>1, <2>2 DEF Undisturbed
<1>9. CASE \E speech \in BOOLEAN : Hear(q, speech)
    BY <1>9 DEF Hear, After
<1>10. CASE Recorders(q)
    <2>1. UNCHANGED <<out, told>> /\ pipe[q].step \notin {"none", "listening"}
        BY <1>10, StepRecords
    <2> QED
        BY <1>3, <2>1 DEF Before, After
<1>11. CASE GiveUp(q) \/ Farewell(q) \/ BeginPersist(q)
    <2>1. UNCHANGED <<out, told>> /\ pipe[q].step \notin {"none", "listening"}
        BY <1>11 DEF GiveUp, Farewell, BeginPersist
    <2> QED
        BY <1>3, <2>1 DEF Before, After
<1>12. CASE Speak(q)
    <2>1. told' = told /\ out'[q] = Append(out[q], "audio") /\ pipe[q].step = "speaking"
        BY <1>1, <1>12 DEF Speak
    <2>2. Range(out'[q]) \subseteq Range(out[q]) \cup {"audio"}
        BY <1>2, <2>1, Queued
    <2>3. After => Before
        BY <2>1, <2>2 DEF Before, After
    <2> QED
        BY <1>3, <2>1, <2>3
<1>13. CASE EndCall(q)
    <2>1. pipe'[q].step \in {"none", "listening"}
        BY <1>1, <1>13, EndUtterancePipes DEF EndCall
    <2>2. lines[q] \in {<<>>, pipe[q].added}
        BY <1>1, <1>13 DEF EndCall, StoringIsOfTheBuffer
    <2>3. lines'[q] = <<>> \/ q \in failed'
        BY <1>13, <2>2, EndCallSettles DEF Settled
    <2> QED
        BY <2>1, <2>3
<1>14. CASE EndHandler(q)
    <2>1. told' = told /\ out'[q] = <<>> /\ Undisturbed(q)
        BY <1>1, <1>14, ClosingPipes DEF EndHandler
    <2>2. lines'[q] = lines[q] \/ lines'[q] = <<>>
        BY <1>14, EndHandlerSettles DEF Settled
    <2>3. Range(out'[q]) = {}
        BY <2>1 DEF Range
    <2>4. After => Before
        BY <2>1, <2>3 DEF Before, After
    <2> QED
        BY <1>1, <1>3, <2>1, <2>2, <2>4 DEF Undisturbed
<1>15. CASE ForwardOutput(q)
    <2>1. /\ UNCHANGED <<pipe, lines>> /\ out[q] # <<>> /\ out'[q] = Tail(out[q])
          /\ q \in told' => q \in told \/ Head(out[q]) = "end"
        BY <1>1, <1>15 DEF ForwardOutput
    <2>2. Range(out'[q]) \subseteq Range(out[q]) /\ Head(out[q]) \in Range(out[q])
        BY <1>2, <2>1, Forwarded
    <2>3. After => Before
        BY <2>1, <2>2 DEF Before, After
    <2> QED
        BY <1>1, <1>3, <2>1, <2>3
<1> QED
    BY <1>5, <1>6, <1>7, <1>8, <1>9, <1>10, <1>11, <1>12, <1>13, <1>14, <1>15,
       EachActsOrIsQuiet DEF Acts

LEMMA StoringStep ==
    ASSUME IInv, Next
    PROVE  StoringIsOfTheBuffer'
<1>1. VoiceTypeOK /\ StoringIsOfTheBuffer
    BY DEF IInv
<1> SUFFICES ASSUME NEW q \in Calls, pipe'[q].step = "storing"
             PROVE  lines'[q] \in {<<>>, pipe'[q].added}
    BY DEF StoringIsOfTheBuffer
<1>2. CASE Quiet(q)
    BY <1>1, <1>2 DEF Quiet, Undisturbed, StoringIsOfTheBuffer
<1>3. CASE BeginPersist(q)
    BY <1>1, <1>3, BeginPersistPipes DEF BeginPersist
<1>4. CASE \/ Connect(q) \/ RefuseCall(q) \/ Offer(q)
           \/ BeginHandlerPersist(q) \/ RetryPersist(q)
           \/ ForwardOutput(q)
    <2>1. UNCHANGED <<pipe, lines>>
        BY <1>4 DEF Connect, RefuseCall, Offer, BeginHandlerPersist, RetryPersist,
                    ForwardOutput
    <2> QED
        BY <1>1, <2>1 DEF StoringIsOfTheBuffer
<1>5. CASE Leave(q)
    BY <1>1, <1>5, LeavePipes DEF Leave, Undisturbed, StoringIsOfTheBuffer
<1>6. CASE EndHandler(q)
    <2>1. Undisturbed(q)
        BY <1>1, <1>6, ClosingPipes DEF EndHandler
    <2>2. lines'[q] = lines[q] \/ lines'[q] = <<>>
        BY <1>6, EndHandlerSettles DEF Settled
    <2> QED
        BY <1>1, <2>1, <2>2 DEF Undisturbed, StoringIsOfTheBuffer
<1>7. CASE GiveUp(q) \/ EndCall(q)
    BY <1>1, <1>7, EndUtterancePipes DEF GiveUp, EndCall
<1>8. CASE Speak(q)
    BY <1>1, <1>8, SpeakPipes
<1>9. CASE Farewell(q)
    BY <1>1, <1>9, FarewellPipes
<1>10. CASE HandleTrack(q)
    BY <1>1, <1>10, HandleTrackPipes
<1>11. CASE \E speech \in BOOLEAN : Hear(q, speech)
    <2>1. BufferIsLatest
        BY DEF IInv
    <2> QED
        BY <1>1, <1>11, <2>1, HearPipes
<1>12. CASE Recorders(q)
    <2>1. \E next \in {"thinking", "speaking", "farewell"} :
              pipe' = [pipe EXCEPT ![q].step = next]
        BY <1>12, StepRecords
    <2>2. pipe'[q].step \in {"thinking", "speaking", "farewell"}
        BY <1>1, <2>1, StepPipes
    <2> QED
        BY <2>2
<1> QED
    BY <1>2, <1>3, <1>4, <1>5, <1>6, <1>7, <1>8, <1>9, <1>10, <1>11, <1>12,
       EachActsOrIsQuiet DEF Acts

-----------------------------------------------------------------------------
(* What is recorded, and what of it is stored *)

LEMMA SpokenStep ==
    ASSUME IInv, Next, NEW q \in Calls
    PROVE  \/ Recorders(q)
           \/ spoken'[q] = spoken[q] /\ counter'[q] = counter[q]
<1>1. CASE Quiet(q)
    BY <1>1 DEF Quiet
<1>2. CASE \/ Connect(q) \/ RefuseCall(q) \/ Offer(q) \/ HandleTrack(q) \/ Leave(q)
           \/ \E speech \in BOOLEAN : Hear(q, speech)
    BY <1>2 DEF Connect, RefuseCall, Offer, HandleTrack, Leave, Hear
<1>3. CASE \/ GiveUp(q) \/ Speak(q) \/ Farewell(q) \/ BeginPersist(q) \/ EndCall(q)
    BY <1>3 DEF GiveUp, Speak, Farewell, BeginPersist, EndCall
<1>4. CASE BeginHandlerPersist(q) \/ RetryPersist(q) \/ EndHandler(q) \/ ForwardOutput(q)
    BY <1>4 DEF BeginHandlerPersist, RetryPersist, EndHandler, ForwardOutput
<1> QED
    BY <1>1, <1>2, <1>3, <1>4, EachActsOrIsQuiet DEF Acts

LEMMA Lengthened ==
    ASSUME NEW T, NEW s \in Seq(T), NEW rows \in Seq(T)
    PROVE  /\ s \o rows \in Seq(T) /\ Len(s \o rows) = Len(s) + Len(rows)
           /\ {Len(s), Len(rows)} \subseteq Nat
           /\ \A i \in 1..Len(s) : (s \o rows)[i] = s[i]
           /\ \A i \in 1..Len(rows) : (s \o rows)[Len(s) + i] = rows[i]
<1>1. /\ s \o rows \in Seq(T) /\ Len(s \o rows) = Len(s) + Len(rows)
      /\ Len(s) \in Nat /\ Len(rows) \in Nat
      /\ \A i \in 1..Len(s) + Len(rows) : (s \o rows)[i] =
            IF i <= Len(s) THEN s[i] ELSE rows[i - Len(s)]
    BY ConcatProperties, LenProperties
<1> DEFINE all == s \o rows
           n == Len(s)
           m == Len(rows)
<1>2. /\ n \in Nat /\ m \in Nat
      /\ \A i \in 1..n + m : all[i] = IF i <= n THEN s[i] ELSE rows[i - n]
    BY <1>1
<1> HIDE DEF all, n, m
<1>3. \A i \in 1..n : all[i] = s[i]
    BY <1>2
<1>4. ASSUME NEW i \in 1..m PROVE all[n + i] = rows[i]
    <2>1. n + i \in 1..n + m /\ ~(n + i <= n) /\ (n + i) - n = i
        BY <1>2
    <2> QED
        BY <1>2, <2>1
<1> QED
    BY <1>1, <1>3, <1>4 DEF all, n, m

LEMMA NumbersStep ==
    ASSUME IInv, Next
    PROVE  NumbersAreConsecutive'
<1>1. NumbersAreConsecutive /\ spoken \in [Calls -> Seq(Rows)] /\ counter \in [Calls -> Nat]
    BY DEF IInv, VoiceTypeOK
<1> SUFFICES ASSUME NEW q \in Calls
             PROVE  /\ counter'[q] = 0 => spoken'[q] = <<>>
                    /\ \A i \in DOMAIN spoken'[q] :
                          spoken'[q][i].number = counter'[q] - Len(spoken'[q]) + i - 1
    BY DEF NumbersAreConsecutive
<1>2. /\ counter[q] = 0 => spoken[q] = <<>>
      /\ \A i \in DOMAIN spoken[q] :
            spoken[q][i].number = counter[q] - Len(spoken[q]) + i - 1
      /\ spoken[q] \in Seq(Rows) /\ counter[q] \in Nat
    BY <1>1 DEF NumbersAreConsecutive
<1>3. CASE spoken'[q] = spoken[q] /\ counter'[q] = counter[q]
    BY <1>2, <1>3
<1>4. CASE Recorders(q)
    <2>1. PICK rows \in Seq(Rows) : Grown(q, rows)
        BY <1>4, StepRecords
    <2> DEFINE s == spoken[q]
               all == s \o rows
               n == Len(s)
               m == Len(rows)
               c == counter[q]
               d == counter'[q]
    <2>2. spoken'[q] = all /\ d \in Nat
        BY <2>1 DEF Grown
    <2>3. /\ all \in Seq(Rows) /\ Len(all) = n + m /\ n \in Nat /\ m \in Nat
          /\ \A i \in 1..n : all[i] = s[i]
          /\ \A i \in 1..m : all[n + i] = rows[i]
        BY <1>2, Lengthened
    <2>4. CASE rows = <<>> /\ d = c
        <3>1. spoken'[q] = s
            BY <1>2, <2>2, <2>4, ConcatEmptySeq
        <3> QED
            BY <1>2, <2>4, <3>1
    <2>5. CASE /\ c > 0 => d = c + m
               /\ \A i \in 1..m : rows[i].number = d - m + i - 1
               /\ d > 0
        <3>1. c = 0 => n = 0
            BY <1>2, EmptySeq
        <3>2. DOMAIN all = 1..n + m /\ DOMAIN s = 1..n
            BY <1>2, <2>3, LenProperties
        <3>3. /\ \A i \in 1..n : s[i].number = c - n + i - 1
              /\ c \in Nat
            BY <1>2, <3>2
        <3> HIDE DEF s, all, n, m, c, d
        <3>4. ASSUME NEW i \in 1..n + m
              PROVE  all[i].number = d - (n + m) + i - 1
            <4>1. CASE i <= n
                <5>1. i \in 1..n /\ c > 0
                    BY <2>3, <3>1, <3>3, <4>1
                <5>2. all[i].number = c - n + i - 1 /\ d = c + m
                    BY <2>3, <2>5, <3>3, <5>1
                <5> QED
                    BY <2>3, <3>3, <5>2
            <4>2. CASE ~(i <= n)
                <5>1. i - n \in 1..m /\ n + (i - n) = i
                    BY <2>3, <4>2
                <5>2. all[i].number = d - m + (i - n) - 1
                    BY <2>3, <2>5, <5>1
                <5> QED
                    BY <2>2, <2>3, <5>2
            <4> QED
                BY <4>1, <4>2
        <3>5. d # 0
            BY <2>2, <2>5
        <3> QED
            BY <2>2, <2>3, <3>2, <3>4, <3>5 DEF d
    <2> QED
        BY <2>1, <2>4, <2>5 DEF Grown
<1> QED
    BY <1>3, <1>4, SpokenStep

LEMMA PrefixStep ==
    ASSUME IInv, Next
    PROVE  StoredLinesAreAPrefix'
<1>1. /\ \A q \in Calls : IsPrefix(transcript[q], spoken[q])
      /\ spoken \in [Calls -> Seq(Rows)] /\ transcript \in [Writers -> Seq(Rows)]
    BY DEF IInv, VoiceTypeOK, StoredLinesAreAPrefix
<1> SUFFICES ASSUME NEW q \in Calls
             PROVE  IsPrefix(transcript'[q], spoken'[q])
    BY DEF StoredLinesAreAPrefix, IsPrefix
<1>2. CASE Quiet(q)
    BY <1>1, <1>2 DEF Quiet
<1>3. CASE Recorders(q)
    <2>1. PICK rows \in Seq(Rows) : Grown(q, rows)
        BY <1>3, StepRecords
    <2>2. transcript' = transcript /\ spoken'[q] = spoken[q] \o rows
        BY <1>3, <2>1, StepRecords DEF Grown
    <2>3. transcript[q] \in Seq(Rows) /\ spoken[q] \in Seq(Rows)
        BY <1>1 DEF Writers
    <2>4. /\ Len(transcript[q]) <= Len(spoken[q])
          /\ \A i \in 1..Len(transcript[q]) : transcript[q][i] = spoken[q][i]
        BY <1>1, <2>3, PrefixPointwise
    <2>5. /\ spoken[q] \o rows \in Seq(Rows)
          /\ Len(spoken[q] \o rows) = Len(spoken[q]) + Len(rows)
          /\ Len(spoken[q]) \in Nat /\ Len(rows) \in Nat /\ Len(transcript[q]) \in Nat
          /\ \A i \in 1..Len(spoken[q]) : (spoken[q] \o rows)[i] = spoken[q][i]
        BY <2>3, Lengthened, LenProperties
    <2>6. IsPrefix(transcript[q], spoken[q] \o rows)
        <3>1. Len(transcript[q]) <= Len(spoken[q] \o rows)
            BY <2>4, <2>5
        <3>2. \A i \in 1..Len(transcript[q]) : transcript[q][i] = (spoken[q] \o rows)[i]
            BY <2>4, <2>5
        <3> QED
            BY <2>3, <2>5, <3>1, <3>2, PrefixPointwise
    <2> QED
        BY <2>2, <2>6
<1>4. CASE EndCall(q)
    BY <1>4, EndCallSettles DEF EndCall, Settled
<1>5. CASE EndHandler(q)
    BY <1>5, EndHandlerSettles DEF EndHandler, Settled
<1>6. CASE \/ Connect(q) \/ RefuseCall(q) \/ Offer(q) \/ HandleTrack(q) \/ Leave(q)
           \/ \E speech \in BOOLEAN : Hear(q, speech)
    BY <1>1, <1>6 DEF Connect, RefuseCall, Offer, HandleTrack, Leave, Hear
<1>7. CASE \/ GiveUp(q) \/ Speak(q) \/ Farewell(q) \/ BeginPersist(q)
           \/ BeginHandlerPersist(q) \/ RetryPersist(q) \/ ForwardOutput(q)
    BY <1>1, <1>7 DEF GiveUp, Speak, Farewell, BeginPersist, BeginHandlerPersist,
                      RetryPersist,
                      ForwardOutput
<1> QED
    BY <1>2, <1>3, <1>4, <1>5, <1>6, <1>7, EachActsOrIsQuiet DEF Acts

-----------------------------------------------------------------------------
(* What is buffered follows what is stored *)

LEMMA NothingEnds ==
    ASSUME NEW T, NEW all \in Seq(T)
    PROVE  EndAt(<<>>, all, Len(all))
<1>1. <<>> \in Seq(T) /\ Len(<<>>) = 0 /\ Len(all) \in Nat
    BY EmptySeq, LenProperties
<1>2. Len(<<>>) <= Len(all) /\ Len(all) <= Len(all)
    BY <1>1
<1>3. \A i \in 1..Len(<<>>) : <<>>[i] = all[Len(all) - Len(<<>>) + i]
    <2> DEFINE none == Len(<<>>)
    <2>1. none = 0
        BY <1>1
    <2> HIDE DEF none
    <2>2. \A i \in 1..none : FALSE
        BY <2>1
    <2> QED
        BY <2>2 DEF none
<1> QED
    BY <1>1, <1>2, <1>3, EndPointwise

LEMMA EndStays ==
    ASSUME NEW T, NEW rows \in Seq(T), NEW all \in Seq(T), NEW more \in Seq(T),
           NEW b \in Nat, EndAt(rows, all, b)
    PROVE  EndAt(rows, all \o more, b)
<1> DEFINE r == Len(rows)
           n == Len(all)
           m == Len(more)
           long == all \o more
<1>1. /\ long \in Seq(T) /\ Len(long) = n + m /\ n \in Nat /\ m \in Nat /\ r \in Nat
      /\ \A i \in 1..n : long[i] = all[i]
    BY Lengthened, LenProperties
<1>2. r <= b /\ b <= n /\ \A i \in 1..r : rows[i] = all[b - r + i]
    BY EndPointwise
<1>3. Len(long) = n + m
    BY <1>1
<1> HIDE DEF r, n, m, long
<1>4. r <= b /\ b <= Len(long)
    BY <1>1, <1>2, <1>3
<1>5. ASSUME NEW i \in 1..r PROVE rows[i] = long[b - r + i]
    <2>1. b - r + i \in 1..n
        BY <1>1, <1>2
    <2> QED
        BY <1>1, <1>2, <2>1
<1> QED
    <2>1. EndAt(rows, long, b)
        BY <1>1, <1>4, <1>5, EndPointwise DEF r
    <2> QED
        BY <2>1 DEF long

LEMMA EndGrows ==
    ASSUME NEW T, NEW rows \in Seq(T), NEW all \in Seq(T), NEW more \in Seq(T),
           EndAt(rows, all, Len(all))
    PROVE  EndAt(rows \o more, all \o more, Len(all \o more))
<1> DEFINE r == Len(rows)
           n == Len(all)
           m == Len(more)
           long == all \o more
           late == rows \o more
<1>1. /\ long \in Seq(T) /\ Len(long) = n + m /\ n \in Nat /\ m \in Nat /\ r \in Nat
      /\ \A i \in 1..n : long[i] = all[i]
      /\ \A i \in 1..m : long[n + i] = more[i]
      /\ late \in Seq(T) /\ Len(late) = r + m
      /\ \A i \in 1..r : late[i] = rows[i]
      /\ \A i \in 1..m : late[r + i] = more[i]
    BY Lengthened
<1>2. r <= n /\ \A i \in 1..r : rows[i] = all[n - r + i]
    BY <1>1, EndPointwise
<1> HIDE DEF r, n, m, long, late
<1>3. ASSUME NEW i \in 1..r + m PROVE late[i] = long[(n + m) - (r + m) + i]
    <2>1. (n + m) - (r + m) + i = n - r + i
        BY <1>1
    <2>2. CASE i <= r
        <3>1. i \in 1..r /\ n - r + i \in 1..n
            BY <1>1, <1>2, <2>2
        <3> QED
            BY <1>1, <1>2, <2>1, <3>1
    <2>3. CASE ~(i <= r)
        <3>1. i - r \in 1..m /\ r + (i - r) = i /\ n - r + i = n + (i - r)
            BY <1>1, <1>2, <2>3
        <3>2. late[i] = more[i - r] /\ long[n + (i - r)] = more[i - r]
            BY <1>1, <3>1
        <3> QED
            BY <2>1, <3>1, <3>2
    <2> QED
        BY <2>2, <2>3
<1>4. n + m \in Nat /\ r + m <= n + m
    BY <1>1, <1>2
<1>5. EndAt(late, long, n + m)
    <2>1. Len(late) <= n + m /\ n + m <= Len(long) /\ Len(late) = r + m
        BY <1>1, <1>4
    <2>2. \A i \in 1..Len(late) : late[i] = long[(n + m) - Len(late) + i]
        BY <1>3, <2>1
    <2> QED
        BY <1>1, <1>4, <2>1, <2>2, EndPointwise
<1> QED
    BY <1>1, <1>5 DEF long, late

LEMMA MoreIsStored ==
    ASSUME NEW n \in Nat, NEW k \in Nat, NEW s \in Nat, NEW t \in Nat,
           n - k <= s, t >= s
    PROVE  n - k <= t
OBVIOUS

\* LinesFollow for one call.
Followed(rows, all, stored, state, step) ==
    /\ EndAt(rows, all, Len(all))
    /\ \/ Len(all) - Len(rows) <= Len(stored)
       \/ /\ state = "closed"
          /\ \/ step \in {"none", "thinking", "speaking"}
             \/ step \in {"farewell", "closing", "storing"} /\ rows = <<>>

LEMMA LinesStep ==
    ASSUME IInv, Next
    PROVE  LinesFollow'
<1>1. /\ VoiceTypeOK /\ OwnerIsOpen /\ BufferIsLatest
      /\ \A q \in Calls : Followed(lines[q], spoken[q], transcript[q], socket[q].state,
                                   pipe[q].step)
      /\ spoken \in [Calls -> Seq(Rows)] /\ transcript \in [Writers -> Seq(Rows)]
      /\ lines \in [Calls -> Seq(Rows)] /\ socket \in [Calls -> SocketState]
    BY DEF IInv, VoiceTypeOK, LinesFollow, Followed
<1> DEFINE After(q) == Followed(lines'[q], spoken'[q], transcript'[q], socket'[q].state,
                                pipe'[q].step)
<1> SUFFICES ASSUME NEW q \in Calls PROVE After(q)
    BY DEF LinesFollow, Followed, EndAt
<1>2. /\ spoken[q] \in Seq(Rows) /\ lines[q] \in Seq(Rows) /\ transcript[q] \in Seq(Rows)
      /\ Len(spoken[q]) \in Nat /\ Len(lines[q]) \in Nat /\ Len(transcript[q]) \in Nat
    <2>1. spoken[q] \in Seq(Rows) /\ lines[q] \in Seq(Rows) /\ transcript[q] \in Seq(Rows)
        BY <1>1 DEF Writers
    <2> QED
        BY <2>1, LenProperties
<1>3. Followed(lines[q], spoken[q], transcript[q], socket[q].state, pipe[q].step)
    BY <1>1
<1>4. owner = q => socket[q].state = "open"
    BY <1>1, CallsAssumption DEF OwnerIsOpen
<1>5. ASSUME UNCHANGED <<lines, spoken, transcript>>,
             socket[q].state # "closed" \/ (socket'[q] = socket[q] /\ Undisturbed(q))
      PROVE  After(q)
    BY <1>3, <1>5 DEF Followed, Undisturbed
<1>6. CASE Quiet(q)
    BY <1>3, <1>6 DEF Followed, Quiet, Undisturbed
<1>7. CASE \/ Connect(q) \/ RefuseCall(q) \/ Leave(q) \/ BeginHandlerPersist(q)
           \/ RetryPersist(q)
    <2>1. UNCHANGED <<lines, spoken, transcript>> /\ socket[q].state # "closed"
        BY <1>7 DEF Connect, RefuseCall, Leave, BeginHandlerPersist, RetryPersist
    <2> QED
        BY <1>5, <2>1
<1>8. CASE Offer(q) \/ ForwardOutput(q)
    <2>1. UNCHANGED <<lines, spoken, transcript>> /\ socket[q].state # "closed"
        BY <1>8 DEF Offer, ForwardOutput
    <2> QED
        BY <1>5, <2>1
<1>9. CASE HandleTrack(q) \/ \E speech \in BOOLEAN : Hear(q, speech)
    <2>1. UNCHANGED <<lines, spoken, transcript>> /\ owner = q
        BY <1>9 DEF HandleTrack, Hear
    <2> QED
        BY <1>4, <1>5, <2>1
<1>10. CASE Recorders(q)
    <2>1. PICK rows \in Seq(Rows) : Grown(q, rows)
        BY <1>10, StepRecords
    <2>2. /\ lines'[q] = lines[q] \o rows /\ spoken'[q] = spoken[q] \o rows
          /\ transcript'[q] = transcript[q] /\ socket'[q] = socket[q]
        BY <1>10, <2>1, StepRecords DEF Grown
    <2>3. EndAt(lines'[q], spoken'[q], Len(spoken'[q]))
        BY <1>2, <1>3, <2>2, EndGrows DEF Followed
    <2>4. Len(spoken'[q]) - Len(lines'[q]) = Len(spoken[q]) - Len(lines[q])
        <3>1. /\ Len(spoken'[q]) = Len(spoken[q]) + Len(rows)
              /\ Len(lines'[q]) = Len(lines[q]) + Len(rows) /\ Len(rows) \in Nat
            BY <1>2, <2>2, Lengthened, LenProperties
        <3> QED
            BY <1>2, <3>1
    <2>5. CASE Len(spoken[q]) - Len(lines[q]) <= Len(transcript[q])
        BY <2>2, <2>3, <2>4, <2>5 DEF Followed
    <2>6. CASE ~(Len(spoken[q]) - Len(lines[q]) <= Len(transcript[q]))
        <3>1. socket[q].state = "closed" /\ pipe[q].step # "recording"
            BY <1>3, <2>6 DEF Followed
        <3>2. pipe' = [pipe EXCEPT ![q].step = "speaking"]
            BY <1>10, <3>1, StepRecords
        <3>3. pipe'[q].step = "speaking"
            BY <1>1, <3>2, StepPipes
        <3> QED
            BY <2>2, <2>3, <3>1, <3>3 DEF Followed
    <2> QED
        BY <2>5, <2>6
<1>11. ASSUME pipe'[q].step = "none" \/ (pipe'[q].step = "listening" /\ owner = q),
              UNCHANGED <<spoken, socket>>, lines'[q] = lines[q],
              Len(transcript'[q]) >= Len(transcript[q]), Len(transcript'[q]) \in Nat
       PROVE  After(q)
    <2>1. CASE socket[q].state = "closed"
        <3>1. pipe'[q].step = "none"
            BY <1>4, <1>11, <2>1
        <3> QED
            BY <1>3, <1>11, <2>1, <3>1 DEF Followed
    <2>2. CASE socket[q].state # "closed"
        <3>1. /\ EndAt(lines[q], spoken[q], Len(spoken[q]))
              /\ Len(spoken[q]) - Len(lines[q]) <= Len(transcript[q])
            BY <1>3, <2>2 DEF Followed
        <3>2. Len(spoken[q]) - Len(lines[q]) <= Len(transcript'[q])
            BY <1>2, <1>11, <3>1, MoreIsStored
        <3> QED
            BY <1>11, <3>1, <3>2 DEF Followed
    <2> QED
        BY <2>1, <2>2
<1>12. CASE GiveUp(q)
    <2>1. UNCHANGED <<spoken, socket, lines, transcript>>
        BY <1>12 DEF GiveUp
    <2>2. pipe'[q].step = "none" \/ (pipe'[q].step = "listening" /\ owner = q)
        BY <1>1, <1>12, EndUtterancePipes DEF GiveUp
    <2> QED
        BY <1>2, <1>11, <2>1, <2>2
<1>13. CASE Speak(q)
    <2>1. UNCHANGED <<spoken, socket, lines, transcript>>
        BY <1>13 DEF Speak
    <2>2. pipe'[q].step = "none" \/ (pipe'[q].step = "listening" /\ owner = q)
        BY <1>1, <1>13, SpeakPipes
    <2> QED
        BY <1>2, <1>11, <2>1, <2>2
<1>14. CASE Farewell(q) \/ BeginPersist(q)
    <2>1. /\ UNCHANGED <<spoken, socket, lines, transcript>>
          /\ pipe[q].step \in {"farewell", "closing"}
        BY <1>14 DEF Farewell, BeginPersist
    <2>2. pipe'[q].step \in {"closing", "storing"}
        BY <1>1, <1>14, FarewellPipes, BeginPersistPipes
    <2> QED
        BY <1>3, <2>1, <2>2 DEF Followed
<1>15. CASE EndCall(q)
    <2>1. Settled(q, pipe[q].added, Len(spoken[q]))
        BY <1>15, EndCallSettles
    <2>2. UNCHANGED <<spoken, socket>>
        BY <1>15 DEF EndCall
    <2>3. pipe'[q].step = "none" \/ (pipe'[q].step = "listening" /\ owner = q)
        BY <1>1, <1>15, EndUtterancePipes DEF EndCall
    <2>4. transcript'[q] \in Seq(Rows) /\ Len(transcript'[q]) \in Nat
          /\ Len(transcript'[q]) >= Len(transcript[q])
        <3>1. transcript'[q] \in Seq(Rows)
            BY <2>1 DEF Settled, Writers
        <3> QED
            BY <2>1, <3>1, LenProperties DEF Settled
    <2>5. CASE lines'[q] = lines[q]
        BY <1>11, <2>2, <2>3, <2>4, <2>5
    <2>6. CASE lines'[q] = <<>> /\ Len(transcript'[q]) >= Len(spoken[q])
        <3>1. EndAt(<<>>, spoken[q], Len(spoken[q])) /\ Len(<<>>) = 0
            BY <1>2, NothingEnds, EmptySeq
        <3>2. Len(spoken[q]) - Len(lines'[q]) <= Len(transcript'[q])
            BY <1>2, <2>4, <2>6, <3>1
        <3> QED
            BY <2>2, <2>6, <3>1, <3>2 DEF Followed
    <2> QED
        BY <2>1, <2>5, <2>6 DEF Settled
<1>16. CASE EndHandler(q)
    <2>1. PICK b \in 0..Len(spoken[q]) :
              /\ Settled(q, socket[q].added, b)
              /\ pipe[q].step \in {"listening", "recording"} => b = Len(spoken[q])
        BY <1>16, EndHandlerSettles
    <2>2. spoken' = spoken /\ socket[q].state = "storing" /\ socket'[q].state = "closed"
        BY <1>1, <1>16 DEF EndHandler, NoSocket
    <2>3. Undisturbed(q) /\ pipe' \in [Calls -> PipeState]
        BY <1>1, <1>16, ClosingPipes DEF EndHandler
    <2>4. Len(transcript'[q]) \in Nat /\ Len(transcript'[q]) >= Len(transcript[q])
        <3>1. transcript'[q] \in Seq(Rows)
            BY <2>1 DEF Settled, Writers
        <3> QED
            BY <2>1, <3>1, LenProperties DEF Settled
    <2>5. /\ EndAt(lines[q], spoken[q], Len(spoken[q]))
          /\ Len(spoken[q]) - Len(lines[q]) <= Len(transcript[q])
        BY <1>3, <2>2 DEF Followed
    <2>6. CASE lines'[q] = lines[q]
        <3>1. Len(spoken[q]) - Len(lines[q]) <= Len(transcript'[q])
            BY <1>2, <2>4, <2>5, MoreIsStored
        <3> QED
            BY <2>2, <2>5, <2>6, <3>1 DEF Followed
    <2>7. CASE lines'[q] = <<>> /\ Len(transcript'[q]) >= b
        <3>1. EndAt(<<>>, spoken[q], Len(spoken[q])) /\ Len(<<>>) = 0
            BY <1>2, NothingEnds, EmptySeq
        <3>2. CASE pipe[q].step \in {"listening", "recording"}
            <4>1. Len(spoken[q]) - Len(lines'[q]) <= Len(transcript'[q])
                BY <1>2, <2>1, <2>4, <2>7, <3>1, <3>2
            <4> QED
                BY <2>2, <2>7, <3>1, <4>1 DEF Followed
        <3>3. CASE pipe[q].step \notin {"listening", "recording"}
            <4>1. pipe'[q].step \in {"none", "thinking", "speaking", "farewell",
                                     "closing", "storing"}
                <5>1. pipe[q].step \in {"none", "listening", "recording", "thinking",
                                        "speaking", "farewell", "closing", "storing"}
                    BY <1>1 DEF VoiceTypeOK, PipeState
                <5> QED
                    BY <2>3, <3>3, <5>1 DEF Undisturbed
            <4> QED
                BY <2>2, <2>7, <3>1, <4>1 DEF Followed
        <3> QED
            BY <3>2, <3>3
    <2> QED
        BY <2>1, <2>6, <2>7 DEF Settled
<1> QED
    BY <1>6, <1>7, <1>8, <1>9, <1>10, <1>12, <1>13, <1>14, <1>15, <1>16,
       EachActsOrIsQuiet DEF Acts

\* Every step keeps what is stored of a call, or stores more.
LEMMA StoredGrows ==
    ASSUME IInv, Next, NEW q \in Calls
    PROVE  /\ transcript'[q] \in Seq(Rows) /\ Len(transcript'[q]) \in Nat
           /\ Len(transcript'[q]) >= Len(transcript[q])
<1>1. transcript[q] \in Seq(Rows) /\ transcript'[q] \in Seq(Rows)
    BY RowsStep DEF IInv, VoiceTypeOK, Writers
<1>2. Len(transcript[q]) \in Nat /\ Len(transcript'[q]) \in Nat
    BY <1>1, LenProperties
<1> SUFFICES Len(transcript'[q]) >= Len(transcript[q])
    BY <1>1, <1>2
<1>3. ASSUME transcript'[q] = transcript[q]
      PROVE  Len(transcript'[q]) >= Len(transcript[q])
    BY <1>2, <1>3
<1>4. CASE Quiet(q)
    BY <1>3, <1>4 DEF Quiet
<1>5. CASE Recorders(q)
    BY <1>3, <1>5, StepRecords
<1>6. CASE EndCall(q)
    BY <1>6, EndCallSettles DEF Settled
<1>7. CASE EndHandler(q)
    BY <1>7, EndHandlerSettles DEF Settled
<1>8. CASE \/ Connect(q) \/ RefuseCall(q) \/ Offer(q) \/ HandleTrack(q) \/ Leave(q)
           \/ \E speech \in BOOLEAN : Hear(q, speech)
    BY <1>3, <1>8 DEF Connect, RefuseCall, Offer, HandleTrack, Leave, Hear
<1>9. CASE \/ GiveUp(q) \/ Speak(q) \/ Farewell(q) \/ BeginPersist(q)
           \/ BeginHandlerPersist(q) \/ RetryPersist(q) \/ ForwardOutput(q)
    BY <1>3, <1>9 DEF GiveUp, Speak, Farewell, BeginPersist, BeginHandlerPersist,
                      RetryPersist,
                      ForwardOutput
<1> QED
    BY <1>4, <1>5, <1>6, <1>7, <1>8, <1>9, EachActsOrIsQuiet DEF Acts

\* How a pipeline can be storing after a step.
LEMMA StillStoring ==
    ASSUME IInv, Next, NEW q \in Calls, pipe'[q].step = "storing"
    PROVE  \/ BeginPersist(q)
           \/ Undisturbed(q) /\ pipe[q].step = "storing" /\ spoken'[q] = spoken[q]
<1>1. VoiceTypeOK /\ BufferIsLatest
    BY DEF IInv
<1>2. CASE Quiet(q)
    BY <1>2 DEF Quiet, Undisturbed
<1>3. CASE \/ Connect(q) \/ RefuseCall(q) \/ Offer(q)
           \/ BeginHandlerPersist(q) \/ RetryPersist(q)
           \/ ForwardOutput(q)
    <2>1. UNCHANGED <<pipe, spoken>>
        BY <1>3 DEF Connect, RefuseCall, Offer, BeginHandlerPersist, RetryPersist,
                    ForwardOutput
    <2> QED
        BY <2>1 DEF Undisturbed
<1>4. CASE Leave(q)
    BY <1>1, <1>4, LeavePipes DEF Leave, Undisturbed
<1>5. CASE EndHandler(q)
    <2>1. Undisturbed(q) /\ spoken' = spoken
        BY <1>1, <1>5, ClosingPipes DEF EndHandler
    <2> QED
        BY <2>1 DEF Undisturbed
<1>6. CASE GiveUp(q) \/ EndCall(q)
    BY <1>1, <1>6, EndUtterancePipes DEF GiveUp, EndCall
<1>7. CASE Speak(q)
    BY <1>1, <1>7, SpeakPipes
<1>8. CASE Farewell(q)
    BY <1>1, <1>8, FarewellPipes
<1>9. CASE HandleTrack(q)
    BY <1>1, <1>9, HandleTrackPipes
<1>10. CASE \E speech \in BOOLEAN : Hear(q, speech)
    BY <1>1, <1>10, HearPipes
<1>11. CASE Recorders(q)
    <2>1. \E next \in {"thinking", "speaking", "farewell"} :
              pipe' = [pipe EXCEPT ![q].step = next]
        BY <1>11, StepRecords
    <2>2. pipe'[q].step \in {"thinking", "speaking", "farewell"}
        BY <1>1, <2>1, StepPipes
    <2> QED
        BY <2>2
<1> QED
    BY <1>2, <1>3, <1>4, <1>5, <1>6, <1>7, <1>8, <1>9, <1>10, <1>11,
       EachActsOrIsQuiet DEF Acts

LEMMA AddedStep ==
    ASSUME IInv, Next
    PROVE  AddedFollow'
<1>1. VoiceTypeOK /\ LinesFollow /\ AddedFollow
    BY DEF IInv
<1> SUFFICES ASSUME NEW q \in Calls, pipe'[q].step = "storing", pipe'[q].added # <<>>
             PROVE  /\ EndAt(pipe'[q].added, spoken'[q], Len(spoken'[q]))
                    /\ Len(spoken'[q]) - Len(pipe'[q].added) <= Len(transcript'[q])
    BY DEF AddedFollow, EndAt
<1>2. /\ spoken[q] \in Seq(Rows) /\ lines[q] \in Seq(Rows) /\ pipe[q].added \in Seq(Rows)
      /\ transcript[q] \in Seq(Rows)
    BY <1>1 DEF VoiceTypeOK, PipeState, Writers
<1>3. /\ Len(spoken[q]) \in Nat /\ Len(lines[q]) \in Nat /\ Len(pipe[q].added) \in Nat
      /\ Len(transcript[q]) \in Nat
    BY <1>2, LenProperties
<1>4. Len(transcript'[q]) \in Nat /\ Len(transcript'[q]) >= Len(transcript[q])
    BY StoredGrows
<1>5. CASE BeginPersist(q)
    <2>1. pipe'[q].added = lines[q] /\ spoken' = spoken /\ pipe[q].step = "closing"
        BY <1>1, <1>5, BeginPersistPipes DEF BeginPersist
    <2>2. /\ EndAt(lines[q], spoken[q], Len(spoken[q]))
          /\ Len(spoken[q]) - Len(lines[q]) <= Len(transcript[q])
        BY <1>1, <2>1 DEF LinesFollow
    <2>3. Len(spoken[q]) - Len(lines[q]) <= Len(transcript'[q])
        BY <1>3, <1>4, <2>2, MoreIsStored
    <2> QED
        BY <2>1, <2>2, <2>3
<1>6. CASE Undisturbed(q) /\ pipe[q].step = "storing" /\ spoken'[q] = spoken[q]
    <2>1. pipe'[q].added = pipe[q].added
        BY <1>6 DEF Undisturbed
    <2>2. /\ EndAt(pipe[q].added, spoken[q], Len(spoken[q]))
          /\ Len(spoken[q]) - Len(pipe[q].added) <= Len(transcript[q])
        BY <1>1, <1>6, <2>1 DEF AddedFollow
    <2>3. Len(spoken[q]) - Len(pipe[q].added) <= Len(transcript'[q])
        BY <1>3, <1>4, <2>2, MoreIsStored
    <2> QED
        BY <1>6, <2>1, <2>2, <2>3
<1> QED
    BY <1>5, <1>6, StillStoring

\* How a handler can be storing after a step, and who listens meanwhile.
LEMMA HandlerStillStoring ==
    ASSUME IInv, Next, NEW q \in Calls, socket'[q].state = "storing"
    PROVE  \/ BeginHandlerPersist(q) \/ RetryPersist(q)
           \/ /\ socket[q].state = "storing" /\ socket'[q] = socket[q]
              /\ \/ pipe'[q].step \notin {"listening", "recording"}
                 \/ pipe'[q].step = pipe[q].step /\ spoken'[q] = spoken[q]
<1>1. VoiceTypeOK /\ OwnerIsOpen /\ socket \in [Calls -> SocketState]
    BY DEF IInv, VoiceTypeOK
<1>2. owner = q => socket[q].state = "open"
    BY <1>1, CallsAssumption DEF OwnerIsOpen
<1>3. CASE Quiet(q)
    BY <1>3 DEF Quiet, Undisturbed
<1>4. CASE Connect(q) \/ RefuseCall(q) \/ Leave(q)
    BY <1>1, <1>4 DEF Connect, RefuseCall, Leave, SocketState
<1>5. CASE EndHandler(q)
    BY <1>1, <1>5 DEF EndHandler, NoSocket
<1>6. CASE \/ Offer(q) \/ HandleTrack(q) \/ (\E speech \in BOOLEAN : Hear(q, speech))
           \/ ForwardOutput(q)
    <2>1. socket' = socket /\ (socket[q].state = "open" \/ owner = q)
        BY <1>6 DEF Offer, HandleTrack, Hear, ForwardOutput
    <2> QED
        BY <1>2, <2>1
<1>7. CASE Recorders(q)
    <2>1. /\ socket' = socket
          /\ \E next \in {"thinking", "speaking", "farewell"} :
                pipe' = [pipe EXCEPT ![q].step = next]
        BY <1>7, StepRecords
    <2>2. pipe'[q].step \in {"thinking", "speaking", "farewell"}
        BY <1>1, <2>1, StepPipes
    <2> QED
        BY <2>1, <2>2
<1>8. CASE GiveUp(q) \/ EndCall(q)
    <2>1. /\ socket' = socket
          /\ pipe'[q].step = "none" \/ (pipe'[q].step = "listening" /\ owner = q)
        BY <1>1, <1>8, EndUtterancePipes DEF GiveUp, EndCall
    <2> QED
        BY <1>2, <2>1
<1>9. CASE Speak(q)
    <2>1. /\ socket' = socket
          /\ pipe'[q].step = "none" \/ (pipe'[q].step = "listening" /\ owner = q)
        BY <1>1, <1>9, SpeakPipes DEF Speak
    <2> QED
        BY <1>2, <2>1
<1>10. CASE Farewell(q)
    BY <1>1, <1>10, FarewellPipes DEF Farewell
<1>11. CASE BeginPersist(q)
    BY <1>1, <1>11, BeginPersistPipes DEF BeginPersist
<1> QED
    BY <1>3, <1>4, <1>5, <1>6, <1>7, <1>8, <1>9, <1>10, <1>11,
       EachActsOrIsQuiet DEF Acts

LEMMA HandlerFollowsStep ==
    ASSUME IInv, Next
    PROVE  HandlerFollows'
<1>1. /\ VoiceTypeOK /\ LinesFollow /\ HandlerFollows
      /\ spoken \in [Calls -> Seq(Rows)] /\ socket \in [Calls -> SocketState]
    BY DEF IInv, VoiceTypeOK
<1> SUFFICES ASSUME NEW q \in Calls, socket'[q].state = "storing"
             PROVE  \E b \in 0..Len(spoken'[q]) :
                        /\ EndAt(socket'[q].added, spoken'[q], b)
                        /\ b - Len(socket'[q].added) <= Len(transcript'[q])
                        /\ pipe'[q].step \in {"listening", "recording"} =>
                              b = Len(spoken'[q])
    BY DEF HandlerFollows, EndAt
<1>2. /\ spoken[q] \in Seq(Rows) /\ lines[q] \in Seq(Rows)
      /\ transcript[q] \in Seq(Rows) /\ socket[q].added \in Seq(Rows)
    BY <1>1 DEF VoiceTypeOK, Writers, SocketState
<1>3. /\ Len(spoken[q]) \in Nat /\ Len(lines[q]) \in Nat /\ Len(socket[q].added) \in Nat
      /\ Len(transcript[q]) \in Nat
    BY <1>2, LenProperties
<1>4. Len(transcript'[q]) \in Nat /\ Len(transcript'[q]) >= Len(transcript[q])
    BY StoredGrows
<1>5. CASE BeginHandlerPersist(q) \/ RetryPersist(q)
    <2>1. socket[q].state # "closed" /\ spoken' = spoken
        BY <1>5 DEF BeginHandlerPersist, RetryPersist
    <2>2. socket'[q].added = lines[q]
        BY <1>1, <1>5 DEF BeginHandlerPersist, RetryPersist, SocketState
    <2>3. /\ EndAt(lines[q], spoken[q], Len(spoken[q]))
          /\ Len(spoken[q]) - Len(lines[q]) <= Len(transcript[q])
        BY <1>1, <2>1 DEF LinesFollow
    <2>4. Len(spoken[q]) - Len(lines[q]) <= Len(transcript'[q])
        BY <1>3, <1>4, <2>3, MoreIsStored
    <2>5. Len(spoken[q]) \in 0..Len(spoken[q])
        BY <1>3
    <2> QED
        BY <2>1, <2>2, <2>3, <2>4, <2>5
<1>6. CASE /\ socket[q].state = "storing" /\ socket'[q] = socket[q]
           /\ \/ pipe'[q].step \notin {"listening", "recording"}
              \/ pipe'[q].step = pipe[q].step /\ spoken'[q] = spoken[q]
    <2>1. PICK b \in 0..Len(spoken[q]) :
              /\ EndAt(socket[q].added, spoken[q], b)
              /\ b - Len(socket[q].added) <= Len(transcript[q])
              /\ pipe[q].step \in {"listening", "recording"} => b = Len(spoken[q])
        BY <1>1, <1>6 DEF HandlerFollows
    <2>2. b \in Nat /\ b <= Len(spoken[q])
        BY <1>3
    <2>3. b - Len(socket[q].added) <= Len(transcript'[q])
        BY <1>3, <1>4, <2>1, <2>2, MoreIsStored
    <2>4. CASE spoken'[q] = spoken[q]
        BY <1>6, <2>1, <2>3, <2>4
    <2>5. CASE spoken'[q] # spoken[q]
        <3>1. Recorders(q)
            BY <2>5, SpokenStep
        <3>2. PICK rows \in Seq(Rows) : Grown(q, rows)
            BY <3>1, StepRecords
        <3>3. spoken'[q] = spoken[q] \o rows
            BY <3>2 DEF Grown
        <3>4. EndAt(socket[q].added, spoken'[q], b)
            BY <1>2, <2>1, <2>2, <3>3, EndStays
        <3>5. b \in 0..Len(spoken'[q])
            <4>1. /\ Len(spoken'[q]) = Len(spoken[q]) + Len(rows) /\ Len(rows) \in Nat
                BY <1>2, <3>3, Lengthened, LenProperties
            <4> QED
                BY <1>3, <2>2, <4>1
        <3> QED
            BY <1>6, <2>3, <2>5, <3>4, <3>5
    <2> QED
        BY <2>4, <2>5
<1> QED
    BY <1>5, <1>6, HandlerStillStoring

-----------------------------------------------------------------------------
(* The invariant, and what follows from it *)

LEMMA InitialInvariant ==
    ASSUME Init
    PROVE  IInv
<1>1. /\ <<>> \in Seq(Rows) /\ <<>> \in Seq(Nat) /\ <<>> \in Seq({"audio", "end"})
      /\ Len(<<>>) = 0
    BY EmptySeq
<1>2. NoPipe \in PipeState /\ NoSocket \in SocketState
    BY <1>1 DEF NoPipe, PipeState, NoSocket, SocketState
<1>3. VoiceTypeOK
    <2>1. \A p \in Calls : Len(pipe[p].buffer) <= MaxFrames
        BY <1>1, AudioAssumption DEF Init, NoPipe
    <2>2. frames \in [Calls -> Nat] /\ \A p \in Calls : frames[p] <= FrameBound[p]
        BY AudioAssumption DEF Init
    <2> QED
        BY <1>1, <1>2, <2>1, <2>2 DEF Init, VoiceTypeOK
<1>4. OwnerIsOpen /\ StoringIsOfTheBuffer
    BY DEF Init, OwnerIsOpen, NoPipe, StoringIsOfTheBuffer
<1>5. BufferIsLatest
    BY NothingLatest DEF Init, NoPipe, BufferIsLatest
<1>6. EndIsFinal
    BY DEF Init, EndIsFinal, NoPipe
<1>7. NumbersAreConsecutive
    BY DEF Init, NumbersAreConsecutive
<1>8. TableHasMaximum
    <2>1. \A w \in Writers : transcript[w] = <<>>
        BY DEF Init
    <2>2. ASSUME NEW n PROVE n \notin StoredNumbers
        BY <2>1, StoredNumber
    <2> QED
        BY <2>2 DEF TableHasMaximum
<1>9. StoredLinesAreAPrefix
    <2>1. \A p \in Calls : transcript[p] = <<>> /\ spoken[p] = <<>>
        BY DEF Init, Writers
    <2>2. ASSUME NEW s \in Seq(Rows) PROVE IsPrefix(s, s)
        BY <2>2, PrefixPointwise, LenProperties
    <2> QED
        BY <1>1, <2>1, <2>2 DEF StoredLinesAreAPrefix
<1>10. LinesFollow
    <2>1. \A p \in Calls : /\ transcript[p] = <<>> /\ spoken[p] = <<>> /\ lines[p] = <<>>
        BY DEF Init, Writers
    <2>2. EndAt(<<>>, <<>>, Len(<<>>))
        BY <1>1, NothingEnds
    <2>3. Len(<<>>) - Len(<<>>) <= Len(<<>>)
        BY <1>1
    <2> QED
        BY <2>1, <2>2, <2>3 DEF LinesFollow
<1>11. AddedFollow /\ HandlerFollows
    BY DEF Init, NoPipe, NoSocket, AddedFollow, HandlerFollows
<1> QED
    BY <1>3, <1>4, <1>5, <1>6, <1>7, <1>8, <1>9, <1>10, <1>11 DEF IInv

LEMMA Stuttering ==
    ASSUME IInv, UNCHANGED vars
    PROVE  IInv'
<1>1. UNCHANGED <<script, transcript, owner, socket, pipe, lines, counter, out, told,
                  frames, heard, spoken, failed>>
    BY DEF vars, audio
<1>2. VoiceTypeOK' /\ OwnerIsOpen'
    BY <1>1 DEF IInv, VoiceTypeOK, OwnerIsOpen
<1>3. BufferIsLatest' /\ EndIsFinal' /\ StoringIsOfTheBuffer'
    BY <1>1 DEF IInv, BufferIsLatest, Latest, EndIsFinal, StoringIsOfTheBuffer
<1>4. NumbersAreConsecutive'
    BY <1>1 DEF IInv, NumbersAreConsecutive
<1>5. TableHasMaximum'
    BY <1>1 DEF IInv, TableHasMaximum, StoredNumbers
<1>6. StoredLinesAreAPrefix'
    BY <1>1 DEF IInv, StoredLinesAreAPrefix, IsPrefix
<1>7. LinesFollow' /\ AddedFollow'
    BY <1>1 DEF IInv, LinesFollow, AddedFollow, EndAt
<1>8. HandlerFollows'
    BY <1>1 DEF IInv, HandlerFollows, EndAt
<1> QED
    BY <1>2, <1>3, <1>4, <1>5, <1>6, <1>7, <1>8 DEF IInv

LEMMA InductiveStep ==
    ASSUME IInv, [Next]_vars
    PROVE  IInv'
<1>1. CASE Next
    <2>1. VoiceTypeOK' /\ OwnerIsOpen' /\ BufferIsLatest'
        BY <1>1, TypeStep, OwnerStep, BufferStep
    <2>2. EndIsFinal' /\ StoringIsOfTheBuffer' /\ NumbersAreConsecutive'
        BY <1>1, EndStep, StoringStep, NumbersStep
    <2>3. TableHasMaximum' /\ StoredLinesAreAPrefix'
        BY <1>1, RowsStep, PrefixStep
    <2>4. LinesFollow' /\ AddedFollow' /\ HandlerFollows'
        BY <1>1, LinesStep, AddedStep, HandlerFollowsStep
    <2> QED
        BY <2>1, <2>2, <2>3, <2>4 DEF IInv
<1>2. CASE UNCHANGED vars
    BY <1>2, Stuttering
<1> QED
    BY <1>1, <1>2

\* The conjuncts of IInv hold in every state of a session's calls.
THEOREM Invariance == Spec => []IInv
<1>1. Init => IInv
    BY InitialInvariant
<1>2. IInv /\ [Next]_vars => IInv'
    BY InductiveStep
<1> QED
    BY <1>1, <1>2, PTL DEF Spec

\* Calls, pipelines and rows keep their shape, and an audio buffer its limit,
\* however many frames arrive (audio_buffer.append).
THEOREM TypeCorrect == Spec => []VoiceTypeOK
<1>1. IInv => VoiceTypeOK
    BY DEF IInv
<1> QED
    BY <1>1, Invariance, PTL

\* What a listening pipeline will transcribe is the latest speech since its
\* last utterance (voice_pipeline.process_audio_frame).
THEOREM LatestAudio == Spec => []AudioIsLatestSpeech
<1>1. IInv => AudioIsLatestSpeech
    BY DEF IInv, BufferIsLatest, AudioIsLatestSpeech
<1> QED
    BY <1>1, Invariance, PTL

\* Two commits of one call's lines, by its own farewell and by its handler,
\* store no line twice, out of order or after a lost one
\* (transcript_manager.persist).
THEOREM StoredPrefix == Spec => []StoredLinesAreAPrefix
<1>1. IInv => StoredLinesAreAPrefix
    BY DEF IInv
<1> QED
    BY <1>1, Invariance, PTL

\* Whoever is told that the call has ended finds its lines stored, or its
\* storing was given up (voice_pipeline.end_call).
THEOREM ToldAfterStoring == Spec => []EndIsToldAfterStoring
<1>1. IInv => EndIsToldAfterStoring
    BY DEF IInv, VoiceTypeOK, EndIsFinal, EndIsToldAfterStoring
<1> QED
    BY <1>1, Invariance, PTL

=============================================================================
