------------------------- MODULE SessionReportProofs -------------------------
(***************************************************************************)
(* For any number of generators and readers and any bounds: the inductive  *)
(* invariant of SessionReport, the safety properties that follow from it,  *)
(* and that every step of the report store is a step of ReportLog.         *)
(***************************************************************************)
EXTENDS SessionReport, WellFoundedInduction, TLAPS

(* Latest picks the largest member of a nonempty set of versions.          *)
LEMMA LatestIsLargest ==
    ASSUME NEW S \in SUBSET Versions
    PROVE  /\ Latest(S) \in 0..MaxVersion
           /\ S # {} => Latest(S) \in S /\ \A u \in S : u <= Latest(S)
           /\ S = {} => Latest(S) = 0
<1>1. CASE S = {}
  BY <1>1, BoundsAssumption DEF Latest
<1>2. CASE S # {}
  <2> DEFINE T == {MaxVersion - v : v \in S}
  <2>1. T \subseteq Nat /\ T # {}
    <3>1. \A v \in S : MaxVersion - v \in Nat
      BY BoundsAssumption DEF Versions
    <3>2. PICK v \in S : TRUE
      BY <1>2
    <3>3. MaxVersion - v \in T
      BY <3>2
    <3> QED
      BY <3>1, <3>3
  <2> HIDE DEF T
  <2>2. PICK t \in T : \A m \in T : t <= m
    <3>1. PICK t \in T : \A m \in T : ~ (<<m, t>> \in OpToRel(<, Nat))
      BY <2>1, NatLessThanWellFounded, WFMin
    <3>2. \A m \in T : ~ (m < t)
      BY <2>1, <3>1 DEF OpToRel
    <3> QED
      BY <2>1, <3>2
  <2> USE DEF T
  <2>3. PICK v \in S : t = MaxVersion - v
    BY <2>2
  <2>4. \A u \in S : u <= v
    <3> TAKE u \in S
    <3>1. t <= MaxVersion - u
      BY <2>2
    <3> QED
      BY <3>1, <2>3, BoundsAssumption DEF Versions
  <2>5. Latest(S) \in S /\ \A u \in S : u <= Latest(S)
    BY <1>2, <2>4 DEF Latest
  <2>6. Latest(S) \in 1..MaxVersion
    BY <2>5 DEF Versions
  <2> QED
    BY <1>2, <2>5, <2>6, BoundsAssumption
<1> QED
  BY <1>1, <1>2

(* With rows 1..n present, the next version is n + 1.                      *)
LEMMA NextVersionOfDense ==
    ASSUME NEW n \in 0..MaxVersion, Present = 1..n
    PROVE  NextVersion = n + 1
<1>1. Latest(Present) = n
  <2>1. Present \in SUBSET Versions
    BY DEF Present
  <2>2. CASE n = 0
    BY <2>1, <2>2, LatestIsLargest
  <2>3. CASE n > 0
    <3>1. n \in Present /\ \A u \in Present : u <= n
      BY <2>3
    <3>2. Latest(Present) \in Present /\ \A u \in Present : u <= Latest(Present)
      BY <2>1, <3>1, LatestIsLargest
    <3> QED
      BY <3>1, <3>2
  <2> QED
    BY <2>2, <2>3
<1> QED
  BY <1>1 DEF NextVersion

-----------------------------------------------------------------------------
(* A value of IdleGen is well typed, and so are the initial values.        *)
LEMMA InitialTypes ==
    /\ NoPayload \in Payload
    /\ 0 \in 0..MaxRun /\ 0 \in 0..MaxVersion /\ 0 \in 0..MaxVersion + 1
    /\ IdleGen \in GenState
BY BoundsAssumption DEF NoPayload, Payload, Log!NoPayload, Log!Payload,
                        IdleGen, Statuses, GenState, GenPC

(* Every step, of a generator, a reader or the environment, keeps the      *)
(* types.                                                                  *)
LEMMA TypeStep == TypeOK /\ [Next]_vars => TypeOK'
<1> USE DEF TypeOK, GenState, GenPC, Assembling, ReaderState, Answers,
            Log!Entry, Log!Absent, Log!Pending, Log!Failed, Log!Ready
<1> SUFFICES ASSUME TypeOK, [Next]_vars PROVE TypeOK'
  OBVIOUS
<1>1. ASSUME NEW g \in Generators, Generate(g) PROVE TypeOK'
  <2>1. CASE LoadSession(g)
    BY <2>1, InitialTypes DEF LoadSession, IdleGen, Statuses
  <2>2. CASE RejectNotCompleted(g)
    BY <2>2, InitialTypes DEF RejectNotCompleted
  <2>3. CASE LockSession(g)
    BY <2>3 DEF LockSession
  <2>4. CASE RejectPending(g)
    BY <2>4, InitialTypes DEF RejectPending
  <2>5. CASE AllocateVersion(g)
    <3>1. NextVersion \in 0..MaxVersion + 1
      <4>1. Present \in SUBSET Versions
        BY DEF Present
      <4> QED
        BY <4>1, LatestIsLargest, BoundsAssumption DEF NextVersion
    <3> QED
      BY <2>5, <3>1 DEF AllocateVersion
  <2>6. CASE CommitPending(g)
    BY <2>6, InitialTypes DEF CommitPending, NoPayload, Payload
  <2>7. CASE LoseAllocation(g)
    BY <2>7, InitialTypes DEF LoseAllocation
  <2>8. CASE ReadArtifact(g)
    <3>1. AfterQuery(gen[g].pc) \in GenPC
      BY <2>8 DEF ReadArtifact, AfterQuery, Log!Sections
    <3>2. [gen[g].payload EXCEPT ![gen[g].pc] = artifacts] \in Payload
      BY DEF Payload, Log!Payload
    <3>3. gen' = [gen EXCEPT ![g] = [gen[g] EXCEPT
                    !.pc = AfterQuery(gen[g].pc),
                    !.payload = [gen[g].payload EXCEPT ![gen[g].pc] = artifacts]]]
      BY <2>8 DEF ReadArtifact
    <3>4. gen'[g] \in GenState
      BY <3>1, <3>2, <3>3
    <3> QED
      BY <2>8, <3>3, <3>4 DEF ReadArtifact
  <2>9. CASE CommitReady(g)
    BY <2>9, InitialTypes DEF CommitReady, Payload
  <2>10. CASE CommitFailed(g)
    BY <2>10, InitialTypes DEF CommitFailed, NoPayload, Payload
  <2>11. CASE LoseSettlement(g)
    BY <2>11, InitialTypes DEF LoseSettlement
  <2>12. CASE Crash(g)
    BY <2>12, InitialTypes DEF Crash
  <2> QED
    BY <1>1, <2>1, <2>2, <2>3, <2>4, <2>5, <2>6, <2>7, <2>8, <2>9, <2>10,
       <2>11, <2>12 DEF Generate, Step
<1>2. ASSUME NEW r \in Readers, Read(r) PROVE TypeOK'
  <2>1. CASE QueryReady(r)
    <3>1. CurrentReport \in 0..MaxVersion
      <4>1. WithStatus({"ready"}) \in SUBSET Versions
        BY DEF WithStatus
      <4> QED
        BY <4>1, LatestIsLargest DEF CurrentReport
    <3> QED
      BY <2>1, <3>1 DEF QueryReady
  <2>2. CASE QueryAttempt(r)
    BY <2>2 DEF QueryAttempt
  <2>3. CASE ProbeArtifacts(r)
    <3>1. PICK a \in {"incomplete", "missing"} :
            reader' = [reader EXCEPT ![r] =
                          [reader[r] EXCEPT !.pc = "idle", !.answer = a]]
      BY <2>3 DEF ProbeArtifacts
    <3>2. [reader[r] EXCEPT !.pc = "idle", !.answer = a] \in ReaderState
      OBVIOUS
    <3> HIDE DEF ReaderState
    <3> QED
      BY <2>3, <3>1, <3>2 DEF ProbeArtifacts
  <2> QED
    BY <1>2, <2>1, <2>2, <2>3 DEF Read
<1>3. ASSUME NEW s \in Statuses, WriteStatus(s) PROVE TypeOK'
  BY <1>3 DEF WriteStatus
<1>4. CASE PersistArtifacts
  BY <1>4, BoundsAssumption DEF PersistArtifacts
<1>5. CASE UNCHANGED vars
  BY <1>5 DEF vars
<1> QED
  BY <1>1, <1>2, <1>3, <1>4, <1>5 DEF Next
(* The state variables keep their types: TypeOK holds in every reachable   *)
(* state, however the calls interleave and fail.                           *)
THEOREM TypeCorrect == Spec => []TypeOK
<1>1. Init => TypeOK
  BY InitialTypes DEF Init, TypeOK, Statuses, Payload, NoPayload, Log!Entry,
                      Log!Absent, ReaderState, Answers
<1> QED
  BY <1>1, TypeStep, PTL DEF Spec

-----------------------------------------------------------------------------
(* A step that leaves the rows alone leaves every set of rows alone.       *)
LEMMA SameRows ==
    ASSUME rows' = rows
    PROVE  /\ Present' = Present
           /\ \A S : WithStatus(S)' = WithStatus(S)
           /\ NextVersion' = NextVersion
           /\ Dense' = Dense
           /\ PendingIsLast' = PendingIsLast
           /\ LaterReportsAreFresher' = LaterReportsAreFresher
BY DEF Present, WithStatus, NextVersion, Dense, PendingIsLast,
       LaterReportsAreFresher

(* A step of the readers or of the session status disturbs nothing.        *)
LEMMA OutsideStep ==
    ASSUME IInv, TypeOK', UNCHANGED <<rows, artifacts, lock, gen>>
    PROVE  IInv'
BY SameRows DEF IInv, LockDiscipline, AllocationIsFresh, OwnsMarker,
                OneAssembler, ReadsAreBetween, ReadSections

(* A handler that starts, answers without a row, loses its commit or dies  *)
(* only gives up its lock and its place.                                   *)
LEMMA LeavingStep ==
    ASSUME IInv, TypeOK', NEW g \in Generators,
           UNCHANGED <<rows, artifacts>>,
           gen'[g].pc \in {"idle", "loaded"},
           \A h \in Generators : h # g => gen'[h] = gen[h],
           lock' = IF lock = g THEN NoOne ELSE lock
    PROVE  IInv'
<1>1. LockDiscipline'
  BY NoOneAssumption DEF IInv, LockDiscipline
<1>2. AllocationIsFresh'
  BY SameRows DEF IInv, AllocationIsFresh
<1>3. OwnsMarker'
  BY DEF IInv, OwnsMarker, Assembling
<1>4. OneAssembler'
  BY DEF IInv, OneAssembler, Assembling
<1>5. ReadsAreBetween'
  BY SameRows DEF IInv, ReadsAreBetween, ReadSections
<1> QED
  BY <1>1, <1>2, <1>3, <1>4, <1>5, SameRows DEF IInv

(* Settling a marker: the rows present stay, no marker is left, and the    *)
(* settled row is the only one that changes.                               *)
LEMMA SettlingStep ==
    ASSUME IInv, TypeOK', NEW g \in Generators,
           gen[g].pc \in Assembling,
           NEW e, Log!Settled(e), rows' = [rows EXCEPT ![gen[g].version] = e],
           e.status = "ready" => /\ gen[g].pc = "assembled"
                                 /\ e.payload = gen[g].payload,
           gen' = [gen EXCEPT ![g] = IdleGen],
           UNCHANGED <<artifacts, lock>>
    PROVE  IInv'
<1> DEFINE w == gen[g].version
<1>1. w \in Versions /\ rows[w] = Log!Pending
  BY DEF IInv, OwnsMarker
<1>2. rows'[w] = e /\ \A v \in Versions : v # w => rows'[v] = rows[v]
  BY <1>1 DEF IInv, TypeOK
<1>3. w \in Present /\ Present' = Present
  BY <1>1, <1>2 DEF Present, Log!Pending, Log!Settled
<1>4. \A u \in Present : u <= w
  BY <1>1 DEF IInv, PendingIsLast, WithStatus, Log!Pending
<1>5. WithStatus({"pending"})' = {}
  <2> SUFFICES ASSUME NEW v \in Versions, rows'[v].status = "pending"
               PROVE  FALSE
    BY DEF WithStatus
  <2>1. v # w /\ rows[v].status = "pending"
    BY <1>2 DEF Log!Settled
  <2>2. v \in Present /\ w <= v
    BY <1>3, <2>1 DEF IInv, PendingIsLast, WithStatus, Present
  <2> QED
    BY <1>1, <1>4, <2>1, <2>2 DEF Versions
<1>6. Dense' /\ PendingIsLast'
  BY <1>3, <1>5 DEF IInv, Dense, PendingIsLast
<1>7. \A h \in Generators : gen'[h] = IF h = g THEN IdleGen ELSE gen[h]
  BY DEF IInv, TypeOK
<1>8. LockDiscipline' /\ OneAssembler'
  BY <1>7 DEF IInv, LockDiscipline, OneAssembler, Assembling, IdleGen
<1>9. \A h \in Generators : gen'[h].pc \notin Assembling
  BY <1>7 DEF IInv, OneAssembler, Assembling, IdleGen
<1>10. OwnsMarker'
  BY <1>9 DEF OwnsMarker
<1>11. AllocationIsFresh'
  <2> SUFFICES ASSUME NEW h \in Generators, gen'[h].pc = "allocated"
               PROVE  FALSE
    BY DEF AllocationIsFresh
  <2>1. gen[h].pc = "allocated" /\ WithStatus({"pending"}) = {}
    BY <1>7 DEF IInv, AllocationIsFresh, IdleGen
  <2> QED
    BY <1>1, <2>1 DEF WithStatus, Log!Pending
<1>12. \A v \in WithStatus({"ready"})' :
          v # w => v \in WithStatus({"ready"}) /\ v < w
  <2> SUFFICES ASSUME NEW v \in Versions, rows'[v].status = "ready", v # w
               PROVE  v \in WithStatus({"ready"}) /\ v < w
    BY DEF WithStatus
  <2>1. rows[v].status = "ready"
    BY <1>2
  <2>2. v \in Present /\ v <= w
    BY <1>4, <2>1 DEF Present
  <2> QED
    BY <1>1, <2>1, <2>2 DEF WithStatus, Versions
<1>13. w \in WithStatus({"ready"})' =>
          \A s \in Log!Sections :
             /\ rows'[w].payload[s] <= artifacts
             /\ \A v \in WithStatus({"ready"}) :
                   rows[v].payload[s] <= rows'[w].payload[s]
  BY <1>2 DEF IInv, ReadsAreBetween, ReadSections, WithStatus
<1>14. ReadsAreBetween'
  <2>1. \A h \in Generators : ReadSections(h)' = {}
    BY <1>9 DEF ReadSections, Assembling
  <2>2. ASSUME NEW v \in WithStatus({"ready"})', NEW s \in Log!Sections
        PROVE  rows'[v].payload[s] <= artifacts'
    <3>1. CASE v = w
      BY <1>13, <3>1
    <3>2. CASE v # w
      BY <1>2, <1>12, <3>2 DEF IInv, ReadsAreBetween, WithStatus
    <3> QED
      BY <3>1, <3>2
  <2> QED
    BY <2>1, <2>2 DEF ReadsAreBetween
<1>15. LaterReportsAreFresher'
  <2> SUFFICES ASSUME NEW u \in WithStatus({"ready"})',
                      NEW v \in WithStatus({"ready"})', u < v
               PROVE  Log!NotOlder(rows'[v].payload, rows'[u].payload)
    BY DEF LaterReportsAreFresher, Log!NotOlder
  <2>1. u \in Versions /\ v \in Versions
    BY DEF WithStatus
  <2>2. u # w /\ u \in WithStatus({"ready"}) /\ rows'[u] = rows[u]
    BY <1>1, <1>2, <1>12, <2>1 DEF Versions
  <2>3. CASE v = w
    BY <1>13, <2>2, <2>3 DEF Log!NotOlder
  <2>4. CASE v # w
    BY <1>2, <1>12, <2>1, <2>2, <2>4
       DEF IInv, LaterReportsAreFresher, Log!NotOlder
  <2> QED
    BY <2>3, <2>4
<1> QED
  BY <1>6, <1>8, <1>10, <1>11, <1>14, <1>15 DEF IInv

(* Every step keeps the inductive invariant.                               *)
LEMMA InvariantStep == IInv /\ [Next]_vars => IInv'
<1> SUFFICES ASSUME IInv, [Next]_vars PROVE IInv'
  OBVIOUS
<1>0. TypeOK /\ TypeOK'
  BY TypeStep DEF IInv
<1>1. ASSUME NEW g \in Generators, Generate(g) PROVE IInv'
  <2>0. ASSUME gen' = [gen EXCEPT ![g] = gen'[g]]
        PROVE  \A h \in Generators : h # g => gen'[h] = gen[h]
    BY <1>0, <2>0 DEF TypeOK
  <2>1. CASE LoadSession(g)
    <3>1. gen'[g].pc = "loaded" /\ lock # g
      BY <1>0, <2>1 DEF LoadSession, TypeOK, IdleGen, IInv, LockDiscipline
    <3> QED
      BY <1>0, <2>1, <3>1, LeavingStep DEF LoadSession, TypeOK
  <2>2. CASE \/ RejectNotCompleted(g) \/ RejectPending(g)
             \/ LoseAllocation(g) \/ LoseSettlement(g) \/ Crash(g)
    <3>1. gen' = [gen EXCEPT ![g] = IdleGen] /\ UNCHANGED <<rows, artifacts>>
      BY <2>2 DEF RejectNotCompleted, RejectPending, LoseAllocation,
                  LoseSettlement, Crash
    <3>2. gen'[g].pc = "idle" /\ \A h \in Generators : h # g => gen'[h] = gen[h]
      BY <1>0, <3>1 DEF TypeOK, IdleGen
    <3>3. lock' = IF lock = g THEN NoOne ELSE lock
      BY <2>2 DEF RejectNotCompleted, RejectPending, LoseAllocation,
                  LoseSettlement, Crash, IInv, LockDiscipline, Assembling
    <3> QED
      BY <1>0, <3>1, <3>2, <3>3, LeavingStep
  <2>3. CASE LockSession(g)
    <3>1. /\ gen'[g].pc = "locked" /\ gen[g].pc = "loaded"
          /\ \A h \in Generators : h # g => gen'[h] = gen[h]
      BY <1>0, <2>3 DEF LockSession, TypeOK, GenState
    <3>2. LockDiscipline'
      BY <2>3, <3>1, NoOneAssumption DEF LockSession, IInv, LockDiscipline
    <3>3. AllocationIsFresh' /\ OwnsMarker' /\ OneAssembler' /\ ReadsAreBetween'
      BY <2>3, <3>1, SameRows
         DEF LockSession, IInv, AllocationIsFresh, OwnsMarker, OneAssembler,
             ReadsAreBetween, ReadSections, Assembling
    <3> QED
      BY <1>0, <2>3, <3>2, <3>3, SameRows DEF LockSession, IInv
  <2>4. CASE AllocateVersion(g)
    <3>1. /\ gen'[g].pc = "allocated" /\ gen'[g].version = NextVersion
          /\ gen[g].pc = "locked"
          /\ \A h \in Generators : h # g => gen'[h] = gen[h]
      BY <1>0, <2>4 DEF AllocateVersion, TypeOK, GenState
    <3>2. LockDiscipline'
      BY <2>4, <3>1 DEF AllocateVersion, IInv, LockDiscipline
    <3>3. AllocationIsFresh'
      BY <2>4, <3>1, SameRows DEF AllocateVersion, IInv, AllocationIsFresh
    <3>4. OwnsMarker' /\ OneAssembler'
      BY <2>4, <3>1
         DEF AllocateVersion, IInv, OwnsMarker, OneAssembler, Assembling
    <3>5. ReadsAreBetween'
      <4>1. \A h \in Generators :
               ReadSections(h)' = IF h = g THEN {} ELSE ReadSections(h)
        BY <3>1 DEF ReadSections
      <4> QED
        BY <2>4, <3>1, <4>1, SameRows
           DEF AllocateVersion, IInv, ReadsAreBetween
    <3> QED
      BY <1>0, <2>4, <3>2, <3>3, <3>4, <3>5, SameRows
         DEF AllocateVersion, IInv
  <2>5. CASE CommitPending(g)
    <3> DEFINE w == gen[g].version
    <3>1. /\ gen'[g].pc = "evaluation" /\ gen'[g].version = w
          /\ gen[g].pc = "allocated" /\ lock = g /\ lock' = NoOne
          /\ \A h \in Generators : h # g => gen'[h] = gen[h]
      BY <1>0, <2>5 DEF CommitPending, TypeOK, GenState, IInv, LockDiscipline
    <3>2. /\ w \in Versions /\ w = NextVersion /\ WithStatus({"pending"}) = {}
          /\ rows[w] = Log!Absent
      BY <2>5 DEF CommitPending, IInv, AllocationIsFresh
    <3>3. /\ rows'[w] = Log!Pending
          /\ \A v \in Versions : v # w => rows'[v] = rows[v]
      BY <1>0, <2>5, <3>2 DEF CommitPending, TypeOK
    <3>4. PICK n \in 0..MaxVersion : Present = 1..n
      BY DEF IInv, Dense
    <3>5. w = n + 1
      BY <3>2, <3>4, NextVersionOfDense
    <3>6. Present' = 1..w /\ w \in 0..MaxVersion
      <4>1. Present' = Present \cup {w}
        BY <3>2, <3>3 DEF Present, Log!Pending
      <4> QED
        BY <3>2, <3>4, <3>5, <4>1 DEF Versions
    <3>7. WithStatus({"pending"})' = {w}
      BY <3>2, <3>3 DEF WithStatus, Log!Pending
    <3>8. Dense' /\ PendingIsLast'
      BY <3>6, <3>7, BoundsAssumption DEF Dense, PendingIsLast
    <3>9. \A h \in Generators : gen[h].pc \notin Assembling
      BY <3>2 DEF IInv, OwnsMarker, WithStatus, Log!Pending
    <3>10. LockDiscipline' /\ AllocationIsFresh'
      BY <3>1, NoOneAssumption DEF IInv, LockDiscipline, AllocationIsFresh
    <3>11. OwnsMarker' /\ OneAssembler'
      BY <3>1, <3>2, <3>3, <3>9 DEF OwnsMarker, OneAssembler
    <3>12. /\ WithStatus({"ready"})' = WithStatus({"ready"})
           /\ \A v \in WithStatus({"ready"}) : rows'[v] = rows[v]
      BY <3>2, <3>3 DEF WithStatus, Log!Pending, Log!Absent
    <3>13. ReadsAreBetween' /\ LaterReportsAreFresher'
      <4>1. \A h \in Generators : ReadSections(h)' = {}
        BY <3>1, <3>9 DEF ReadSections, Assembling
      <4> QED
        BY <2>5, <3>12, <4>1
           DEF CommitPending, IInv, ReadsAreBetween, LaterReportsAreFresher
    <3> QED
      BY <1>0, <3>8, <3>10, <3>11, <3>13 DEF IInv
  <2>6. CASE ReadArtifact(g)
    <3> DEFINE s0 == gen[g].pc
    <3>1. /\ s0 \in Log!Sections
          /\ gen'[g].pc = AfterQuery(s0) /\ gen'[g].version = gen[g].version
          /\ gen'[g].payload = [gen[g].payload EXCEPT ![s0] = artifacts]
          /\ \A h \in Generators : h # g => gen'[h] = gen[h]
      BY <1>0, <2>6 DEF ReadArtifact, TypeOK, GenState
    <3>2. /\ gen[g].pc \in Assembling /\ gen'[g].pc \in Assembling
          /\ gen'[g].pc \notin {"locked", "allocated"}
          /\ gen[g].pc \notin {"locked", "allocated"}
      BY <3>1 DEF AfterQuery, Log!Sections, Assembling
    <3>3. /\ LockDiscipline' /\ AllocationIsFresh'
          /\ OwnsMarker' /\ OneAssembler'
      <4>1. LockDiscipline'
        BY <2>6, <3>1, <3>2 DEF ReadArtifact, IInv, LockDiscipline
      <4>2. AllocationIsFresh'
        BY <2>6, <3>1, <3>2, SameRows DEF ReadArtifact, IInv, AllocationIsFresh
      <4>3. OwnsMarker'
        BY <2>6, <3>1, <3>2 DEF ReadArtifact, IInv, OwnsMarker
      <4>4. OneAssembler'
        BY <3>1, <3>2 DEF IInv, OneAssembler
      <4> QED
        BY <4>1, <4>2, <4>3, <4>4
    <3>4. ReadSections(g)' = ReadSections(g) \cup {s0}
      BY <3>1 DEF ReadSections, AfterQuery, Log!Sections
    <3>5. \A s \in Log!Sections :
             gen'[g].payload[s] = IF s = s0 THEN artifacts ELSE gen[g].payload[s]
      BY <1>0, <3>1 DEF TypeOK, GenState, Payload, Log!Payload
    <3>6. ReadSections(g) \subseteq Log!Sections
      BY DEF ReadSections, Log!Sections
    <3>7. artifacts \in Int
      BY <1>0, BoundsAssumption DEF TypeOK
    <3>8. ReadsAreBetween'
      <4>1. \A h \in Generators : h # g => ReadSections(h)' = ReadSections(h)
        BY <3>1 DEF ReadSections
      <4>2. /\ artifacts' = artifacts /\ rows' = rows
            /\ WithStatus({"ready"})' = WithStatus({"ready"})
        BY <2>6, SameRows DEF ReadArtifact
      <4>3. \A s \in ReadSections(g)' :
               /\ gen'[g].payload[s] <= artifacts
               /\ \A v \in WithStatus({"ready"}) :
                     rows[v].payload[s] <= gen'[g].payload[s]
        BY <3>1, <3>4, <3>5, <3>6, <3>7 DEF IInv, ReadsAreBetween
      <4> QED
        BY <3>1, <4>1, <4>2, <4>3 DEF IInv, ReadsAreBetween
    <3> QED
      BY <1>0, <2>6, <3>3, <3>8, SameRows DEF ReadArtifact, IInv
  <2>7. CASE CommitReady(g)
    <3> DEFINE e == Log!Ready(gen[g].payload)
    <3>1. /\ Log!Settled(e) /\ gen[g].pc \in Assembling
          /\ e.payload = gen[g].payload
      BY <2>7 DEF CommitReady, Assembling, Log!Settled, Log!Ready
    <3> QED
      BY <1>0, <2>7, <3>1, SettlingStep DEF CommitReady
  <2>8. CASE CommitFailed(g)
    <3>1. Log!Settled(Log!Failed) /\ Log!Failed.status # "ready"
      BY DEF Log!Settled, Log!Failed
    <3> QED
      BY <1>0, <2>8, <3>1, SettlingStep DEF CommitFailed
  <2> QED
    BY <1>1, <2>1, <2>2, <2>3, <2>4, <2>5, <2>6, <2>7, <2>8 DEF Generate, Step
<1>2. ASSUME NEW r \in Readers, Read(r) PROVE IInv'
  BY <1>0, <1>2, OutsideStep
     DEF Read, QueryReady, QueryAttempt, ProbeArtifacts
<1>3. ASSUME NEW s \in Statuses, WriteStatus(s) PROVE IInv'
  BY <1>0, <1>3, OutsideStep DEF WriteStatus
<1>4. CASE PersistArtifacts
  <2>1. rows' = rows /\ gen' = gen /\ lock' = lock /\ artifacts' = artifacts + 1
    BY <1>4 DEF PersistArtifacts
  <2>2. LockDiscipline' /\ AllocationIsFresh' /\ OwnsMarker' /\ OneAssembler'
    BY <2>1, SameRows
       DEF IInv, LockDiscipline, AllocationIsFresh, OwnsMarker, OneAssembler
  <2>3. ReadsAreBetween'
    <3>1. \A h \in Generators :
             /\ ReadSections(h)' = ReadSections(h)
             /\ ReadSections(h) \subseteq Log!Sections
      BY <2>1 DEF ReadSections, Log!Sections
    <3>2. /\ \A v \in WithStatus({"ready"}) : \A s \in Log!Sections :
                rows[v].payload[s] \in Int
          /\ \A h \in Generators : \A s \in Log!Sections :
                gen[h].payload[s] \in Int
          /\ artifacts \in Int
      BY <1>0, BoundsAssumption
         DEF TypeOK, WithStatus, GenState, Payload, Log!Payload, Log!Entry
    <3> QED
      BY <2>1, <3>1, <3>2, SameRows DEF IInv, ReadsAreBetween
  <2> QED
    BY <1>0, <2>1, <2>2, <2>3, SameRows DEF IInv
<1>5. CASE UNCHANGED vars
  BY <1>0, <1>5, OutsideStep DEF vars
<1> QED
  BY <1>1, <1>2, <1>3, <1>4, <1>5 DEF Next

(* The invariant holds throughout: the session row lock, the marker        *)
(* committed under it and its release before assembly fit together,        *)
(* whatever calls overlap, lose a commit or die.                           *)
THEOREM Invariance == Spec => []IInv
<1>1. Init => IInv
  <2> SUFFICES ASSUME Init PROVE IInv
    OBVIOUS
  <2>1. TypeOK
    BY InitialTypes DEF Init, TypeOK, Statuses, Payload, NoPayload, Log!Entry,
                        Log!Absent, ReaderState, Answers
  <2>2. \A v \in Versions : rows[v].status = "absent"
    BY DEF Init, Log!Absent
  <2>3. Present = {} /\ \A S : "absent" \notin S => WithStatus(S) = {}
    BY <2>2 DEF Present, WithStatus
  <2>4. Dense
    BY <2>3, BoundsAssumption DEF Dense
  <2>5. \A g \in Generators : gen[g].pc = "idle" /\ lock # g
    BY NoOneAssumption DEF Init, IdleGen
  <2>6. LockDiscipline /\ AllocationIsFresh /\ OwnsMarker /\ OneAssembler
    BY <2>5 DEF LockDiscipline, AllocationIsFresh, OwnsMarker, OneAssembler,
                Assembling
  <2>7. PendingIsLast /\ ReadsAreBetween /\ LaterReportsAreFresher
    BY <2>3, <2>5 DEF PendingIsLast, ReadsAreBetween, ReadSections,
                      LaterReportsAreFresher
  <2> QED
    BY <2>1, <2>4, <2>6, <2>7 DEF IInv
<1> QED
  BY <1>1, InvariantStep, PTL DEF Spec

(* One generation at a time: at most one marker is pending and at most one *)
(* handler assembles, for any number of overlapping calls.                 *)
THEOREM OneAttempt == Spec => []OneAttemptAtATime
<1>1. IInv => OneAttemptAtATime
  <2> SUFFICES ASSUME IInv,
                      NEW u \in WithStatus({"pending"}),
                      NEW v \in WithStatus({"pending"})
               PROVE  u = v
    BY DEF IInv, OneAssembler, OneAttemptAtATime
  <2>1. u \in Present /\ v \in Present
    BY DEF WithStatus, Present
  <2>2. u <= v /\ v <= u
    BY <2>1 DEF IInv, PendingIsLast
  <2> QED
    BY <2>2 DEF WithStatus, Versions
<1> QED
  BY <1>1, Invariance, PTL

(* A report of a higher version never shows an older artifact than a       *)
(* report of a lower version, although assembly reads without a lock.      *)
THEOREM Freshness == Spec => []LaterReportsAreFresher
<1>1. IInv => LaterReportsAreFresher
  BY DEF IInv
<1> QED
  BY <1>1, Invariance, PTL

(* Every step opens, publishes or fails one entry of the log, or leaves it. *)
LEMMA StepRefines == IInv /\ [Next]_vars => [Log!Next]_rows
<1> SUFFICES ASSUME IInv, [Next]_vars, rows' # rows PROVE Log!Next
  OBVIOUS
<1>1. PICK g \in Generators :
          CommitPending(g) \/ CommitReady(g) \/ CommitFailed(g)
  BY DEF Next, vars, Generate, Step, LoadSession, RejectNotCompleted,
         LockSession, RejectPending, AllocateVersion, LoseAllocation,
         ReadArtifact, LoseSettlement, Crash, Read, QueryReady,
         QueryAttempt, ProbeArtifacts, WriteStatus, PersistArtifacts
<1> DEFINE w == gen[g].version
<1>2. CASE CommitPending(g)
  <2>1. w \in Versions /\ w = NextVersion /\ WithStatus({"pending"}) = {}
    BY <1>2 DEF CommitPending, IInv, AllocationIsFresh
  <2>2. PICK n \in 0..MaxVersion : Present = 1..n
    BY DEF IInv, Dense
  <2>3. w = n + 1
    BY <2>1, <2>2, NextVersionOfDense
  <2>4. \A u \in Versions : rows[u] \in Log!Entry
    BY DEF IInv, TypeOK
  <2>5. ASSUME NEW u \in Versions, u < w PROVE Log!Settled(rows[u])
    <3>1. rows[u].status \notin {"absent", "pending"}
      BY <2>1, <2>2, <2>3, <2>5 DEF Present, WithStatus, Versions
    <3> QED
      BY <2>4, <3>1 DEF Log!Settled, Log!Entry
  <2>6. ASSUME NEW u \in Versions, ~(u < w)
        PROVE  rows[u].status = "absent"
    BY <2>2, <2>3, <2>6 DEF Present, Versions
  <2> QED
    BY <1>2, <2>1, <2>5, <2>6 DEF CommitPending, Log!Next, Log!Open, Versions
<1>3. CASE CommitReady(g)
  <2>1. w \in Versions /\ rows[w] = Log!Pending
    BY <1>3 DEF CommitReady, IInv, OwnsMarker, Assembling
  <2>2. gen[g].payload \in Log!Payload
    BY DEF IInv, TypeOK, GenState, Payload
  <2>3. \A u \in Versions : rows[u].status = "ready" =>
           Log!NotOlder(gen[g].payload, rows[u].payload)
    BY <1>3 DEF CommitReady, IInv, ReadsAreBetween, ReadSections,
                WithStatus, Log!NotOlder
  <2>4. Log!Publish(w)
    BY <1>3, <2>1, <2>2, <2>3 DEF CommitReady, Log!Publish, Versions
  <2> QED
    BY <2>1, <2>4 DEF Log!Next, Versions
<1>4. CASE CommitFailed(g)
  <2>1. w \in Versions /\ rows[w] = Log!Pending
    BY <1>4 DEF CommitFailed, IInv, OwnsMarker
  <2> QED
    BY <1>4, <2>1 DEF CommitFailed, Log!Next, Log!Fail, Versions
<1> QED
  BY <1>1, <1>2, <1>3, <1>4

(* The report store implements the append-only log: dense versions, one    *)
(* entry open at a time, settled entries never touched again.              *)
THEOREM Refinement == Spec => RefinesLog
<1>1. Init => Log!Init
  BY DEF Init, Log!Init, Versions
<1> QED
  BY <1>1, StepRefines, Invariance, PTL DEF Spec, RefinesLog, Log!Spec

(* A readable row is never withdrawn: the log's settled entries are frozen. *)
LEMMA ReadyStays ==
    ASSUME IInv, [Next]_vars, NEW v \in WithStatus({"ready"})
    PROVE  v \in WithStatus({"ready"})'
<1>1. v \in Versions /\ rows[v].status = "ready"
  BY DEF WithStatus
<1>2. rows \in [Versions -> Log!Entry]
  BY DEF IInv, TypeOK
<1>3. CASE rows' = rows
  BY <1>1, <1>3 DEF WithStatus
<1>4. CASE Log!Next
  <2>1. PICK u \in Versions : Log!Open(u) \/ Log!Publish(u) \/ Log!Fail(u)
    BY <1>4 DEF Log!Next, Versions
  <2>2. rows[u].status # "ready"
    BY <1>2, <2>1 DEF Log!Open, Log!Publish, Log!Fail, Log!Pending, Versions
  <2>3. \A w \in Versions \ {u} : rows'[w] = rows[w]
    BY <1>2, <2>1 DEF Log!Open, Log!Publish, Log!Fail
  <2> QED
    BY <1>1, <2>2, <2>3 DEF WithStatus
<1> QED
  BY <1>3, <1>4, StepRefines

LEMMA ReaderStep ==
    ASSUME IInv, TypeOK', ReadersSawReady, [Next]_vars, NEW r \in Readers
    PROVE  /\ reader'[r].ready \in {0} \cup WithStatus({"ready"})'
           /\ reader[r].ready <= reader'[r].ready
<1>1. reader[r].ready \in {0} \cup WithStatus({"ready"})'
  BY ReadyStays DEF ReadersSawReady
<1>2. reader[r].ready \in 0..MaxVersion
  BY DEF IInv, TypeOK, ReaderState
<1>3. CASE reader'[r].ready = reader[r].ready
  BY <1>1, <1>2, <1>3, BoundsAssumption
<1>4. CASE QueryReady(r)
  <2> DEFINE S == WithStatus({"ready"})
  <2>1. S \in SUBSET Versions
    BY DEF WithStatus
  <2>2. /\ Latest(S) \in 0..MaxVersion
        /\ S = {} => Latest(S) = 0
        /\ S # {} => Latest(S) \in S
        /\ \A v \in S : v <= Latest(S)
    BY <2>1, LatestIsLargest
  <2>3. reader'[r].ready = Latest(S)
    BY <1>4 DEF QueryReady, CurrentReport, IInv, TypeOK
  <2>4. Latest(S) \in {0} \cup WithStatus({"ready"})'
    BY <2>2, ReadyStays
  <2>5. reader[r].ready <= Latest(S)
    BY <1>2, <2>2, BoundsAssumption DEF ReadersSawReady
  <2> QED
    BY <2>3, <2>4, <2>5
<1>5. reader'[r].ready = reader[r].ready \/ QueryReady(r)
  <2>1. CASE UNCHANGED reader
    BY <2>1
  <2>2. ASSUME NEW q \in Readers, QueryReady(q)
        PROVE  reader'[r].ready = reader[r].ready \/ QueryReady(r)
    BY <2>2 DEF QueryReady, IInv, TypeOK
  <2>3. ASSUME NEW q \in Readers, QueryAttempt(q) \/ ProbeArtifacts(q)
        PROVE  reader'[r].ready = reader[r].ready
    BY <2>3 DEF QueryAttempt, ProbeArtifacts, IInv, TypeOK, ReaderState
  <2> QED
    BY <2>1, <2>2, <2>3
    DEF Next, vars, Generate, Step, LoadSession, RejectNotCompleted,
        LockSession, RejectPending, AllocateVersion, LoseAllocation,
        ReadArtifact, LoseSettlement, Crash, CommitPending, CommitReady,
        CommitFailed, Read, WriteStatus, PersistArtifacts
<1> QED
  BY <1>3, <1>4, <1>5

(* get_report_status never takes back a report it has shown. *)
THEOREM NoReportIsLost == Spec => ShownReportsAdvance
<1>1. Init => ReadersSawReady
  BY DEF Init, ReadersSawReady
<1>2. IInv /\ TypeOK' /\ ReadersSawReady /\ [Next]_vars
         => ReadersSawReady' /\ [\A r \in Readers : reader[r].ready <= reader'[r].ready]_vars
  BY ReaderStep DEF ReadersSawReady
<1>3. IInv => TypeOK
  BY DEF IInv
<1> QED
  BY <1>1, <1>2, <1>3, Invariance, PTL DEF Spec, ShownReportsAdvance
=============================================================================
