---------------------- MODULE NegotiationStandardProofs ----------------------
(***************************************************************************)
(* The versions of a standard, its pins and its optimistic revision, for   *)
(* any number of administrators, sessions and contents.                    *)
(*                                                                         *)
(* The argument: all writers insert a number between 1 and one past the    *)
(* number of versions, and the unique key refuses the numbers taken; so    *)
(* whatever version a writer counted from, the history stays dense.  The   *)
(* pointer only moves to a version whose content was validated, versions   *)
(* are never changed, and every edit of the row raises its revision, so a  *)
(* revision names one draft of one incarnation.                            *)
(***************************************************************************)
EXTENDS NegotiationStandard, TLAPS

\* In a dense history the version of the highest number is the last one.
LEMMA LatestOfDense ==
    ASSUME versions \in Seq(Version), HistoryIsDense
    PROVE  LatestId = Len(versions)
<1>1. CASE versions = <<>>
    BY <1>1 DEF LatestId
<1>2. CASE versions # <<>>
    <2> DEFINE Highest(i) == \A j \in DOMAIN versions :
                                versions[j].number <= versions[i].number
    <2>1. Len(versions) \in DOMAIN versions /\ Highest(Len(versions))
        BY <1>2 DEF HistoryIsDense
    <2>2. LatestId \in DOMAIN versions /\ Highest(LatestId)
        BY <1>2, <2>1 DEF LatestId
    <2>3. versions[LatestId].number = LatestId
          /\ versions[Len(versions)].number = Len(versions)
        BY <2>1, <2>2 DEF HistoryIsDense
    <2>4. Len(versions) <= LatestId
        BY <2>1, <2>2, <2>3
    <2> QED
        BY <2>2, <2>4
<1> QED
    BY <1>1, <1>2

\* The number a stored version, or none, counts from.
LEMMA NumberOfDense ==
    ASSUME versions \in Seq(Version), HistoryIsDense,
           NEW id \in Nat, id = 0 \/ id \in DOMAIN versions
    PROVE  NumberOf(id) = id
BY DEF NumberOf, HistoryIsDense

\* Whatever version its writer counted from, a row the unique keys let in is
\* the next one of the history.
LEMMA InsertKeepsDense ==
    ASSUME versions \in Seq(Version), HistoryIsDense,
           NEW v \in Version, v.number \in 1..Len(versions)+1, Insertable(v),
           versions' = Append(versions, v)
    PROVE  /\ versions' \in Seq(Version)
           /\ HistoryIsDense'
           /\ \A i \in DOMAIN versions :
                 i \in DOMAIN versions' /\ versions'[i] = versions[i]
           /\ Len(versions) + 1 \in DOMAIN versions'
           /\ versions'[Len(versions) + 1] = v
<1> DEFINE n == Len(versions)
<1>1. /\ versions' \in Seq(Version)
      /\ n \in Nat /\ DOMAIN versions = 1..n /\ DOMAIN versions' = 1..n+1
      /\ versions'[n+1] = v
      /\ \A i \in 1..n : versions'[i] = versions[i]
    OBVIOUS
<1>2. v.number = n + 1
    <2>1. v.number \notin 1..n
        BY <1>1 DEF Insertable, HistoryIsDense
    <2> QED
        BY <2>1, <1>1
<1>3. \A i \in 1..n+1 : versions'[i].number = i
    BY <1>1, <1>2 DEF HistoryIsDense
<1>4. \A i, j \in 1..n+1 :
         versions'[i].content = versions'[j].content => i = j
    <2> SUFFICES ASSUME NEW i \in 1..n+1, NEW j \in 1..n+1,
                        versions'[i].content = versions'[j].content
                 PROVE  i = j
        OBVIOUS
    <2>1. CASE i \in 1..n /\ j \in 1..n
        BY <2>1, <1>1 DEF HistoryIsDense
    <2>2. CASE i = n+1 /\ j \in 1..n
        BY <2>2, <1>1 DEF Insertable
    <2>3. CASE i \in 1..n /\ j = n+1
        BY <2>3, <1>1 DEF Insertable
    <2>4. CASE i = n+1 /\ j = n+1
        BY <2>4
    <2> QED
        BY <1>1, <2>1, <2>2, <2>3, <2>4
<1> QED
    BY <1>1, <1>3, <1>4 DEF HistoryIsDense

-----------------------------------------------------------------------------
LEMMA InitialInvariant == Init => IInv
<1> SUFFICES ASSUME Init PROVE IInv
    OBVIOUS
<1> USE BoundsAssumption, ContentsAssumption DEF Init
<1>1. TypeOK
    BY DEF TypeOK, NoStandard, NoView, Standard, Drafts
<1>2. HistoryIsDense
    BY DEF HistoryIsDense
<1>3. PinsArePublishable
    BY DEF PinsArePublishable, NoStandard
<1>4. RevisionIdentifiesDraft
    BY DEF RevisionIdentifiesDraft, Exists, NoStandard
<1>5. ViewsAreOfThePast /\ NothingOutlivesTheStandard
    BY DEF ViewsAreOfThePast, NothingOutlivesTheStandard, Exists, NoStandard,
           NoView
<1> QED
    BY <1>1, <1>2, <1>3, <1>4, <1>5 DEF IInv

\* A step changes the versions only by storing the next one.
StoresAtMostOne ==
    \/ UNCHANGED versions
    \/ \E v \in Version :
          /\ v.number \in 1..Len(versions)+1
          /\ Insertable(v)
          /\ versions' = Append(versions, v)

LEMMA HistoryStep ==
    ASSUME IInv, StoresAtMostOne
    PROVE  /\ versions' \in Seq(Version)
           /\ HistoryIsDense'
           /\ \A i \in DOMAIN versions :
                 i \in DOMAIN versions' /\ versions'[i] = versions[i]
<1>1. versions \in Seq(Version) /\ HistoryIsDense
    BY DEF IInv, TypeOK
<1>2. CASE UNCHANGED versions
    BY <1>1, <1>2 DEF HistoryIsDense
<1>3. ASSUME NEW v \in Version, v.number \in 1..Len(versions)+1,
             Insertable(v), versions' = Append(versions, v)
      PROVE  /\ versions' \in Seq(Version)
             /\ HistoryIsDense'
             /\ \A i \in DOMAIN versions :
                   i \in DOMAIN versions' /\ versions'[i] = versions[i]
    BY <1>1, <1>3, InsertKeepsDense
<1> QED
    BY <1>2, <1>3 DEF StoresAtMostOne

\* A step writes the standard row by one edit, which raises the revision; or
\* by creating the next incarnation; or by deleting a standard without
\* versions.
EditsRow ==
    /\ Exists
    /\ std' \in Standard
    /\ std'.status # "none"
    /\ std'.revision = std.revision + 1
    /\ incarnation' = incarnation

CreatesRow ==
    /\ ~Exists
    /\ std' \in Standard
    /\ std'.status # "none"
    /\ incarnation' = incarnation + 1
    /\ incarnation' \in 0..MaxIncarnation

DeletesRow ==
    /\ std' = NoStandard
    /\ versions = <<>> /\ versions' = <<>>
    /\ incarnation' = incarnation

KeepsRow ==
    /\ std' = std
    /\ incarnation' = incarnation
    /\ ~Exists => UNCHANGED versions

WritesRow ==
    \/ EditsRow
    \/ CreatesRow
    \/ DeletesRow
    \/ KeepsRow

\* After the step the pointer is on a stored version of validated content.
Pinnable(id) == id \in DOMAIN versions /\ versions[id].content \in Publishable

PointsWell ==
    /\ std.current # 0 => Pinnable(std.current)
    /\ std.status = "published" => std.current # 0

RowShape == StoresAtMostOne /\ WritesRow /\ PointsWell'

-----------------------------------------------------------------------------
(* Every transaction has that shape *)

\* An edit of the row that keeps the versions and the pointer.
LEMMA PlainEdit ==
    ASSUME IInv, CanEdit, UNCHANGED <<versions, incarnation>>,
           NEW s \in Standard, s.revision = std.revision,
           s.status # "none", s.current = std.current,
           s.status = "published" => std.status = "published",
           std' = Edited(s)
    PROVE  RowShape
<1>1. std \in Standard /\ std.revision < MaxRevision /\ Exists
      /\ MaxRevision \in Nat
    BY BoundsAssumption DEF IInv, TypeOK, CanEdit
<1>2. /\ std' \in Standard /\ std'.revision = std.revision + 1
      /\ std'.status = s.status /\ std'.current = s.current
    BY <1>1 DEF Edited, Standard
<1>3. EditsRow
    BY <1>1, <1>2 DEF EditsRow
<1>4. PointsWell
    BY DEF IInv, PinsArePublishable, PointsWell, Pinnable
<1>5. PointsWell'
    BY <1>2, <1>4 DEF PointsWell, Pinnable
<1> QED
    BY <1>3, <1>5 DEF RowShape, StoresAtMostOne, WritesRow

\* A row whose pointer has moved.
LEMMA PointedRow ==
    ASSUME NEW r \in Standard, r.revision < MaxRevision, NEW id \in Nat
    PROVE  LET p == Edited([r EXCEPT !.current = id, !.status = "published"])
           IN  /\ p \in Standard /\ p.revision = r.revision + 1
               /\ p.status = "published" /\ p.current = id
<1> DEFINE s == [r EXCEPT !.current = id, !.status = "published"]
<1>1. /\ s \in Standard /\ s.revision = r.revision
      /\ s.status = "published" /\ s.current = id
    BY DEF Standard
<1> HIDE DEF s
<1>2. /\ Edited(s) \in Standard /\ Edited(s).revision = s.revision + 1
      /\ Edited(s).status = s.status /\ Edited(s).current = s.current
    BY <1>1, BoundsAssumption DEF Edited, Standard
<1> QED
    BY <1>1, <1>2 DEF s

\* The pointer moves to a version of validated content.
LEMMA PointingEdit ==
    ASSUME IInv, CanEdit, UNCHANGED incarnation, StoresAtMostOne,
           NEW id \in Nat \ {0}, PointAt(id),
           id \in DOMAIN versions', versions'[id].content \in Publishable
    PROVE  RowShape
<1>1. std \in Standard /\ std.revision < MaxRevision /\ Exists
    BY DEF IInv, TypeOK, CanEdit
<1>2. /\ std' \in Standard /\ std'.revision = std.revision + 1
      /\ std'.status = "published" /\ std'.current = id
    BY <1>1, PointedRow DEF PointAt
<1>3. EditsRow
    BY <1>1, <1>2 DEF EditsRow
<1>4. PointsWell'
    BY <1>2 DEF PointsWell, Pinnable
<1> QED
    BY <1>3, <1>4 DEF RowShape, WritesRow

LEMMA UpdateDraftShape ==
    ASSUME IInv, NEW a \in Admins, NEW c \in Contents, UpdateDraft(a, c)
    PROVE  RowShape
<1> DEFINE s == [std EXCEPT !.draft = c]
<1>1. std \in Standard
    BY DEF IInv, TypeOK
<1>2. /\ s \in Standard /\ s.revision = std.revision
      /\ s.status = "draft" /\ s.current = std.current
    BY <1>1 DEF UpdateDraft, Standard, Drafts
<1>3. CanEdit /\ UNCHANGED <<versions, incarnation>> /\ std' = Edited(s)
    BY DEF UpdateDraft
<1> QED
    BY <1>2, <1>3, PlainEdit

LEMMA StatusEditShape ==
    ASSUME IInv, NEW st \in {"draft", "archived"}, CanEdit,
           UNCHANGED <<versions, incarnation>>,
           std' = Edited([std EXCEPT !.status = st])
    PROVE  RowShape
<1> DEFINE s == [std EXCEPT !.status = st]
<1>1. std \in Standard
    BY DEF IInv, TypeOK
<1>2. /\ s \in Standard /\ s.revision = std.revision
      /\ s.status = st /\ s.current = std.current
    BY <1>1 DEF Standard
<1> QED
    BY <1>2, PlainEdit

LEMMA DeleteDraftShape == ASSUME IInv, DeleteDraft PROVE RowShape
<1>1. DeletesRow /\ StoresAtMostOne
    BY DEF DeleteDraft, DeletesRow, StoresAtMostOne
<1>2. PointsWell'
    BY DEF DeleteDraft, PointsWell, NoStandard
<1> QED
    BY <1>1, <1>2 DEF RowShape, WritesRow

\* The compared version is a stored one, or there is none.
LEMMA ComparedIsStored ==
    ASSUME IInv
    PROVE  /\ ComparedId \in Nat
           /\ ComparedId = 0 \/ ComparedId \in DOMAIN versions
           /\ NumberOf(ComparedId) = ComparedId
<1>1. versions \in Seq(Version) /\ HistoryIsDense /\ std \in Standard
    BY DEF IInv, TypeOK
<1>2. CASE std.current # 0
    <2>1. ComparedId = std.current /\ ComparedId \in DOMAIN versions
        BY <1>2 DEF ComparedId, IInv, PinsArePublishable
    <2> QED
        BY <2>1, <1>1, NumberOfDense
<1>3. CASE std.current = 0
    <2>1. ComparedId = Len(versions)
        BY <1>1, <1>3, LatestOfDense DEF ComparedId
    <2>2. ComparedId \in Nat /\ (ComparedId = 0 \/ ComparedId \in DOMAIN versions)
        BY <2>1, <1>1
    <2> QED
        BY <2>2, <1>1, NumberOfDense
<1> QED
    BY <1>2, <1>3

LEMMA PublishUnchangedShape == ASSUME IInv, PublishUnchanged PROVE RowShape
<1>1. PICK id \in Nat \ {0} : id = ComparedId /\ id \in DOMAIN versions
    BY ComparedIsStored DEF PublishUnchanged, MatchesCompared
<1>2. versions[id].content \in Publishable
    BY <1>1 DEF PublishUnchanged, MatchesCompared, CanPublish
<1>3. UNCHANGED versions /\ UNCHANGED incarnation /\ CanEdit /\ PointAt(id)
    BY <1>1 DEF PublishUnchanged
<1>4. id \in DOMAIN versions' /\ versions'[id].content \in Publishable
    BY <1>1, <1>2, <1>3
<1>5. StoresAtMostOne
    BY <1>3 DEF StoresAtMostOne
<1> QED
    BY <1>3, <1>4, <1>5, PointingEdit

LEMMA PublishNewShape == ASSUME IInv, PublishNew PROVE RowShape
<1> DEFINE v == NextVersionRow
           n == Len(versions)
<1>1. versions \in Seq(Version) /\ HistoryIsDense
    BY DEF IInv, TypeOK
<1>2. /\ v \in Version /\ v.content \in Publishable
      /\ v.number \in 1..n+1
    BY <1>1, ComparedIsStored, ContentsAssumption
    DEF PublishNew, CanPublish, NextVersionRow, Version
<1>3. /\ CanEdit /\ Insertable(v) /\ versions' = Append(versions, v)
      /\ UNCHANGED incarnation /\ PointAt(n+1)
    BY DEF PublishNew
<1>4. StoresAtMostOne
    BY <1>2, <1>3 DEF StoresAtMostOne
<1> HIDE DEF v
<1>5. /\ n + 1 \in Nat \ {0} /\ n + 1 \in DOMAIN versions'
      /\ versions'[n+1] = v
    BY <1>1, <1>2, <1>3
<1>6. PICK id \in Nat \ {0} : id = n + 1
    BY <1>5
<1> QED
    BY <1>2, <1>3, <1>4, <1>5, <1>6, PointingEdit

\* What the seed flow does to the versions.
LEMMA SeedVersionStores ==
    ASSUME IInv, NEW c \in Contents, NEW id \in 1..Len(versions)+1,
           SeedVersion(c, id)
    PROVE  /\ StoresAtMostOne
           /\ id \in Nat \ {0}
           /\ id \in DOMAIN versions'
           /\ versions'[id].content = c
<1>1. versions \in Seq(Version) /\ HistoryIsDense
    BY DEF IInv, TypeOK
<1>2. CASE id \in WithContent(c) /\ UNCHANGED versions
    BY <1>1, <1>2 DEF WithContent, StoresAtMostOne
<1>3. CASE /\ Insertable(SeedVersionRow(c)) /\ id = Len(versions) + 1
           /\ versions' = Append(versions, SeedVersionRow(c))
    <2> DEFINE v == SeedVersionRow(c)
    <2>1. NumberOf(LatestId) = Len(versions)
        <3>1. LatestId = Len(versions)
            BY <1>1, LatestOfDense
        <3> QED
            BY <3>1, <1>1, NumberOfDense
    <2>2. v \in Version /\ v.number \in 1..Len(versions)+1 /\ v.content = c
        BY <2>1, <1>1 DEF SeedVersionRow, Version
    <2>3. StoresAtMostOne
        BY <2>2, <1>3 DEF StoresAtMostOne
    <2> HIDE DEF v
    <2>4. id \in DOMAIN versions' /\ versions'[id] = v
        BY <1>1, <1>3, <2>2 DEF v
    <2> QED
        BY <2>2, <2>3, <2>4, <1>1
<1> QED
    BY <1>2, <1>3 DEF SeedVersion

\* The row the seed flow starts from.
LEMMA SeedBaseShape ==
    ASSUME IInv, NEW c \in Contents, SeedCreatesStandard
    PROVE  /\ SeedBase(c) \in Standard
           /\ SeedBase(c).status # "none"
           /\ Exists => SeedBase(c) = std /\ incarnation' = incarnation
           /\ ~Exists => /\ SeedBase(c).current = 0
                         /\ SeedBase(c).status = "draft"
                         /\ incarnation' = incarnation + 1
                         /\ incarnation' \in 0..MaxIncarnation
<1>1. std \in Standard /\ incarnation \in 0..MaxIncarnation
    BY DEF IInv, TypeOK
<1>2. CASE Exists
    BY <1>1, <1>2 DEF SeedBase, SeedCreatesStandard, Exists
<1>3. CASE ~Exists
    <2>1. SeedBase(c) = NewStandard(c, TRUE)
        BY <1>3 DEF SeedBase
    <2>2. /\ NewStandard(c, TRUE) \in Standard
          /\ NewStandard(c, TRUE).current = 0
          /\ NewStandard(c, TRUE).status = "draft"
        BY BoundsAssumption DEF NewStandard, Standard, Drafts
    <2>3. /\ incarnation' = incarnation + 1
          /\ incarnation' \in 0..MaxIncarnation
        BY <1>1, <1>3, BoundsAssumption DEF SeedCreatesStandard
    <2> QED
        BY <1>3, <2>1, <2>2, <2>3
<1> QED
    BY <1>2, <1>3

LEMMA SeedUnpublishedShape ==
    ASSUME IInv, NEW c \in Contents, SeedUnpublished(c)
    PROVE  RowShape
<1>1. PICK id \in 1..Len(versions)+1 : SeedVersion(c, id)
    BY DEF SeedUnpublished
<1>2. StoresAtMostOne
    BY <1>1, SeedVersionStores
<1>3. std' = SeedBase(c) /\ SeedCreatesStandard
    BY DEF SeedUnpublished
<1>4. WritesRow
    BY <1>3, SeedBaseShape DEF WritesRow, KeepsRow, CreatesRow
<1>5. CASE Exists
    <2>1. std' = std /\ PointsWell
        BY <1>3, <1>5, SeedBaseShape
        DEF IInv, PinsArePublishable, PointsWell, Pinnable
    <2> QED
        BY <2>1, <1>2, <1>4, HistoryStep DEF RowShape, PointsWell, Pinnable
<1>6. CASE ~Exists
    BY <1>2, <1>3, <1>4, <1>6, SeedBaseShape DEF RowShape, PointsWell
<1> QED
    BY <1>5, <1>6

LEMMA SeedPublishedShape ==
    ASSUME IInv, NEW c \in Contents, SeedPublished(c)
    PROVE  RowShape
<1> DEFINE b == SeedBase(c)
<1>1. PICK id \in 1..Len(versions)+1 :
        /\ SeedVersion(c, id)
        /\ IF b.current = id
           THEN std' = b
           ELSE /\ b.revision < MaxRevision
                /\ std' = Edited([b EXCEPT !.current = id,
                                           !.status = "published"])
    BY DEF SeedPublished
<1>2. /\ StoresAtMostOne /\ id \in Nat \ {0} /\ id \in DOMAIN versions'
      /\ versions'[id].content = c
    BY <1>1, SeedVersionStores
<1>3. c \in Publishable /\ SeedCreatesStandard
    BY DEF SeedPublished
<1>4. /\ b \in Standard /\ b.status # "none"
      /\ Exists => b = std /\ incarnation' = incarnation
      /\ ~Exists => /\ b.current = 0 /\ b.status = "draft"
                    /\ incarnation' = incarnation + 1
                    /\ incarnation' \in 0..MaxIncarnation
    BY <1>3, SeedBaseShape
<1> HIDE DEF b
<1>5. CASE b.current = id
    <2>1. std' = std /\ incarnation' = incarnation /\ std.current = id
          /\ Exists
        BY <1>1, <1>2, <1>4, <1>5
    <2>2. PointsWell'
        BY <1>2, <1>3, <2>1 DEF PointsWell, Pinnable
    <2> QED
        BY <1>2, <2>1, <2>2 DEF RowShape, WritesRow, KeepsRow
<1>6. CASE b.current # id
    <2>1. /\ std' \in Standard /\ std'.revision = b.revision + 1
          /\ std'.status = "published" /\ std'.current = id
        <3>1. PICK r \in Standard : r = b
            BY <1>4
        <3>2. /\ r.revision < MaxRevision /\ id \in Nat
              /\ std' = Edited([r EXCEPT !.current = id,
                                         !.status = "published"])
            BY <1>1, <1>2, <1>6, <3>1
        <3> QED
            BY <3>1, <3>2, PointedRow
    <2>2. PointsWell'
        BY <1>2, <1>3, <2>1 DEF PointsWell, Pinnable
    <2>3. WritesRow
        BY <2>1, <1>4 DEF WritesRow, EditsRow, CreatesRow
    <2> QED
        BY <1>2, <2>2, <2>3 DEF RowShape
<1> QED
    BY <1>5, <1>6

LEMMA InsertStandardShape ==
    ASSUME IInv, NEW a \in Admins, NEW c \in Contents, InsertStandard(a, c)
    PROVE  RowShape
<1>1. StoresAtMostOne /\ UNCHANGED versions
    BY DEF InsertStandard, StoresAtMostOne
<1>2. CASE Exists /\ UNCHANGED <<std, incarnation>>
    <2>1. PointsWell'
        BY <1>1, <1>2 DEF IInv, PinsArePublishable, PointsWell, Pinnable
    <2> QED
        BY <1>1, <1>2, <2>1 DEF RowShape, WritesRow, KeepsRow
<1>3. CASE /\ ~Exists /\ incarnation < MaxIncarnation
           /\ std' = NewStandard(c, FALSE) /\ incarnation' = incarnation + 1
    <2>1. /\ std' \in Standard /\ std'.current = 0 /\ std'.status = "draft"
        BY <1>3, BoundsAssumption DEF NewStandard, Standard, Drafts
    <2>2. incarnation' \in 0..MaxIncarnation
        BY <1>3, BoundsAssumption DEF IInv, TypeOK
    <2> QED
        BY <1>1, <1>3, <2>1, <2>2
        DEF RowShape, WritesRow, CreatesRow, PointsWell
<1> QED
    BY <1>2, <1>3 DEF InsertStandard

\* Nothing that the row is about changes.
LEMMA QuietShape ==
    ASSUME IInv, UNCHANGED <<std, incarnation, versions>>
    PROVE  RowShape
<1>1. PointsWell'
    BY DEF IInv, PinsArePublishable, PointsWell, Pinnable
<1> QED
    BY <1>1 DEF RowShape, WritesRow, KeepsRow, StoresAtMostOne

-----------------------------------------------------------------------------
(* The invariant *)

\* What a step does to the clients' views and to the sessions' pins.
FetchesOrKeeps ==
    \/ UNCHANGED view
    \/ \E a \in Admins : Exists /\ KeepsRow
          /\ view' = [view EXCEPT ![a] = [incarnation |-> incarnation,
                                          revision |-> std.revision,
                                          draft |-> std.draft]]

PinsOrKeeps ==
    \/ UNCHANGED session
    \/ \E s \in Sessions : KeepsRow /\ UNCHANGED versions
          /\ \/ /\ std.current # 0
                /\ session' = [session EXCEPT ![s] = [pc |-> "waiting",
                                                      pin |-> std.current]]
             \/ /\ session[s].pc = "waiting"
                /\ session' = [session EXCEPT ![s].pc = "created"]

StepShape ==
    RowShape /\ checked' \subseteq Admins /\ FetchesOrKeeps /\ PinsOrKeeps

LEMMA NextShape == ASSUME IInv, [Next]_vars PROVE StepShape
<1>1. checked \subseteq Admins
    BY DEF IInv, TypeOK
<1> USE DEF StepShape
<1>2. ASSUME NEW a \in Admins, CheckNoStandard(a) PROVE StepShape
    BY <1>1, <1>2, QuietShape DEF CheckNoStandard, FetchesOrKeeps, PinsOrKeeps
<1>3. ASSUME NEW a \in Admins, NEW c \in Contents, InsertStandard(a, c)
      PROVE  StepShape
    <2>1. RowShape
        BY <1>3, InsertStandardShape
    <2>2. checked' \subseteq Admins /\ UNCHANGED <<view, session>>
        BY <1>1, <1>3 DEF InsertStandard
    <2> QED
        BY <2>1, <2>2 DEF FetchesOrKeeps, PinsOrKeeps
<1>4. ASSUME NEW a \in Admins, GetStandard(a) PROVE StepShape
    BY <1>1, <1>4, QuietShape
    DEF GetStandard, FetchesOrKeeps, PinsOrKeeps, KeepsRow
<1>5. ASSUME NEW a \in Admins, NEW c \in Contents, UpdateDraft(a, c)
      PROVE  StepShape
    <2>1. UNCHANGED <<checked, view, session>>
        BY <1>5 DEF UpdateDraft
    <2> QED
        BY <1>1, <1>5, <2>1, UpdateDraftShape DEF FetchesOrKeeps, PinsOrKeeps
<1>6. ASSUME DeleteDraft PROVE StepShape
    <2>1. UNCHANGED <<checked, view, session>>
        BY <1>6 DEF DeleteDraft
    <2> QED
        BY <1>1, <1>6, <2>1, DeleteDraftShape DEF FetchesOrKeeps, PinsOrKeeps
<1>7. ASSUME PublishUnchanged PROVE StepShape
    <2>1. UNCHANGED <<checked, view, session>>
        BY <1>7 DEF PublishUnchanged
    <2> QED
        BY <1>1, <1>7, <2>1, PublishUnchangedShape
        DEF FetchesOrKeeps, PinsOrKeeps
<1>8. ASSUME PublishNew PROVE StepShape
    <2>1. UNCHANGED <<checked, view, session>>
        BY <1>8 DEF PublishNew
    <2> QED
        BY <1>1, <1>8, <2>1, PublishNewShape DEF FetchesOrKeeps, PinsOrKeeps
<1>9. ASSUME ReopenDraft PROVE StepShape
    <2>1. /\ UNCHANGED <<checked, view, session>>
          /\ CanEdit /\ UNCHANGED <<versions, incarnation>>
          /\ std' = Edited([std EXCEPT !.status = "draft"])
        BY <1>9 DEF ReopenDraft
    <2>2. RowShape
        BY <2>1, StatusEditShape
    <2> QED
        BY <1>1, <2>1, <2>2 DEF FetchesOrKeeps, PinsOrKeeps
<1>10. ASSUME ArchiveStandard PROVE StepShape
    <2>1. /\ UNCHANGED <<checked, view, session>>
          /\ CanEdit /\ UNCHANGED <<versions, incarnation>>
          /\ std' = Edited([std EXCEPT !.status = "archived"])
        BY <1>10 DEF ArchiveStandard
    <2>2. RowShape
        BY <2>1, StatusEditShape
    <2> QED
        BY <1>1, <2>1, <2>2 DEF FetchesOrKeeps, PinsOrKeeps
<1>11. ASSUME NEW c \in Contents, SeedUnpublished(c) PROVE StepShape
    <2>1. UNCHANGED <<checked, view, session>>
        BY <1>11 DEF SeedUnpublished
    <2> QED
        BY <1>1, <1>11, <2>1, SeedUnpublishedShape
        DEF FetchesOrKeeps, PinsOrKeeps
<1>12. ASSUME NEW c \in Contents, SeedPublished(c) PROVE StepShape
    <2>1. UNCHANGED <<checked, view, session>>
        BY <1>12 DEF SeedPublished
    <2> QED
        BY <1>1, <1>12, <2>1, SeedPublishedShape
        DEF FetchesOrKeeps, PinsOrKeeps
<1>13. ASSUME NEW s \in Sessions, ResolveVersion(s) \/ InsertSession(s)
       PROVE  StepShape
    <2>1. UNCHANGED <<std, incarnation, versions, checked, view>>
        BY <1>13 DEF ResolveVersion, InsertSession
    <2>2. PinsOrKeeps
        BY <1>13, <2>1
        DEF ResolveVersion, InsertSession, PinsOrKeeps, KeepsRow
    <2> QED
        BY <1>1, <2>1, <2>2, QuietShape DEF FetchesOrKeeps
<1>14. ASSUME UNCHANGED vars PROVE StepShape
    BY <1>1, <1>14, QuietShape DEF vars, FetchesOrKeeps, PinsOrKeeps
<1> QED
    BY <1>2, <1>3, <1>4, <1>5, <1>6, <1>7, <1>8, <1>9, <1>10, <1>11, <1>12,
       <1>13, <1>14
    DEF Next

LEMMA RowTypes ==
    ASSUME IInv, RowShape
    PROVE  std' \in Standard /\ incarnation' \in 0..MaxIncarnation
<1>1. std \in Standard /\ incarnation \in 0..MaxIncarnation
    BY DEF IInv, TypeOK
<1>2. NoStandard \in Standard
    BY BoundsAssumption DEF NoStandard, Standard, Drafts
<1> QED
    BY <1>1, <1>2
    DEF RowShape, WritesRow, EditsRow, CreatesRow, DeletesRow, KeepsRow

LEMMA TypeStep == ASSUME IInv, StepShape PROVE TypeOK'
<1>1. /\ std \in Standard /\ incarnation \in 0..MaxIncarnation
      /\ view \in [Admins -> [incarnation : 0..MaxIncarnation,
                              revision : 0..MaxRevision, draft : Drafts]]
      /\ session \in [Sessions -> [pc : {"none", "waiting", "created"},
                                   pin : Nat]]
    BY DEF IInv, TypeOK
<1>2. std' \in Standard /\ incarnation' \in 0..MaxIncarnation
    BY RowTypes DEF StepShape
<1>3. versions' \in Seq(Version)
    BY HistoryStep DEF StepShape, RowShape
<1>4. view' \in [Admins -> [incarnation : 0..MaxIncarnation,
                            revision : 0..MaxRevision, draft : Drafts]]
    <2>1. [incarnation |-> incarnation, revision |-> std.revision,
           draft |-> std.draft]
             \in [incarnation : 0..MaxIncarnation,
                  revision : 0..MaxRevision, draft : Drafts]
        BY <1>1 DEF Standard
    <2> QED
        BY <1>1, <2>1 DEF StepShape, FetchesOrKeeps
<1>5. session' \in [Sessions -> [pc : {"none", "waiting", "created"},
                                 pin : Nat]]
    BY <1>1 DEF StepShape, PinsOrKeeps, Standard
<1> QED
    BY <1>2, <1>3, <1>4, <1>5 DEF TypeOK, StepShape

LEMMA PinsStep == ASSUME IInv, StepShape PROVE PinsArePublishable'
<1>1. PointsWell'
    BY DEF StepShape, RowShape
<1>2. \A i : Pinnable(i) => Pinnable(i)'
    BY HistoryStep DEF StepShape, RowShape, Pinnable
<1>3. \A s \in Sessions : session[s].pc # "none" => Pinnable(session[s].pin)
    BY DEF IInv, PinsArePublishable, Pinnable
<1>4. std.current # 0 => Pinnable(std.current)
    BY DEF IInv, PinsArePublishable, Pinnable
<1>5. session \in [Sessions -> [pc : {"none", "waiting", "created"},
                                pin : Nat]]
    BY DEF IInv, TypeOK
<1>6. ASSUME NEW s \in Sessions, session'[s].pc # "none"
      PROVE  /\ session'[s].pin \in DOMAIN versions'
             /\ versions'[session'[s].pin].content \in Publishable
    <2>1. CASE UNCHANGED session
        <3>1. PICK i : i = session[s].pin
            OBVIOUS
        <3>2. Pinnable(i)' /\ i = session'[s].pin
            BY <1>2, <1>3, <1>6, <2>1, <3>1
        <3> QED
            BY <3>2 DEF Pinnable
    <2>2. ASSUME NEW t \in Sessions, UNCHANGED versions,
                 \/ /\ std.current # 0
                    /\ session' = [session EXCEPT ![t] =
                                     [pc |-> "waiting", pin |-> std.current]]
                 \/ /\ session[t].pc = "waiting"
                    /\ session' = [session EXCEPT ![t].pc = "created"]
          PROVE  /\ session'[s].pin \in DOMAIN versions'
                 /\ versions'[session'[s].pin].content \in Publishable
        <3>1. \/ s = t /\ std.current # 0 /\ session'[s].pin = std.current
              \/ session[s].pc # "none" /\ session'[s].pin = session[s].pin
            BY <1>5, <1>6, <2>2
        <3>2. Pinnable(session'[s].pin)
            BY <1>3, <1>4, <3>1
        <3> QED
            BY <2>2, <3>2 DEF Pinnable
    <2> QED
        BY <2>1, <2>2 DEF StepShape, PinsOrKeeps
<1> QED
    BY <1>1, <1>6 DEF PinsArePublishable, PointsWell, Pinnable

\* A view of the past names its draft as long as edits raise the revision.
LEMMA ViewsStep ==
    ASSUME IInv, StepShape
    PROVE  RevisionIdentifiesDraft' /\ ViewsAreOfThePast'
<1>1. /\ std \in Standard /\ incarnation \in Nat
      /\ view \in [Admins -> [incarnation : 0..MaxIncarnation,
                              revision : 0..MaxRevision, draft : Drafts]]
      /\ MaxRevision \in Nat /\ MaxIncarnation \in Nat
    BY BoundsAssumption DEF IInv, TypeOK
<1>2. /\ \A a \in Admins :
            /\ view[a].incarnation <= incarnation
            /\ Exists /\ view[a].incarnation = incarnation
                  => view[a].revision <= std.revision
      /\ \A a \in Admins :
            Exists /\ view[a].incarnation = incarnation
               /\ view[a].revision = std.revision => view[a].draft = std.draft
    BY DEF IInv, RevisionIdentifiesDraft, ViewsAreOfThePast
<1>3. CASE UNCHANGED view
    <2>1. CASE EditsRow
        BY <1>1, <1>2, <1>3, <2>1
        DEF EditsRow, RevisionIdentifiesDraft, ViewsAreOfThePast, Standard
    <2>2. CASE CreatesRow
        BY <1>1, <1>2, <1>3, <2>2
        DEF CreatesRow, RevisionIdentifiesDraft, ViewsAreOfThePast
    <2>3. CASE DeletesRow
        BY <1>1, <1>2, <1>3, <2>3
        DEF DeletesRow, RevisionIdentifiesDraft, ViewsAreOfThePast, Exists,
            NoStandard
    <2>4. CASE KeepsRow
        BY <1>1, <1>2, <1>3, <2>4
        DEF KeepsRow, RevisionIdentifiesDraft, ViewsAreOfThePast, Exists
    <2> QED
        BY <2>1, <2>2, <2>3, <2>4 DEF StepShape, RowShape, WritesRow
<1>4. ASSUME NEW a \in Admins, KeepsRow,
             view' = [view EXCEPT ![a] = [incarnation |-> incarnation,
                                          revision |-> std.revision,
                                          draft |-> std.draft]]
      PROVE  RevisionIdentifiesDraft' /\ ViewsAreOfThePast'
    <2>1. ASSUME NEW b \in Admins
          PROVE  \/ view'[b] = view[b]
                 \/ /\ view'[b].incarnation = incarnation
                    /\ view'[b].revision = std.revision
                    /\ view'[b].draft = std.draft
        BY <1>1, <1>4
    <2> QED
        BY <1>1, <1>2, <1>4, <2>1
        DEF KeepsRow, RevisionIdentifiesDraft, ViewsAreOfThePast, Exists,
            Standard
<1> QED
    BY <1>3, <1>4 DEF StepShape, FetchesOrKeeps

LEMMA InvariantStep == IInv /\ [Next]_vars => IInv'
<1> SUFFICES ASSUME IInv, [Next]_vars PROVE IInv'
    OBVIOUS
<1>1. StepShape
    BY NextShape
<1>2. HistoryIsDense'
    BY <1>1, HistoryStep DEF StepShape, RowShape
<1>3. NothingOutlivesTheStandard'
    <2>1. CASE EditsRow \/ CreatesRow
        BY <2>1 DEF EditsRow, CreatesRow, NothingOutlivesTheStandard, Exists
    <2>2. CASE DeletesRow
        BY <2>2 DEF DeletesRow, NothingOutlivesTheStandard
    <2>3. CASE KeepsRow
        BY <2>3 DEF KeepsRow, NothingOutlivesTheStandard, Exists, IInv
    <2> QED
        BY <1>1, <2>1, <2>2, <2>3 DEF StepShape, RowShape, WritesRow
<1> QED
    BY <1>1, <1>2, <1>3, TypeStep, PinsStep, ViewsStep DEF IInv

-----------------------------------------------------------------------------
(* The theorems *)

THEOREM Invariance == Spec => []IInv
<1> QED
    BY InitialInvariant, InvariantStep, PTL DEF Spec

\* Every reachable state is well typed.
THEOREM TypeCorrect == Spec => []TypeOK
<1>1. IInv => TypeOK
    BY DEF IInv
<1> QED
    BY <1>1, Invariance, PTL

\* Version numbers are 1, 2, 3 ... and content is stored once, whichever
\* writer stored it and from whichever version it counted (publish_standard
\* from the current one, get_or_create_seed_version from the latest).
THEOREM DenseHistory == Spec => []HistoryIsDense
<1>1. IInv => HistoryIsDense
    BY DEF IInv
<1> QED
    BY <1>1, Invariance, PTL

\* What new sessions are pinned to, and what existing sessions are pinned to,
\* was validated for publication.
THEOREM ValidPins == Spec => []PinsArePublishable
<1>1. IInv => PinsArePublishable
    BY DEF IInv
<1> QED
    BY <1>1, Invariance, PTL

\* update_draft's expected_revision check loses nobody's edit of the same
\* standard.
THEOREM NoLostEdit == Spec => []RevisionIdentifiesDraft
<1>1. IInv => RevisionIdentifiesDraft
    BY DEF IInv
<1> QED
    BY <1>1, Invariance, PTL

\* Every writer of the standard row raises its revision by one.
THEOREM RevisionRises == Spec => EveryEditRaisesRevision
<1>1. ASSUME IInv, [Next]_vars
      PROVE  [Exists /\ Exists' /\ incarnation' = incarnation /\ std' # std
                 => std'.revision = std.revision + 1]_vars
    <2>1. WritesRow
        BY <1>1, NextShape DEF StepShape, RowShape
    <2>2. incarnation \in Nat
        BY <1>1, BoundsAssumption DEF IInv, TypeOK
    <2> QED
        BY <2>1, <2>2
        DEF WritesRow, EditsRow, CreatesRow, DeletesRow, KeepsRow, Exists,
            NoStandard
<1> QED
    BY <1>1, Invariance, PTL DEF Spec, EveryEditRaisesRevision
=============================================================================
