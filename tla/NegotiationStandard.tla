------------------------- MODULE NegotiationStandard -------------------------
(***************************************************************************)
(* The negotiation standard (rubric) of one campaign, its immutable        *)
(* published versions, and the training sessions that pin one of them.     *)
(*                                                                         *)
(* Administrators edit, publish, reopen, archive and delete the standard   *)
(* through the API; the rubric seed flow creates and publishes versions of *)
(* its own.  Each of these transactions holds the standard row FOR UPDATE  *)
(* from its first read to its commit, so each is one action here.  Only    *)
(* create_standard checks without a lock, and create_session reads the     *)
(* pointer without one and inserts after an LLM call: two actions each.    *)
(*                                                                         *)
(* Content stands for its canonical hash: equal content, equal hash.  An   *)
(* insert that breaks a unique key fails its whole transaction and leaves  *)
(* the state unchanged, as does every rejected request: no action.         *)
(***************************************************************************)
EXTENDS Integers, Sequences

CONSTANTS
    Contents,         \* rubric contents
    NoContent,        \* no draft: there is no standard
    Publishable,      \* those that pass validate_standard(for_publish=True)
    Admins,
    Sessions,
    MaxRevision,      \* bound on edits of one standard
    MaxIncarnation    \* bound on standards created one after the other

ASSUME ContentsAssumption ==
    Publishable \subseteq Contents /\ NoContent \notin Contents
ASSUME BoundsAssumption == MaxRevision \in Nat \ {0} /\ MaxIncarnation \in Nat

VARIABLES
    std,          \* the negotiation_standards row of the campaign
    incarnation,  \* id of the newest standard row; ids are never reused
    versions,     \* negotiation_standard_versions in order of insertion
    checked,      \* admins past create_standard's existence check
    view,         \* admin -> the standard it last fetched
    session       \* session -> [pc, pin]

vars == <<std, incarnation, versions, checked, view, session>>

-----------------------------------------------------------------------------
(* Rows *)

Drafts == Contents \cup {NoContent}

Standard == [status : {"none", "draft", "published", "archived"},
             revision : 0..MaxRevision, draft : Drafts,
             current : Nat, seeded : BOOLEAN]

NoStandard == [status |-> "none", revision |-> 0, draft |-> NoContent,
               current |-> 0, seeded |-> FALSE]

NewStandard(c, seeded) ==
    [status |-> "draft", revision |-> 1, draft |-> c, current |-> 0,
     seeded |-> seeded]

Version == [number : Nat, content : Contents]

\* The version of the highest number, 0 when there is none.
LatestId ==
    IF versions = <<>> THEN 0
    ELSE CHOOSE i \in DOMAIN versions :
            \A j \in DOMAIN versions : versions[j].number <= versions[i].number

NumberOf(id) == IF id = 0 THEN 0 ELSE versions[id].number

\* Bug: only the content key is unique.
Insertable_without_number_key(v) ==
    \A i \in DOMAIN versions : versions[i].content # v.content

\* The unique keys (standard, number) and (standard, content hash).
Insertable(v) ==
    \A i \in DOMAIN versions :
        versions[i].number # v.number /\ versions[i].content # v.content

Exists == std.status # "none"
CanEdit == Exists /\ std.revision < MaxRevision
Edited(s) == [s EXCEPT !.revision = @ + 1]

NoView == [incarnation |-> 0, revision |-> 0, draft |-> NoContent]

Init ==
    /\ std = NoStandard
    /\ incarnation = 0
    /\ versions = <<>>
    /\ checked = {}
    /\ view = [a \in Admins |-> NoView]
    /\ session = [s \in Sessions |-> [pc |-> "none", pin |-> 0]]

-----------------------------------------------------------------------------
(* Plausible bugs, one for each property: the runs substitute them. *)

UpdateDraft_keeping_revision(a, c) ==
    /\ CanEdit
    /\ std.status = "draft"
    /\ std.revision = view[a].revision
    /\ std' = [std EXCEPT !.draft = c]
    /\ UNCHANGED <<incarnation, versions, checked, view, session>>

DeleteDraft_with_versions ==
    /\ std.status = "draft"
    /\ std' = NoStandard
    /\ UNCHANGED <<incarnation, versions, checked, view, session>>

CanPublish_unvalidated == std.status \in {"draft", "published"}

-----------------------------------------------------------------------------
(* Administrators *)

\* create_standard, first half: no standard found.
CheckNoStandard(a) ==
    /\ ~Exists
    /\ checked' = checked \cup {a}
    /\ UNCHANGED <<std, incarnation, versions, view, session>>

\* create_standard, second half: the unique campaign key decides a race.
InsertStandard(a, c) ==
    /\ a \in checked
    /\ checked' = checked \ {a}
    /\ \/ /\ ~Exists
          /\ incarnation < MaxIncarnation
          /\ std' = NewStandard(c, FALSE)
          /\ incarnation' = incarnation + 1
       \/ /\ Exists
          /\ UNCHANGED <<std, incarnation>>
    /\ UNCHANGED <<versions, view, session>>

GetStandard(a) ==
    /\ Exists
    /\ view' = [view EXCEPT ![a] = [incarnation |-> incarnation,
                                    revision |-> std.revision,
                                    draft |-> std.draft]]
    /\ UNCHANGED <<std, incarnation, versions, checked, session>>

\* The revision the client fetched must still be the stored one.  c is the
\* stored draft when only the name or the description changes.
UpdateDraft(a, c) ==
    /\ CanEdit
    /\ std.status = "draft"
    /\ std.revision = view[a].revision
    /\ std' = Edited([std EXCEPT !.draft = c])
    /\ UNCHANGED <<incarnation, versions, checked, view, session>>

DeleteDraft ==
    /\ std.status = "draft"
    /\ versions = <<>>
    /\ std' = NoStandard
    /\ UNCHANGED <<incarnation, versions, checked, view, session>>

\* The version publish_standard compares the draft with: the current one, or
\* the latest when none is current.
ComparedId == IF std.current # 0 THEN std.current ELSE LatestId

CanPublish ==
    /\ std.status \in {"draft", "published"}
    /\ std.draft \in Publishable

MatchesCompared == ComparedId # 0 /\ versions[ComparedId].content = std.draft

PointAt(id) ==
    std' = Edited([std EXCEPT !.current = id, !.status = "published"])

\* Publishing unchanged content completes the transition to published.
PublishUnchanged ==
    /\ CanEdit /\ CanPublish
    /\ MatchesCompared
    /\ std.status # "published" \/ std.current # ComparedId
    /\ PointAt(ComparedId)
    /\ UNCHANGED <<incarnation, versions, checked, view, session>>

NextVersionRow ==
    [number |-> NumberOf(ComparedId) + 1, content |-> std.draft]

PublishNew ==
    /\ CanEdit /\ CanPublish
    /\ ~MatchesCompared
    /\ Insertable(NextVersionRow)
    /\ versions' = Append(versions, NextVersionRow)
    /\ PointAt(Len(versions) + 1)
    /\ UNCHANGED <<incarnation, checked, view, session>>

ReopenDraft ==
    /\ CanEdit
    /\ std.status \in {"published", "archived"}
    /\ std' = Edited([std EXCEPT !.status = "draft"])
    /\ UNCHANGED <<incarnation, versions, checked, view, session>>

ArchiveStandard ==
    /\ CanEdit
    /\ std.status # "archived"
    /\ std' = Edited([std EXCEPT !.status = "archived"])
    /\ UNCHANGED <<incarnation, versions, checked, view, session>>

-----------------------------------------------------------------------------
(* The rubric seed flow: one definition, one transaction *)

\* The standard the definition owns: created now, or the one it created
\* before.  A standard of another origin is a conflict.
SeedOwns == ~Exists \/ std.seeded

SeedBase(c) == IF Exists THEN std ELSE NewStandard(c, TRUE)

SeedCreatesStandard ==
    IF Exists THEN UNCHANGED incarnation
    ELSE incarnation < MaxIncarnation /\ incarnation' = incarnation + 1

WithContent(c) == {i \in DOMAIN versions : versions[i].content = c}

SeedVersionRow(c) == [number |-> NumberOf(LatestId) + 1, content |-> c]

\* get_or_create_seed_version reuses by hash or inserts latest + 1; `id` is
\* the version it returns.
SeedVersion(c, id) ==
    \/ /\ id \in WithContent(c)
       /\ UNCHANGED versions
    \/ /\ WithContent(c) = {}
       /\ Insertable(SeedVersionRow(c))
       /\ id = Len(versions) + 1
       /\ versions' = Append(versions, SeedVersionRow(c))

\* publish = false: a version, no pointer; the content need not be
\* publishable.
SeedUnpublished(c) ==
    /\ SeedOwns
    /\ SeedCreatesStandard
    /\ \E id \in 1..Len(versions) + 1 : SeedVersion(c, id)
    /\ std' = SeedBase(c)
    /\ UNCHANGED <<checked, view, session>>

\* publish = true: the pointer moves to the version, unless it is there.
SeedPublished(c) ==
    /\ SeedOwns
    /\ std.status # "archived"
    /\ c \in Publishable
    /\ SeedCreatesStandard
    /\ \E id \in 1..Len(versions) + 1 :
        /\ SeedVersion(c, id)
        /\ IF SeedBase(c).current = id
           THEN std' = SeedBase(c)
           ELSE /\ SeedBase(c).revision < MaxRevision
                /\ std' = Edited([SeedBase(c) EXCEPT !.current = id,
                                                     !.status = "published"])
    /\ UNCHANGED <<checked, view, session>>

-----------------------------------------------------------------------------
(* Training sessions *)

\* create_session resolves the pin and releases its connection ...
ResolveVersion(s) ==
    /\ session[s].pc = "none"
    /\ std.status = "published"
    /\ std.current # 0
    /\ session' = [session EXCEPT ![s] = [pc |-> "waiting",
                                          pin |-> std.current]]
    /\ UNCHANGED <<std, incarnation, versions, checked, view>>

\* ... and stores it when the persona is generated.
InsertSession(s) ==
    /\ session[s].pc = "waiting"
    /\ session' = [session EXCEPT ![s].pc = "created"]
    /\ UNCHANGED <<std, incarnation, versions, checked, view>>

Next ==
    \/ \E a \in Admins :
        \/ CheckNoStandard(a)
        \/ GetStandard(a)
        \/ \E c \in Contents : InsertStandard(a, c) \/ UpdateDraft(a, c)
    \/ DeleteDraft
    \/ PublishUnchanged
    \/ PublishNew
    \/ ReopenDraft
    \/ ArchiveStandard
    \/ \E c \in Contents : SeedUnpublished(c) \/ SeedPublished(c)
    \/ \E s \in Sessions : ResolveVersion(s) \/ InsertSession(s)

Spec == Init /\ [][Next]_vars

-----------------------------------------------------------------------------
(* Properties *)

TypeOK ==
    /\ std \in Standard
    /\ incarnation \in 0..MaxIncarnation
    /\ versions \in Seq(Version)
    /\ checked \subseteq Admins
    /\ view \in [Admins -> [incarnation : 0..MaxIncarnation,
                            revision : 0..MaxRevision, draft : Drafts]]
    /\ session \in [Sessions -> [pc : {"none", "waiting", "created"},
                                 pin : Nat]]

\* Versions are numbered 1, 2, 3 ... in the order they were stored and no
\* content is stored twice, although publish_standard counts from the current
\* version, the seed flow from the latest one, and the pointer may be behind.
HistoryIsDense ==
    /\ \A i \in DOMAIN versions : versions[i].number = i
    /\ \A i, j \in DOMAIN versions :
          versions[i].content = versions[j].content => i = j

\* Every session, and the current pointer new sessions are given, is pinned
\* to a stored version whose content passed publication validation: versions
\* the seed flow stores without that validation are never pinned.
PinsArePublishable ==
    LET Pinnable(id) == /\ id \in DOMAIN versions
                        /\ versions[id].content \in Publishable
    IN  /\ std.current # 0 => Pinnable(std.current)
        /\ std.status = "published" => std.current # 0
        /\ \A s \in Sessions : session[s].pc # "none" => Pinnable(session[s].pin)

\* Optimistic concurrency: a client whose fetched revision is still the
\* stored one has seen the stored draft, so its update loses nobody's edit.
RevisionIdentifiesDraft ==
    \A a \in Admins :
        /\ Exists
        /\ view[a].incarnation = incarnation
        /\ view[a].revision = std.revision
        => view[a].draft = std.draft

\* No writer, the seed flow included, changes a standard without raising its
\* revision, and an edit never lowers it: a stale expected_revision is seen.
EveryEditRaisesRevision ==
    [][Exists /\ Exists' /\ incarnation' = incarnation /\ std' # std
          => std'.revision = std.revision + 1]_vars

-----------------------------------------------------------------------------
(* The inductive invariant *)

\* A view of the standard there is, is a view of its past or present.
ViewsAreOfThePast ==
    \A a \in Admins :
        /\ view[a].incarnation <= incarnation
        /\ Exists /\ view[a].incarnation = incarnation
              => view[a].revision <= std.revision

\* Without a standard there are no versions and nothing is pinned.
NothingOutlivesTheStandard == ~Exists => std = NoStandard /\ versions = <<>>

IInv ==
    /\ TypeOK
    /\ HistoryIsDense
    /\ PinsArePublishable
    /\ RevisionIdentifiesDraft
    /\ ViewsAreOfThePast
    /\ NothingOutlivesTheStandard
=============================================================================
