---------------------------- MODULE ScriptRegistry ----------------------------
(***************************************************************************)
(* Debtor scripts and their immutable published versions.                  *)
(*                                                                         *)
(* Administrators create, update, publish, unpublish, reassign and delete  *)
(* scripts.  None of these requests locks the row: each loads the script,  *)
(* works on its own copy and commits later.  The ORM then writes only the  *)
(* attributes that differ from the copy that was loaded, so what another   *)
(* request committed in between survives where this one changed nothing.   *)
(* Two unique keys stand behind them: one script per scenario, deleted     *)
(* scripts included, and one version per script and number.                *)
(***************************************************************************)
EXTENDS Integers

CONSTANTS
    Scripts,      \* script ids
    Scenarios,
    Contents,     \* script definitions that have the contract's structure
    Valid,        \* those that also pass validate_script
    NoContent,    \* the draft of a script that does not exist
    NoScenario,   \* the scenario of a script that does not exist
    Requests,     \* administrators' requests that run at the same time
    MaxVersion    \* bound on the versions of a script

ASSUME ContentsAssumption == Valid \subseteq Contents /\ NoContent \notin Contents
ASSUME ScenariosAssumption == NoScenario \notin Scenarios
ASSUME BoundAssumption == MaxVersion \in Nat

VARIABLES
    script,      \* table scripts: id -> row
    versions,    \* table script_versions: script id -> set of [number, content]
    req          \* request -> its local state

registryVars == <<script, versions, req>>

-----------------------------------------------------------------------------
(* Rows and local states *)

ScriptRow == [scenario : Scenarios \cup {NoScenario},
              status : {"none", "draft", "published", "unpublished"},
              deleted : BOOLEAN,
              draft : Contents \cup {NoContent},
              current : 0..MaxVersion]        \* version number, 0: none

NoRow == [scenario |-> NoScenario, status |-> "none", deleted |-> FALSE,
          draft |-> NoContent, current |-> 0]

Draft(x, c) == [NoRow EXCEPT !.scenario = x, !.status = "draft", !.draft = c]

ScriptVersion == [number : 1..MaxVersion, content : Contents]

\* `seen` is the copy of the row the request works on.
Request == [pc : {"idle", "loaded", "numbered"}, script : Scripts,
            seen : ScriptRow, number : 0..MaxVersion+1]

Numbers(k) == {v.number : v \in versions[k]}

\* 1 + max(version_number), 1 when there is none.
NextNumber(k) ==
    IF Numbers(k) = {} THEN 1
    ELSE (CHOOSE n \in Numbers(k) : \A m \in Numbers(k) : m <= n) + 1

\* get_script finds it.
Visible(k) == script[k].status # "none" /\ ~script[k].deleted

\* The unique key of scenario_id.
ScenarioFree(x, k) == \A j \in Scripts \ {k} : script[j].scenario # x

\* What the ORM's UPDATE leaves in an attribute stored as `stored` that was
\* loaded as `old` and set to `new`.
Written(stored, old, new) == IF new = old THEN stored ELSE new

\* get_active_published_version: the scripts a new session may be given.
ActiveFor(x) ==
    {k \in Scripts : /\ Visible(k) /\ script[k].scenario = x
                     /\ script[k].status = "published" /\ script[k].current # 0}

Init ==
    /\ script = [k \in Scripts |-> NoRow]
    /\ versions = [k \in Scripts |-> {}]
    /\ \E k \in Scripts :
          req = [r \in Requests |-> [pc |-> "idle", script |-> k,
                                     seen |-> NoRow, number |-> 0]]

-----------------------------------------------------------------------------
(* Parts of the requests *)

\* The request is over, and its copy of the row forgotten.
Finish(r) ==
    req' = [req EXCEPT ![r].pc = "idle", ![r].seen = NoRow, ![r].number = 0]

\* The insert and the update of publish, in one commit.
StoreVersion(r, content, current) ==
    LET k == req[r].script
    IN  /\ versions' = [versions EXCEPT ![k] =
              @ \cup {[number |-> req[r].number, content |-> content]}]
        /\ script' = [script EXCEPT
              ![k].status = Written(@, req[r].seen.status, "published"),
              ![k].current = current]
        /\ Finish(r)

-----------------------------------------------------------------------------
(* Plausible bugs, one for each property *)

\* The number is counted from the pointer the request loaded.
NumberVersion_from_pointer(r) ==
    /\ req[r].pc = "loaded"
    /\ req[r].seen.draft \in Valid
    /\ req' = [req EXCEPT ![r].pc = "numbered",
                          ![r].number = req[r].seen.current + 2]
    /\ UNCHANGED <<script, versions>>

\* No unique key on (script_id, version_number).
CommitVersion_without_key(r) ==
    /\ req[r].pc = "numbered"
    /\ req[r].number \in 1..MaxVersion
    /\ StoreVersion(r, req[r].seen.draft, req[r].number)

\* The row's draft at the time of the commit becomes the version's content.
CommitVersion_of_stored_draft(r) ==
    /\ req[r].pc = "numbered"
    /\ req[r].number \in 1..MaxVersion \ Numbers(req[r].script)
    /\ StoreVersion(r, script[req[r].script].draft, req[r].number)

\* Only the first publish sets current_version_id.
CommitVersion_keeping_pointer(r) ==
    /\ req[r].pc = "numbered"
    /\ req[r].number \in 1..MaxVersion \ Numbers(req[r].script)
    /\ StoreVersion(r, req[r].seen.draft,
                    IF req[r].seen.current = 0 THEN req[r].number
                    ELSE req[r].seen.current)

-----------------------------------------------------------------------------
(* Requests *)

\* create_draft
CreateDraft(k, x, c) ==
    /\ script[k].status = "none"
    /\ ScenarioFree(x, k)
    /\ script' = [script EXCEPT ![k] = Draft(x, c)]
    /\ UNCHANGED <<versions, req>>

\* The first read of every request on an existing script.
LoadScript(r, k) ==
    /\ req[r].pc = "idle"
    /\ Visible(k)
    /\ req' = [req EXCEPT ![r] = [pc |-> "loaded", script |-> k,
                                  seen |-> script[k], number |-> 0]]
    /\ UNCHANGED <<script, versions>>

\* 404, 409, 422, a unique key, a lost connection: nothing is written.
Refuse(r) ==
    /\ req[r].pc # "idle"
    /\ Finish(r)
    /\ UNCHANGED <<script, versions>>

\* A published script stays published: the new draft is layered on top.
UpdateDraft(r, c) ==
    /\ req[r].pc = "loaded"
    /\ script' = [script EXCEPT ![req[r].script].draft =
                     Written(@, req[r].seen.draft, c)]
    /\ Finish(r)
    /\ UNCHANGED versions

Unpublish(r) ==
    /\ req[r].pc = "loaded"
    /\ script' = [script EXCEPT ![req[r].script].status =
                     Written(@, req[r].seen.status, "unpublished")]
    /\ Finish(r)
    /\ UNCHANGED versions

DeleteScript(r) ==
    /\ req[r].pc = "loaded"
    /\ script' = [script EXCEPT ![req[r].script].deleted =
                     Written(@, req[r].seen.deleted, TRUE)]
    /\ Finish(r)
    /\ UNCHANGED versions

\* The endpoint's own conflict check ignores deleted scripts; the key does not.
AssignScript(r, x) ==
    /\ req[r].pc = "loaded"
    /\ ScenarioFree(x, req[r].script)
    /\ script' = [script EXCEPT ![req[r].script].scenario =
                     Written(@, req[r].seen.scenario, x)]
    /\ Finish(r)
    /\ UNCHANGED versions

\* publish, first part: the loaded draft is validated, then the number is
\* read from the table.
NumberVersion(r) ==
    /\ req[r].pc = "loaded"
    /\ req[r].seen.draft \in Valid
    /\ req' = [req EXCEPT ![r].pc = "numbered",
                          ![r].number = NextNumber(req[r].script)]
    /\ UNCHANGED <<script, versions>>

\* publish, second part: insert what was validated, point at it, commit.
CommitVersion(r) ==
    /\ req[r].pc = "numbered"
    /\ req[r].number \in 1..MaxVersion \ Numbers(req[r].script)
    /\ StoreVersion(r, req[r].seen.draft, req[r].number)

Publishing(r) == NumberVersion(r) \/ CommitVersion(r)

Next ==
    \/ \E k \in Scripts, x \in Scenarios, c \in Contents : CreateDraft(k, x, c)
    \/ \E r \in Requests :
        \/ \E k \in Scripts : LoadScript(r, k)
        \/ \E c \in Contents : UpdateDraft(r, c)
        \/ Unpublish(r)
        \/ DeleteScript(r)
        \/ \E x \in Scenarios : AssignScript(r, x)
        \/ Publishing(r)
        \/ Refuse(r)

Spec == Init /\ [][Next]_registryVars

-----------------------------------------------------------------------------
(* Properties *)

TypeOK ==
    /\ script \in [Scripts -> ScriptRow]
    /\ versions \in [Scripts -> SUBSET ScriptVersion]
    /\ req \in [Requests -> Request]

\* The versions of a script are numbered 1, 2, 3 ... and each number names
\* one content, although publish reads the number without a lock.
HistoryIsDense ==
    \A k \in Scripts :
        /\ \E n \in 0..MaxVersion : Numbers(k) = 1..n
        /\ \A v, w \in versions[k] : v.number = w.number => v = w

\* The current version is always the newest one: no overlapping publish moves
\* the pointer back, and a published script always has one.
CurrentIsNewest ==
    \A k \in Scripts :
        /\ script[k].current + 1 = NextNumber(k)
        /\ script[k].status = "published" => script[k].current # 0

\* A new session is given at most one script, and content that passed
\* validate_script, whatever drafts were stored while publish was running.
SessionsGetValidContent ==
    \A x \in Scenarios :
        /\ \A j, k \in ActiveFor(x) : j = k
        /\ \A k \in ActiveFor(x) :
              \E v \in versions[k] : v.number = script[k].current /\ v.content \in Valid

\* What makes them inductive.  The pointer counts the versions; ...
PointerCountsVersions ==
    \A k \in Scripts :
        /\ Numbers(k) = 1..script[k].current
        /\ \A v, w \in versions[k] : v.number = w.number => v = w
        /\ \A v \in versions[k] : v.content \in Valid
        /\ script[k].status = "published" => script[k].current # 0
        /\ script[k].status = "none" => script[k] = NoRow

\* ... a request works on a script that exists, on content that was validated
\* and with a number no larger than the next; ...
RequestsAreOfThePast ==
    \A r \in Requests :
        /\ req[r].pc # "idle" => script[req[r].script].status # "none"
        /\ req[r].pc = "numbered" =>
              /\ req[r].seen.draft \in Valid
              /\ req[r].number \in 1..script[req[r].script].current+1

\* ... and the scenario's key holds for deleted scripts as well.
ScenarioIsKey ==
    \A j, k \in Scripts :
        script[j].scenario = script[k].scenario => j = k \/ script[j].scenario = NoScenario

IInv == TypeOK /\ PointerCountsVersions /\ RequestsAreOfThePast /\ ScenarioIsKey

\* A deleted script stays deleted, although requests that loaded it before
\* still write to its row.
DeletionIsFinal ==
    [][\A k \in Scripts : script[k].deleted => script'[k].deleted]_registryVars

\* publish leaves the script published with the version it created.
PublishTakesEffect ==
    [][\A k \in Scripts : versions'[k] # versions[k] =>
          script'[k].status = "published"]_registryVars
=============================================================================
