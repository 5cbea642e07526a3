------------------------- MODULE ScriptRegistryProofs -------------------------
(***************************************************************************)
(* The versions of any number of scripts, under any number of requests     *)
(* that work on stale copies of their rows.                                *)
(*                                                                         *)
(* The argument: current_version_id is the newest version, so a number     *)
(* that was read before never exceeds the next one; the unique key refuses *)
(* every number that is taken, hence the one that is stored is the next.   *)
(* What is stored was validated when its number was read, and a request    *)
(* keeps its own copy.  No other step touches versions or the pointer, and *)
(* a request only writes the attributes it sets.                           *)
(*                                                                         *)
(* The second part is about uploads on their way to a script.  Every step  *)
(* of theirs is, for the registry, a step of the same shapes, so its       *)
(* invariant holds with them as well; what they add is that a row comes    *)
(* with the end of its upload request, that a removal is on record before  *)
(* the file goes, and that a retry and a rejection exclude each other.     *)
(***************************************************************************)
EXTENDS UploadReview, TLAPS

-----------------------------------------------------------------------------
(* The registry on its own *)

LEMMA NextOfCounted ==
    ASSUME NEW k \in Scripts, NEW n \in Nat, Numbers(k) = 1..n
    PROVE  NextNumber(k) = n + 1
<1>1. CASE n = 0
    BY <1>1 DEF NextNumber
<1>2. CASE n # 0
    <2> DEFINE Highest(i) == \A m \in Numbers(k) : m <= i
               top == CHOOSE i \in Numbers(k) : Highest(i)
    <2>1. n \in Numbers(k) /\ Highest(n)
        BY <1>2
    <2>2. top \in Numbers(k) /\ Highest(top)
        BY <2>1
    <2>3. top = n
        BY <2>1, <2>2
    <2>4. NextNumber(k) = top + 1
        BY <2>1 DEF NextNumber
    <2> QED
        BY <2>3, <2>4
<1> QED
    BY <1>1, <1>2

-----------------------------------------------------------------------------
(* The shapes of the steps *)

KeepsScripts == UNCHANGED <<script, versions>>

CreatesScript ==
    \E k \in Scripts, x \in Scenarios, c \in Contents :
        /\ script[k].status = "none"
        /\ ScenarioFree(x, k)
        /\ script' = [script EXCEPT ![k] = Draft(x, c)]
        /\ UNCHANGED versions

\* An attribute of an existing script is written; pointer and versions stay.
WritesAttribute ==
    \E k \in Scripts, row \in ScriptRow :
        /\ script[k].status # "none"
        /\ script' = [script EXCEPT ![k] = row]
        /\ row.current = script[k].current
        /\ row.status \in {script[k].status, "unpublished"}
        /\ row.scenario = script[k].scenario \/ ScenarioFree(row.scenario, k)
        /\ script[k].deleted => row.deleted
        /\ UNCHANGED versions

StoresVersion ==
    \E k \in Scripts, v \in ScriptVersion, row \in ScriptRow :
        /\ script[k].status # "none"
        /\ v.number = script[k].current + 1
        /\ v.content \in Valid
        /\ versions' = [versions EXCEPT ![k] = @ \cup {v}]
        /\ script' = [script EXCEPT ![k] = row]
        /\ row.current = v.number
        /\ row.status \in {script[k].status, "published"}
        /\ row.scenario = script[k].scenario
        /\ row.deleted = script[k].deleted

ScriptShape == KeepsScripts \/ CreatesScript \/ WritesAttribute \/ StoresVersion

\* A request that is under way has loaded an existing script or numbered what
\* it validated.
RequestShape ==
    \A r \in Requests :
        \/ req'[r] = req[r]
        \/ req'[r].pc = "idle"
        \/ req'[r].pc = "loaded" /\ script[req'[r].script].status # "none"
        \/ /\ req'[r].pc = "numbered"
           /\ req[r].pc # "idle" /\ req'[r].script = req[r].script
           /\ req'[r].seen.draft \in Valid
           /\ req'[r].number = script[req[r].script].current + 1

StepShape == ScriptShape /\ RequestShape /\ req' \in [Requests -> Request]

-----------------------------------------------------------------------------
LEMMA InitialInvariant == Init => IInv
<1> SUFFICES ASSUME Init PROVE IInv
    OBVIOUS
<1> USE BoundAssumption, ContentsAssumption, ScenariosAssumption DEF Init
<1>1. NoRow \in ScriptRow
    BY DEF NoRow, ScriptRow
<1>2. TypeOK
    BY <1>1 DEF TypeOK, Request
<1>3. PointerCountsVersions
    <2> SUFFICES ASSUME NEW k \in Scripts
                 PROVE  /\ Numbers(k) = 1..script[k].current
                        /\ versions[k] = {}
                        /\ script[k] = NoRow /\ NoRow.status = "none"
        BY DEF PointerCountsVersions, NoRow
    <2>1. script[k] = NoRow /\ versions[k] = {}
        OBVIOUS
    <2>2. Numbers(k) = {} /\ NoRow.current = 0
        BY <2>1 DEF Numbers, NoRow
    <2> QED
        BY <2>1, <2>2 DEF NoRow
<1>4. RequestsAreOfThePast
    BY DEF RequestsAreOfThePast
<1>5. ScenarioIsKey
    BY DEF ScenarioIsKey, NoRow
<1> QED
    BY <1>2, <1>3, <1>4, <1>5 DEF IInv

\* What Finish leaves, whatever the action does to the tables.
LEMMA FinishShape ==
    ASSUME TypeOK, NEW r \in Requests, Finish(r)
    PROVE  RequestShape /\ req' \in [Requests -> Request]
<1>1. NoRow \in ScriptRow
    BY BoundAssumption DEF NoRow, ScriptRow
<1>2. [req[r] EXCEPT !.pc = "idle", !.seen = NoRow, !.number = 0] \in Request
    <2>1. req[r] \in Request /\ 0 \in 0..MaxVersion+1
        BY BoundAssumption DEF TypeOK
    <2> QED
        BY <1>1, <2>1 DEF Request
<1>3. req' = [req EXCEPT ![r] = [req[r] EXCEPT !.pc = "idle", !.seen = NoRow,
                                               !.number = 0]]
    BY DEF Finish
<1>4. req' \in [Requests -> Request]
    BY <1>2, <1>3 DEF TypeOK
<1>5. ASSUME NEW q \in Requests
      PROVE  req'[q] = req[q] \/ req'[q].pc = "idle"
    BY <1>3 DEF TypeOK, Request
<1> QED
    BY <1>4, <1>5 DEF RequestShape

\* A request on a script that exists writes one attribute of its row.
LEMMA AttributeShape ==
    ASSUME IInv, NEW r \in Requests, req[r].pc = "loaded",
           NEW row \in ScriptRow,
           script' = [script EXCEPT ![req[r].script] = row],
           row.current = script[req[r].script].current,
           row.status \in {script[req[r].script].status, "unpublished"},
           \/ row.scenario = script[req[r].script].scenario
           \/ ScenarioFree(row.scenario, req[r].script),
           script[req[r].script].deleted => row.deleted,
           UNCHANGED versions, Finish(r)
    PROVE  StepShape
<1>1. req[r].script \in Scripts /\ script[req[r].script].status # "none"
    BY DEF IInv, TypeOK, Request, RequestsAreOfThePast
<1>2. WritesAttribute
    BY <1>1 DEF WritesAttribute
<1> QED
    BY <1>2, FinishShape DEF StepShape, ScriptShape, IInv

LEMMA NextShape == IInv /\ [Next]_registryVars => StepShape
<1> SUFFICES ASSUME IInv, [Next]_registryVars PROVE StepShape
    OBVIOUS
<1> USE BoundAssumption, ContentsAssumption
<1>1. TypeOK
    BY DEF IInv
<1>2. CASE UNCHANGED registryVars
    BY <1>1, <1>2
    DEF registryVars, StepShape, ScriptShape, KeepsScripts, RequestShape, TypeOK
<1>3. ASSUME NEW k \in Scripts, NEW x \in Scenarios, NEW c \in Contents,
             CreateDraft(k, x, c)
      PROVE  StepShape
    BY <1>1, <1>3
    DEF CreateDraft, StepShape, ScriptShape, CreatesScript, RequestShape, TypeOK
<1>4. ASSUME NEW r \in Requests, NEW k \in Scripts, LoadScript(r, k)
      PROVE  StepShape
    <2>1. req' \in [Requests -> Request]
        BY <1>1, <1>4 DEF LoadScript, TypeOK, Request
    <2>2. RequestShape
        BY <1>1, <1>4 DEF LoadScript, RequestShape, Visible, TypeOK
    <2> QED
        BY <1>4, <2>1, <2>2 DEF LoadScript, StepShape, ScriptShape, KeepsScripts
<1>5. ASSUME NEW r \in Requests, Refuse(r)
      PROVE  StepShape
    BY <1>1, <1>5, FinishShape DEF Refuse, StepShape, ScriptShape, KeepsScripts
<1>6. ASSUME NEW r \in Requests, NEW c \in Contents, UpdateDraft(r, c)
      PROVE  StepShape
    <2> DEFINE k == req[r].script
               row == [script[k] EXCEPT !.draft = Written(@, req[r].seen.draft, c)]
    <2>1. k \in Scripts
        BY <1>1 DEF TypeOK, Request
    <2>2. row \in ScriptRow
        BY <1>1, <2>1 DEF TypeOK, ScriptRow, Written
    <2>3. /\ row.current = script[k].current /\ row.status = script[k].status
          /\ row.scenario = script[k].scenario /\ row.deleted = script[k].deleted
        BY <1>1, <2>1 DEF TypeOK, ScriptRow
    <2>4. script' = [script EXCEPT ![k] = row]
        BY <1>6 DEF UpdateDraft
    <2> HIDE DEF row
    <2> QED
        BY <1>6, <2>2, <2>3, <2>4, AttributeShape DEF UpdateDraft
<1>7. ASSUME NEW r \in Requests, Unpublish(r)
      PROVE  StepShape
    <2> DEFINE k == req[r].script
               row == [script[k] EXCEPT
                          !.status = Written(@, req[r].seen.status, "unpublished")]
    <2>1. k \in Scripts
        BY <1>1 DEF TypeOK, Request
    <2>2. row \in ScriptRow
        BY <1>1, <2>1 DEF TypeOK, ScriptRow, Written
    <2>3. /\ row.current = script[k].current
          /\ row.status \in {script[k].status, "unpublished"}
          /\ row.scenario = script[k].scenario /\ row.deleted = script[k].deleted
        BY <1>1, <2>1 DEF TypeOK, ScriptRow, Written
    <2>4. script' = [script EXCEPT ![k] = row]
        BY <1>7 DEF Unpublish
    <2> HIDE DEF row
    <2> QED
        BY <1>7, <2>2, <2>3, <2>4, AttributeShape DEF Unpublish
<1>8. ASSUME NEW r \in Requests, DeleteScript(r)
      PROVE  StepShape
    <2> DEFINE k == req[r].script
               row == [script[k] EXCEPT
                          !.deleted = Written(@, req[r].seen.deleted, TRUE)]
    <2>1. k \in Scripts
        BY <1>1 DEF TypeOK, Request
    <2>2. row \in ScriptRow
        BY <1>1, <2>1 DEF TypeOK, ScriptRow, Written
    <2>3. /\ row.current = script[k].current /\ row.status = script[k].status
          /\ row.scenario = script[k].scenario
          /\ script[k].deleted => row.deleted
        BY <1>1, <2>1 DEF TypeOK, ScriptRow, Written
    <2>4. script' = [script EXCEPT ![k] = row]
        BY <1>8 DEF DeleteScript
    <2> HIDE DEF row
    <2> QED
        BY <1>8, <2>2, <2>3, <2>4, AttributeShape DEF DeleteScript
<1>9. ASSUME NEW r \in Requests, NEW x \in Scenarios, AssignScript(r, x)
      PROVE  StepShape
    <2> DEFINE k == req[r].script
               row == [script[k] EXCEPT
                          !.scenario = Written(@, req[r].seen.scenario, x)]
    <2>1. k \in Scripts
        BY <1>1 DEF TypeOK, Request
    <2>2. row \in ScriptRow
        BY <1>1, <2>1 DEF TypeOK, ScriptRow, Written
    <2>3. /\ row.current = script[k].current /\ row.status = script[k].status
          /\ row.scenario = script[k].scenario \/ row.scenario = x
          /\ row.deleted = script[k].deleted
        BY <1>1, <2>1 DEF TypeOK, ScriptRow, Written
    <2>4. script' = [script EXCEPT ![k] = row] /\ ScenarioFree(x, k)
        BY <1>9 DEF AssignScript
    <2> HIDE DEF row
    <2> QED
        BY <1>9, <2>2, <2>3, <2>4, AttributeShape DEF AssignScript
<1>10. ASSUME NEW r \in Requests, NumberVersion(r)
       PROVE  StepShape
    <2> DEFINE k == req[r].script
    <2>1. k \in Scripts /\ script[k].current \in 0..MaxVersion
        BY <1>1 DEF TypeOK, Request, ScriptRow
    <2>2. NextNumber(k) = script[k].current + 1
        BY <2>1, NextOfCounted DEF IInv, PointerCountsVersions
    <2>3. NextNumber(k) \in 0..MaxVersion+1
        BY <2>1, <2>2
    <2>4. req' = [req EXCEPT ![r] = [req[r] EXCEPT !.pc = "numbered",
                                                   !.number = NextNumber(k)]]
        BY <1>10 DEF NumberVersion
    <2>5. req' \in [Requests -> Request]
        BY <1>1, <2>3, <2>4 DEF TypeOK, Request
    <2>6. RequestShape
        BY <1>1, <1>10, <2>2, <2>4 DEF NumberVersion, RequestShape, TypeOK, Request
    <2> QED
        BY <1>10, <2>5, <2>6
        DEF NumberVersion, StepShape, ScriptShape, KeepsScripts
<1>11. ASSUME NEW r \in Requests, CommitVersion(r)
       PROVE  StepShape
    <2> DEFINE k == req[r].script
               v == [number |-> req[r].number, content |-> req[r].seen.draft]
               row == [script[k] EXCEPT
                          !.status = Written(@, req[r].seen.status, "published"),
                          !.current = req[r].number]
    <2>1. k \in Scripts /\ script[k] \in ScriptRow /\ script[k].status # "none"
        BY <1>1, <1>11
        DEF TypeOK, Request, CommitVersion, IInv, RequestsAreOfThePast
    <2>2. /\ req[r].number \in 1..MaxVersion
          /\ req[r].number = script[k].current + 1
          /\ req[r].seen.draft \in Valid
        <3>1. /\ req[r].number \in 1..MaxVersion
              /\ req[r].number \notin 1..script[k].current
            BY <1>11, <2>1 DEF CommitVersion, IInv, PointerCountsVersions
        <3>2. /\ req[r].number \in 1..script[k].current+1
              /\ req[r].seen.draft \in Valid
            BY <1>11 DEF CommitVersion, IInv, RequestsAreOfThePast
        <3> QED
            BY <2>1, <3>1, <3>2 DEF ScriptRow
    <2>3. v \in ScriptVersion
        BY <2>2 DEF ScriptVersion
    <2>4. row \in ScriptRow
        <3>1. req[r].number \in 0..MaxVersion
            BY <2>2, BoundAssumption
        <3>2. Written(script[k].status, req[r].seen.status, "published")
                 \in {"none", "draft", "published", "unpublished"}
            BY <2>1 DEF Written, ScriptRow
        <3> QED
            BY <2>1, <3>1, <3>2 DEF ScriptRow
    <2>5. /\ row.current = v.number
          /\ row.status \in {script[k].status, "published"}
          /\ row.scenario = script[k].scenario /\ row.deleted = script[k].deleted
        BY <2>1 DEF ScriptRow, Written
    <2>6. /\ versions' = [versions EXCEPT ![k] = @ \cup {v}]
          /\ script' = [script EXCEPT ![k] = row]
          /\ Finish(r)
        BY <1>11 DEF CommitVersion, StoreVersion
    <2>7. v.number = script[k].current + 1 /\ v.content \in Valid
        BY <2>2
    <2> HIDE DEF v, row
    <2>8. StoresVersion
        BY <2>1, <2>3, <2>4, <2>5, <2>6, <2>7 DEF StoresVersion
    <2> QED
        BY <1>1, <2>6, <2>8, FinishShape DEF StepShape, ScriptShape
<1> QED
    BY <1>2, <1>3, <1>4, <1>5, <1>6, <1>7, <1>8, <1>9, <1>10, <1>11
    DEF Next, Publishing

-----------------------------------------------------------------------------
(* The invariant *)

LEMMA TypeStep == IInv /\ StepShape => TypeOK'
<1> SUFFICES ASSUME IInv, StepShape PROVE TypeOK'
    OBVIOUS
<1>1. TypeOK
    BY DEF IInv
<1>2. CASE KeepsScripts
    BY <1>1, <1>2 DEF KeepsScripts, TypeOK, StepShape
<1>3. CASE CreatesScript
    <2>1. ASSUME NEW x \in Scenarios, NEW c \in Contents
          PROVE  Draft(x, c) \in ScriptRow
        <3>1. NoRow \in ScriptRow
            BY BoundAssumption DEF NoRow, ScriptRow
        <3> QED
            BY <3>1 DEF Draft, ScriptRow
    <2> QED
        BY <1>1, <1>3, <2>1 DEF CreatesScript, TypeOK, StepShape
<1>4. CASE WritesAttribute
    BY <1>1, <1>4 DEF WritesAttribute, TypeOK, StepShape
<1>5. CASE StoresVersion
    BY <1>1, <1>5 DEF StoresVersion, TypeOK, StepShape
<1> QED
    BY <1>2, <1>3, <1>4, <1>5 DEF StepShape, ScriptShape

LEMMA PointerStep == IInv /\ StepShape => PointerCountsVersions'
<1> SUFFICES ASSUME IInv, StepShape PROVE PointerCountsVersions'
    OBVIOUS
<1>1. TypeOK /\ PointerCountsVersions
    BY DEF IInv
<1>2. CASE KeepsScripts
    BY <1>1, <1>2 DEF KeepsScripts, PointerCountsVersions, Numbers
<1>3. CASE CreatesScript
    <2>1. PICK k \in Scripts, x \in Scenarios, c \in Contents :
             /\ script[k].status = "none"
             /\ script' = [script EXCEPT ![k] = Draft(x, c)]
             /\ UNCHANGED versions
        BY <1>3 DEF CreatesScript
    <2>2. /\ script'[k].current = script[k].current
          /\ script'[k].status = "draft"
          /\ \A j \in Scripts \ {k} : script'[j] = script[j]
        BY <1>1, <2>1 DEF TypeOK, PointerCountsVersions, Draft, NoRow
    <2> QED
        BY <1>1, <2>1, <2>2 DEF PointerCountsVersions, Numbers
<1>4. CASE WritesAttribute
    <2>1. PICK k \in Scripts, row \in ScriptRow :
             /\ script[k].status # "none"
             /\ script' = [script EXCEPT ![k] = row]
             /\ row.current = script[k].current
             /\ row.status \in {script[k].status, "unpublished"}
             /\ UNCHANGED versions
        BY <1>4 DEF WritesAttribute
    <2>2. /\ script'[k] = row
          /\ \A j \in Scripts \ {k} : script'[j] = script[j]
        BY <1>1, <2>1 DEF TypeOK
    <2> QED
        BY <1>1, <2>1, <2>2 DEF PointerCountsVersions, Numbers
<1>5. CASE StoresVersion
    <2>1. PICK k \in Scripts, v \in ScriptVersion, row \in ScriptRow :
             /\ script[k].status # "none"
             /\ v.number = script[k].current + 1
             /\ v.content \in Valid
             /\ versions' = [versions EXCEPT ![k] = @ \cup {v}]
             /\ script' = [script EXCEPT ![k] = row]
             /\ row.current = v.number
             /\ row.status \in {script[k].status, "published"}
        BY <1>5 DEF StoresVersion
    <2>2. /\ script'[k] = row
          /\ versions'[k] = versions[k] \cup {v}
          /\ \A j \in Scripts \ {k} :
                script'[j] = script[j] /\ versions'[j] = versions[j]
          /\ script[k].current \in Nat
        BY <1>1, <2>1, BoundAssumption DEF TypeOK, ScriptRow
    <2>3. /\ Numbers(k) = 1..script[k].current
          /\ \A w \in versions[k] : w.number \in 1..script[k].current
        BY <1>1 DEF PointerCountsVersions, Numbers
    <2>4. Numbers(k)' = 1..script'[k].current
        <3>1. Numbers(k)' = Numbers(k) \cup {v.number}
            BY <2>2 DEF Numbers
        <3> QED
            BY <2>1, <2>2, <2>3, <3>1
    <2>5. \A w, z \in versions'[k] : w.number = z.number => w = z
        <3>1. \A w \in versions[k] : w.number # v.number
            BY <2>1, <2>2, <2>3
        <3> QED
            BY <1>1, <2>2, <3>1 DEF PointerCountsVersions
    <2>6. \A w \in versions'[k] : w.content \in Valid
        BY <1>1, <2>1, <2>2 DEF PointerCountsVersions
    <2>7. script'[k].current # 0 /\ script'[k].status # "none"
        BY <2>1, <2>2
    <2> QED
        BY <1>1, <2>2, <2>4, <2>5, <2>6, <2>7 DEF PointerCountsVersions, Numbers
<1> QED
    BY <1>2, <1>3, <1>4, <1>5 DEF StepShape, ScriptShape

\* Scripts once created exist for ever and their pointers do not move back.
LEMMA ScriptsOnlyGrow ==
    ASSUME IInv, StepShape, NEW k \in Scripts
    PROVE  /\ script[k].status # "none" => script'[k].status # "none"
           /\ script[k].current <= script'[k].current
<1>1. TypeOK /\ PointerCountsVersions
    BY DEF IInv
<1>2. script[k].current \in Nat
    BY <1>1, BoundAssumption DEF TypeOK, ScriptRow
<1>3. CASE KeepsScripts
    BY <1>2, <1>3 DEF KeepsScripts
<1>4. CASE CreatesScript
    BY <1>1, <1>2, <1>4
    DEF CreatesScript, TypeOK, PointerCountsVersions, Draft, NoRow
<1>5. CASE WritesAttribute
    BY <1>1, <1>2, <1>5 DEF WritesAttribute, TypeOK
<1>6. CASE StoresVersion
    BY <1>1, <1>2, <1>6 DEF StoresVersion, TypeOK
<1> QED
    BY <1>3, <1>4, <1>5, <1>6 DEF StepShape, ScriptShape

LEMMA RequestsStep == IInv /\ StepShape => RequestsAreOfThePast'
<1> SUFFICES ASSUME IInv, StepShape, NEW r \in Requests
             PROVE  /\ req'[r].pc # "idle" => script'[req'[r].script].status # "none"
                    /\ req'[r].pc = "numbered" =>
                          /\ req'[r].seen.draft \in Valid
                          /\ req'[r].number \in 1..script'[req'[r].script].current+1
    BY DEF RequestsAreOfThePast
<1> DEFINE k == req[r].script
           j == req'[r].script
<1>1. /\ k \in Scripts /\ j \in Scripts
      /\ script[k].current \in Nat /\ script'[k].current \in Nat
    BY TypeStep, BoundAssumption DEF IInv, TypeOK, StepShape, Request, ScriptRow
<1>2. /\ script[k].status # "none" => script'[k].status # "none"
      /\ script[j].status # "none" => script'[j].status # "none"
      /\ script[k].current <= script'[k].current
    BY <1>1, ScriptsOnlyGrow
<1>3. /\ req[r].pc # "idle" => script[k].status # "none"
      /\ req[r].pc = "numbered" =>
            /\ req[r].seen.draft \in Valid
            /\ req[r].number \in 1..script[k].current+1
    BY DEF IInv, RequestsAreOfThePast
<1>4. CASE req'[r] = req[r]
    BY <1>1, <1>2, <1>3, <1>4
<1>5. CASE req'[r].pc = "idle"
    BY <1>5
<1>6. CASE req'[r].pc = "loaded" /\ script[j].status # "none"
    BY <1>2, <1>6
<1>7. CASE /\ req'[r].pc = "numbered" /\ req[r].pc # "idle" /\ j = k
           /\ req'[r].seen.draft \in Valid
           /\ req'[r].number = script[k].current + 1
    BY <1>1, <1>2, <1>3, <1>7
<1> QED
    BY <1>4, <1>5, <1>6, <1>7 DEF StepShape, RequestShape

LEMMA KeyStep == IInv /\ StepShape => ScenarioIsKey'
<1> SUFFICES ASSUME IInv, StepShape PROVE ScenarioIsKey'
    OBVIOUS
<1>1. TypeOK /\ ScenarioIsKey
    BY DEF IInv
<1>2. CASE KeepsScripts
    BY <1>1, <1>2 DEF KeepsScripts, ScenarioIsKey
\* The row of one script changes, to a scenario that it had or that is free.
<1>3. ASSUME NEW k \in Scripts, NEW row,
             script' = [script EXCEPT ![k] = row],
             row.scenario = script[k].scenario \/ ScenarioFree(row.scenario, k)
      PROVE  ScenarioIsKey'
    <2>1. script'[k] = row /\ \A j \in Scripts \ {k} : script'[j] = script[j]
        BY <1>1, <1>3 DEF TypeOK
    <2>2. ASSUME NEW i \in Scripts, NEW j \in Scripts, i # j,
                 script'[i].scenario = script'[j].scenario
          PROVE  script'[i].scenario = NoScenario
        <3>1. CASE i = k
            BY <1>1, <1>3, <2>1, <2>2, <3>1 DEF ScenarioIsKey, ScenarioFree
        <3>2. CASE j = k
            BY <1>1, <1>3, <2>1, <2>2, <3>2 DEF ScenarioIsKey, ScenarioFree
        <3>3. CASE i # k /\ j # k
            BY <1>1, <2>1, <2>2, <3>3 DEF ScenarioIsKey
        <3> QED
            BY <3>1, <3>2, <3>3
    <2> QED
        BY <2>2 DEF ScenarioIsKey
<1>4. CASE CreatesScript
    BY <1>3, <1>4 DEF CreatesScript, Draft, NoRow
<1>5. CASE WritesAttribute
    BY <1>3, <1>5 DEF WritesAttribute
<1>6. CASE StoresVersion
    BY <1>3, <1>6 DEF StoresVersion
<1> QED
    BY <1>2, <1>4, <1>5, <1>6 DEF StepShape, ScriptShape

LEMMA InvariantStep == IInv /\ [Next]_registryVars => IInv'
BY NextShape, TypeStep, PointerStep, RequestsStep, KeyStep DEF IInv

-----------------------------------------------------------------------------
(* The theorems *)

\* The registry's tables and requests keep their invariant.
THEOREM Invariance == Spec => []IInv
<1> QED
    BY InitialInvariant, InvariantStep, PTL DEF Spec

\* publish numbers a script's versions 1, 2, 3 ..., each once, although it
\* reads the number without a lock.
THEOREM DenseHistory == Spec => []HistoryIsDense
<1>1. IInv => HistoryIsDense
    BY DEF IInv, PointerCountsVersions, HistoryIsDense, TypeOK, ScriptRow
<1> QED
    BY <1>1, Invariance, PTL

\* current_version_id names the newest version, and a published script has one.
THEOREM NewestIsCurrent == Spec => []CurrentIsNewest
<1>1. IInv => CurrentIsNewest
    <2> SUFFICES ASSUME IInv, NEW k \in Scripts
                 PROVE  /\ script[k].current + 1 = NextNumber(k)
                        /\ script[k].status = "published" => script[k].current # 0
        BY DEF CurrentIsNewest
    <2>1. script[k].current \in Nat
        BY BoundAssumption DEF IInv, TypeOK, ScriptRow
    <2> QED
        BY <2>1, NextOfCounted DEF IInv, PointerCountsVersions
<1> QED
    BY <1>1, Invariance, PTL

LEMMA InvariantGivesValidContent == IInv => SessionsGetValidContent
<1> SUFFICES ASSUME IInv, NEW x \in Scenarios
             PROVE  /\ \A j, k \in ActiveFor(x) : j = k
                    /\ \A k \in ActiveFor(x) :
                          \E v \in versions[k] :
                             v.number = script[k].current /\ v.content \in Valid
    BY DEF SessionsGetValidContent
<1>1. \A j, k \in ActiveFor(x) : j = k
    BY ScenariosAssumption DEF ActiveFor, IInv, ScenarioIsKey
<1>2. ASSUME NEW k \in ActiveFor(x)
      PROVE  \E v \in versions[k] :
                v.number = script[k].current /\ v.content \in Valid
    <2>1. k \in Scripts /\ script[k].current # 0 /\ script[k].current \in Nat
        BY <1>2, BoundAssumption DEF ActiveFor, IInv, TypeOK, ScriptRow
    <2>2. script[k].current \in Numbers(k)
        BY <2>1 DEF IInv, PointerCountsVersions
    <2> QED
        BY <2>1, <2>2 DEF Numbers, IInv, PointerCountsVersions
<1> QED
    BY <1>1, <1>2

\* get_active_published_version finds at most one script for a scenario, and a
\* version that passed validate_script.
THEOREM ValidContent == Spec => []SessionsGetValidContent
<1> QED
    BY InvariantGivesValidContent, Invariance, PTL

\* delete_script is final whatever requests loaded the script before it.
THEOREM FinalDeletion == Spec => DeletionIsFinal
<1>1. ASSUME IInv, [Next]_registryVars
      PROVE  [\A k \in Scripts : script[k].deleted => script'[k].deleted]_registryVars
    <2> SUFFICES ASSUME NEW k \in Scripts, script[k].deleted
                 PROVE  script'[k].deleted
        OBVIOUS
    <2>1. ScriptShape /\ TypeOK /\ PointerCountsVersions
        BY <1>1, NextShape DEF StepShape, IInv
    <2>2. CASE KeepsScripts
        BY <2>2 DEF KeepsScripts
    <2>3. CASE CreatesScript
        BY <2>1, <2>3 DEF CreatesScript, TypeOK, PointerCountsVersions, NoRow
    <2>4. CASE WritesAttribute
        BY <2>1, <2>4 DEF WritesAttribute, TypeOK
    <2>5. CASE StoresVersion
        BY <2>1, <2>5 DEF StoresVersion, TypeOK
    <2> QED
        BY <2>1, <2>2, <2>3, <2>4, <2>5 DEF ScriptShape
<1> QED
    BY <1>1, Invariance, PTL DEF Spec, DeletionIsFinal

-----------------------------------------------------------------------------
(* Uploads: their steps are steps of the registry *)

LEMMA QuietShape ==
    ASSUME TypeOK, UNCHANGED registryVars
    PROVE  StepShape
BY DEF registryVars, StepShape, ScriptShape, KeepsScripts, RequestShape, TypeOK

LEMMA DraftTyped ==
    ASSUME NEW x \in Scenarios, NEW c \in Contents
    PROVE  Draft(x, c) \in ScriptRow
<1>1. NoRow \in ScriptRow
    BY BoundAssumption DEF NoRow, ScriptRow
<1> QED
    BY <1>1 DEF Draft, ScriptRow

LEMMA UploadTyped ==
    ASSUME UploadTypeOK, NEW u \in Uploads
    PROVE  /\ upload[u].status \in {"none", "completed", "failed", "rejected"}
           /\ upload[u].scan \in {"clean", "infected", "error"}
           /\ upload[u].extraction \in {"completed", "failed"}
           /\ upload[u].scenario \in Scenarios \cup {NoScenario}
           /\ upload[u].script \in Scripts \cup {NoScript}
           /\ upload[u].purged \in BOOLEAN
BY DEF UploadTypeOK, UploadRow

LEMMA ConvertShape ==
    ASSUME UploadIInv, NEW u \in Uploads, NEW k \in Scripts, NEW c \in Valid,
           Convert(u, k, c)
    PROVE  StepShape
<1>1. PICK x : x = upload[u].scenario
    OBVIOUS
<1>2. x \in Scenarios /\ c \in Contents
    BY <1>1, UploadTyped, ContentsAssumption DEF Convert, UploadIInv
<1>3. /\ script[k].status = "none" /\ ScenarioFree(x, k)
      /\ script' = [script EXCEPT ![k] = Draft(x, c)]
      /\ UNCHANGED <<versions, req>>
    BY <1>1 DEF Convert
<1>4. CreatesScript
    BY <1>2, <1>3 DEF CreatesScript
<1> QED
    BY <1>3, <1>4 DEF StepShape, ScriptShape, RequestShape, UploadIInv, IInv, TypeOK

LEMMA EditShape ==
    ASSUME UploadIInv, NEW u \in Uploads, NEW c \in Valid, EditReview(u, c)
    PROVE  StepShape
<1>1. PICK k : k = upload[u].script
    OBVIOUS
<1>2. k \in Scripts /\ script[k].status = "draft" /\ c \in Contents
    BY <1>1, UploadTyped, ContentsAssumption
    DEF EditReview, ReadyForReview, ReviewIs, Reviewable, Linked, UploadIInv
<1>3. script \in [Scripts -> ScriptRow]
    BY DEF UploadIInv, IInv, TypeOK
<1> DEFINE row == [script[k] EXCEPT !.draft = c]
<1>4. /\ row \in ScriptRow
      /\ row.current = script[k].current /\ row.status = script[k].status
      /\ row.scenario = script[k].scenario /\ row.deleted = script[k].deleted
    BY <1>2, <1>3 DEF ScriptRow
<1>5. script' = [script EXCEPT ![k] = row] /\ UNCHANGED <<versions, req>>
    BY <1>1 DEF EditReview
<1> HIDE DEF row
<1>6. WritesAttribute
    BY <1>2, <1>4, <1>5 DEF WritesAttribute
<1> QED
    BY <1>5, <1>6 DEF StepShape, ScriptShape, RequestShape, UploadIInv, IInv, TypeOK

\* A publication through a review loads the script its upload is linked to.
LEMMA PublishShape ==
    ASSUME UploadIInv, NEW r \in Requests, PublishNext(r)
    PROVE  StepShape
<1>1. IInv /\ TypeOK
    BY DEF UploadIInv, IInv
<1>2. CASE PublishReadsScript(r)
    <2>1. PICK k : k = upload[via[r]].script
        OBVIOUS
    <2>2. via[r] \in Uploads /\ Linked(via[r]) /\ UploadTypeOK
        BY <1>2 DEF PublishReadsScript, UploadIInv, UploadTypeOK, PublishersAreLinked
    <2>3. k \in Scripts
        BY <2>1, <2>2, UploadTyped DEF Linked
    <2>4. LoadScript(r, k)
        BY <1>2, <2>1 DEF PublishReadsScript
    <2> QED
        BY <1>1, <2>3, <2>4, NextShape DEF Next
<1>3. CASE AbandonPublish(r)
    BY <1>1, <1>3, QuietShape DEF AbandonPublish
<1>4. CASE PublishNumbers(r) \/ PublishCommits(r) \/ PublishRefused(r)
    <2>1. Next
        BY <1>4 DEF PublishNumbers, PublishCommits, PublishRefused, Next, Publishing
    <2> QED
        BY <1>1, <2>1, NextShape
<1> QED
    BY <1>2, <1>3, <1>4 DEF PublishNext

LEMMA UploadShape == UploadIInv /\ [UploadNext]_vars => StepShape
<1> SUFFICES ASSUME UploadIInv, [UploadNext]_vars PROVE StepShape
    OBVIOUS
<1>1. IInv /\ TypeOK
    BY DEF UploadIInv, IInv
<1>2. CASE UNCHANGED vars
    <2>1. UNCHANGED registryVars
        BY <1>2 DEF vars
    <2> QED
        BY <1>1, <2>1, QuietShape
<1>3. ASSUME NEW u \in Uploads, IntakeNext(u) PROVE StepShape
    <2>1. UNCHANGED registryVars
        BY <1>3 DEF IntakeNext, StoreFile, RefuseFile, DropUpload, AcceptUpload, FailScan,
                    EndIntake
    <2> QED
        BY <1>1, <2>1, QuietShape
<1>4. ASSUME NEW u \in Uploads, ReviewNext(u) PROVE StepShape
    <2>1. CASE \E k \in Scripts, c \in Valid : Convert(u, k, c)
        BY <2>1, ConvertShape
    <2>2. CASE \E c \in Valid : EditReview(u, c)
        BY <2>2, EditShape
    <2>3. CASE \/ StartRetry(u) \/ SaveExtraction(u) \/ FailExtraction(u) \/ LoseRetry(u)
               \/ RejectReview(u) \/ MarkPurged(u)
               \/ \E r \in Requests : PublishReadsUpload(r, u)
        <3>1. UNCHANGED registryVars
            BY <2>3 DEF StartRetry, SaveExtraction, FailExtraction, LoseRetry, EndRetry,
                        RejectReview, MarkPurged, PublishReadsUpload
        <3> QED
            BY <1>1, <3>1, QuietShape
    <2> QED
        BY <1>4, <2>1, <2>2, <2>3 DEF ReviewNext
<1>5. ASSUME NEW r \in Requests, PublishNext(r) PROVE StepShape
    BY <1>5, PublishShape
<1>6. CASE RegistryNext
    <2>1. Next
        BY <1>6 DEF RegistryNext, Next
    <2> QED
        BY <1>1, <2>1, NextShape
<1>7. CASE EndPurge
    <2>1. UNCHANGED registryVars
        BY <1>7 DEF EndPurge
    <2> QED
        BY <1>1, <2>1, QuietShape
<1> QED
    BY <1>2, <1>3, <1>4, <1>5, <1>6, <1>7 DEF UploadNext

LEMMA RegistryKept == UploadIInv /\ [UploadNext]_vars => IInv'
BY UploadShape, TypeStep, PointerStep, RequestsStep, KeyStep DEF IInv, UploadIInv

-----------------------------------------------------------------------------
(* Uploads: their invariant *)

\* A step that concerns the upload u.
LEMMA RowMoves ==
    ASSUME UploadIInv, IInv', UploadTypeOK', NEW u \in Uploads,
           \A w \in Uploads \ {u} :
               /\ upload'[w] = upload[w] /\ intake'[w] = intake[w]
               /\ w \in files' <=> w \in files
               /\ w \in retrying' <=> w \in retrying,
           intake'[u] # "over" => upload'[u].status = "none" /\ ~Linked(u)',
           intake'[u] = "processing" => u \in files',
           u \in retrying' => upload'[u].status \in {"completed", "failed"},
           upload'[u].status # "none" /\ upload'[u].scan # "clean"
               => u \notin files' /\ ~Linked(u)',
           upload'[u].status \in {"completed", "failed"} /\ u \notin files'
               => upload'[u].purged,
           Linked(u) => Linked(u)',
           cleaning' \in {NoUpload, cleaning, u},
           cleaning' = u => /\ intake'[u] = "over"
                            /\ upload'[u].status = "none" \/ upload'[u].purged,
           \A r \in Requests : \/ via'[r] = via[r] \/ via'[r] = NoUpload
                               \/ via'[r] \in Uploads /\ Linked(via'[r])
    PROVE  UploadIInv'
<1> USE DEF UploadIInv
<1>1. \A w \in Uploads : Linked(w) => Linked(w)'
    BY DEF Linked
<1>2. IntakeComesFirst'
    BY DEF IntakeComesFirst, Linked
<1>3. PurgeIsRecorded'
    <2> SUFFICES ASSUME cleaning' # NoUpload, cleaning' # u
                 PROVE  /\ intake'[cleaning'] = "over"
                        /\ \/ upload'[cleaning'].status = "none"
                           \/ upload'[cleaning'].purged
        BY DEF PurgeIsRecorded
    <2>1. cleaning' = cleaning /\ cleaning \in Uploads \ {u}
        BY DEF UploadTypeOK
    <2> QED
        BY <2>1 DEF PurgeIsRecorded
<1>4. RetriesAreOpen'
    BY DEF RetriesAreOpen, UploadTypeOK
<1>5. PublishersAreLinked'
    <2> SUFFICES ASSUME NEW r \in Requests, via'[r] # NoUpload
                 PROVE  upload'[via'[r]].script # NoScript
        BY DEF PublishersAreLinked, Linked
    <2>1. via'[r] \in Uploads /\ Linked(via'[r])
        BY DEF UploadTypeOK, PublishersAreLinked
    <2>2. PICK w \in Uploads : w = via'[r]
        BY <2>1
    <2>3. upload'[w].script # NoScript
        BY <1>1, <2>1, <2>2 DEF Linked
    <2> QED
        BY <2>2, <2>3 DEF Linked
<1>6. UnsafeIsDropped'
    BY DEF UnsafeIsDropped, Linked
<1>7. SourceLossIsRecorded'
    BY DEF SourceLossIsRecorded
<1> QED
    BY <1>2, <1>3, <1>4, <1>5, <1>6, <1>7

\* A step that leaves uploads, files and tasks on them alone.
LEMMA UploadsRest ==
    ASSUME UploadIInv, IInv', UNCHANGED uploadVars,
           via' \in [Requests -> Uploads \cup {NoUpload}],
           \A r \in Requests : \/ via'[r] = via[r] \/ via'[r] = NoUpload
                               \/ via'[r] \in Uploads /\ Linked(via'[r])
    PROVE  UploadIInv'
<1> USE DEF UploadIInv, uploadVars
<1>1. UploadTypeOK'
    BY DEF UploadTypeOK, IInv
<1>2. IntakeComesFirst' /\ PurgeIsRecorded' /\ RetriesAreOpen'
    BY DEF IntakeComesFirst, PurgeIsRecorded, RetriesAreOpen, Linked
<1>3. PublishersAreLinked'
    BY DEF PublishersAreLinked, Linked
<1>4. UnsafeIsDropped' /\ SourceLossIsRecorded'
    BY DEF UnsafeIsDropped, SourceLossIsRecorded, Linked
<1> QED
    BY <1>1, <1>2, <1>3, <1>4

\* What the invariant says of one upload.
LEMMA OneUpload ==
    ASSUME UploadIInv, NEW u \in Uploads
    PROVE  /\ upload \in [Uploads -> UploadRow] /\ upload[u] \in UploadRow
           /\ intake \in [Uploads -> {"new", "processing", "over"}]
           /\ files \subseteq Uploads /\ retrying \subseteq Uploads
           /\ cleaning \in Uploads \cup {NoUpload}
           /\ via \in [Requests -> Uploads \cup {NoUpload}]
           /\ intake[u] # "over" => upload[u].status = "none" /\ ~Linked(u)
           /\ intake[u] = "processing" => u \in files
           /\ u \in retrying => upload[u].status \in {"completed", "failed"}
           /\ upload[u].status # "none" /\ upload[u].scan # "clean"
                  => u \notin files /\ ~Linked(u)
           /\ upload[u].status \in {"completed", "failed"} /\ u \notin files
                  => upload[u].purged
           /\ cleaning = u => /\ intake[u] = "over"
                              /\ upload[u].status = "none" \/ upload[u].purged
<1>1. upload \in [Uploads -> UploadRow] /\ upload[u] \in UploadRow
    BY DEF UploadIInv, UploadTypeOK
<1>2. /\ intake \in [Uploads -> {"new", "processing", "over"}]
      /\ files \subseteq Uploads /\ retrying \subseteq Uploads
      /\ cleaning \in Uploads \cup {NoUpload}
      /\ via \in [Requests -> Uploads \cup {NoUpload}]
    BY DEF UploadIInv, UploadTypeOK
<1>3. /\ intake[u] # "over" => upload[u].status = "none" /\ ~Linked(u)
      /\ intake[u] = "processing" => u \in files
    BY DEF UploadIInv, IntakeComesFirst
<1>4. u \in retrying => upload[u].status \in {"completed", "failed"}
    BY DEF UploadIInv, RetriesAreOpen
<1>5. upload[u].status # "none" /\ upload[u].scan # "clean" => u \notin files /\ ~Linked(u)
    BY DEF UploadIInv, UnsafeIsDropped
<1>6. upload[u].status \in {"completed", "failed"} /\ u \notin files => upload[u].purged
    BY DEF UploadIInv, SourceLossIsRecorded
<1>7. cleaning = u => intake[u] = "over" /\ (upload[u].status = "none" \/ upload[u].purged)
    BY UploadsAssumption DEF UploadIInv, PurgeIsRecorded
<1> QED
    BY <1>1, <1>2, <1>3, <1>4, <1>5, <1>6, <1>7

\* The rows an upload request commits.
LEMMA IntakeRows ==
    ASSUME NEW x \in Scenarios \cup {NoScenario}, NEW outcome \in {"infected", "error"}
    PROVE  LET accepted == [NoUploadRow EXCEPT !.status = "completed", !.scan = "clean",
                                               !.extraction = "completed", !.scenario = x]
               failed == [NoUploadRow EXCEPT !.status = "failed", !.scan = outcome,
                                             !.scenario = x, !.purged = TRUE]
           IN  /\ accepted \in UploadRow /\ accepted.status = "completed"
               /\ accepted.scan = "clean"
               /\ failed \in UploadRow /\ failed.status = "failed" /\ failed.purged
               /\ failed.script = NoScript
BY DEF NoUploadRow, UploadRow

LEMMA IntakeStep ==
    ASSUME UploadIInv, IInv', NEW u \in Uploads, IntakeNext(u)
    PROVE  UploadIInv'
<1>1. /\ upload \in [Uploads -> UploadRow]
      /\ intake \in [Uploads -> {"new", "processing", "over"}]
      /\ files \subseteq Uploads /\ retrying \subseteq Uploads
      /\ cleaning \in Uploads \cup {NoUpload}
      /\ via \in [Requests -> Uploads \cup {NoUpload}]
      /\ TypeOK'
    BY OneUpload DEF IInv
<1>2. CASE StoreFile(u)
    <2>1. /\ intake[u] = "new" /\ intake' = [intake EXCEPT ![u] = "processing"]
          /\ files' = files \cup {u} /\ UNCHANGED <<upload, retrying, cleaning, via>>
        BY <1>2 DEF StoreFile
    <2>2. UploadTypeOK'
        BY <1>1, <2>1 DEF UploadTypeOK
    <2>3. upload[u].status = "none" /\ ~Linked(u) /\ u \notin retrying /\ cleaning # u
        BY <2>1, OneUpload
    <2> QED
        BY <1>1, <2>1, <2>2, <2>3, RowMoves DEF Linked
<1>3. ASSUME EndIntake(u), upload' = upload, files' \in {files, files \ {u}}
      PROVE  UploadIInv'
    <2>1. /\ intake[u] = "processing" /\ intake' = [intake EXCEPT ![u] = "over"]
          /\ UNCHANGED <<retrying, cleaning, via>>
        BY <1>3 DEF EndIntake
    <2>2. UploadTypeOK'
        BY <1>1, <1>3, <2>1 DEF UploadTypeOK
    <2>3. upload[u].status = "none" /\ u \notin retrying /\ cleaning # u
        BY <2>1, OneUpload
    <2> QED
        BY <1>1, <1>3, <2>1, <2>2, <2>3, RowMoves DEF Linked
<1>4. ASSUME EndIntake(u), NEW row \in UploadRow, upload' = [upload EXCEPT ![u] = row],
             \/ row.status = "completed" /\ row.scan = "clean" /\ files' = files
             \/ /\ row.status = "failed" /\ row.script = NoScript /\ row.purged
                /\ files' = files \ {u},
             row.status # "none"
      PROVE  UploadIInv'
    <2>1. /\ intake[u] = "processing" /\ intake' = [intake EXCEPT ![u] = "over"]
          /\ UNCHANGED <<retrying, cleaning, via>>
        BY <1>4 DEF EndIntake
    <2>2. UploadTypeOK'
        BY <1>1, <1>4, <2>1 DEF UploadTypeOK
    <2>3. u \notin retrying /\ cleaning # u /\ u \in files /\ ~Linked(u)
        BY <2>1, OneUpload
    <2> QED
        BY <1>1, <1>4, <2>1, <2>2, <2>3, RowMoves DEF Linked
<1>5. CASE RefuseFile(u) \/ DropUpload(u)
    BY <1>3, <1>5 DEF RefuseFile, DropUpload
<1>6. ASSUME NEW x \in Scenarios \cup {NoScenario}, AcceptUpload(u, x)
      PROVE  UploadIInv'
    BY <1>4, <1>6, IntakeRows DEF AcceptUpload
<1>7. ASSUME NEW x \in Scenarios \cup {NoScenario}, NEW outcome \in {"infected", "error"},
             FailScan(u, outcome, x)
      PROVE  UploadIInv'
    <2>1. PICK row : row = [NoUploadRow EXCEPT !.status = "failed", !.scan = outcome,
                                               !.scenario = x, !.purged = TRUE]
        OBVIOUS
    <2>2. /\ row \in UploadRow /\ row.status = "failed" /\ row.purged
          /\ row.script = NoScript
        BY <1>7, <2>1, IntakeRows
    <2>3. /\ EndIntake(u) /\ files' = files \ {u}
          /\ upload' = upload \/ upload' = [upload EXCEPT ![u] = row]
        BY <1>7, <2>1 DEF FailScan
    <2> QED
        BY <1>3, <1>4, <2>2, <2>3
<1> QED
    BY <1>2, <1>5, <1>6, <1>7 DEF IntakeNext

\* The steps of a review that commit an upload's row u, or take its lock.
LEMMA ReviewStep ==
    ASSUME UploadIInv, IInv', NEW u \in Uploads, ReviewNext(u)
    PROVE  UploadIInv'
<1>1. /\ upload \in [Uploads -> UploadRow] /\ upload[u] \in UploadRow
      /\ intake \in [Uploads -> {"new", "processing", "over"}]
      /\ files \subseteq Uploads /\ retrying \subseteq Uploads
      /\ cleaning \in Uploads \cup {NoUpload}
      /\ via \in [Requests -> Uploads \cup {NoUpload}]
      /\ TypeOK'
    BY OneUpload DEF IInv
\* Once there is a row, the upload request is over and the file's fate known.
<1>2. upload[u].status # "none" =>
          /\ intake[u] = "over"
          /\ upload[u].scan # "clean" => u \notin files /\ ~Linked(u)
          /\ cleaning = u => upload[u].purged
    BY <1>1, OneUpload
<1>3. ASSUME NEW k \in Scripts, NEW c \in Valid, Convert(u, k, c) PROVE UploadIInv'
    <2>1. /\ u \notin retrying /\ upload[u].status = "completed" /\ ~Linked(u)
          /\ upload[u].scan = "clean"
          /\ upload' = [upload EXCEPT ![u].script = k]
          /\ UNCHANGED <<intake, files, retrying, cleaning, via>>
        BY <1>3 DEF Convert, Lockable
    <2>2. /\ [upload[u] EXCEPT !.script = k] \in UploadRow
          /\ upload' = [upload EXCEPT ![u] = [upload[u] EXCEPT !.script = k]]
        BY <1>1, <2>1 DEF UploadRow
    <2>3. /\ upload'[u].status = "completed" /\ upload'[u].scan = "clean"
          /\ upload'[u].script = k /\ upload'[u].purged = upload[u].purged
          /\ \A w \in Uploads \ {u} : upload'[w] = upload[w]
        BY <1>1, <2>1, <2>2 DEF UploadRow
    <2>4. UploadTypeOK'
        BY <1>1, <2>1, <2>2 DEF UploadTypeOK
    <2>5. upload[u].status = "completed" /\ u \notin files => upload[u].purged
        BY OneUpload
    <2> QED
        BY <1>1, <1>2, <2>1, <2>3, <2>4, <2>5, UploadsAssumption, RowMoves DEF Linked
<1>4. ASSUME NEW c \in Valid, EditReview(u, c) PROVE UploadIInv'
    <2>1. UNCHANGED <<uploadVars, via>>
        BY <1>4 DEF EditReview
    <2> QED
        BY <1>1, <2>1, UploadsRest
<1>5. CASE StartRetry(u)
    <2>1. /\ upload[u].status \in {"completed", "failed"} /\ upload[u].scan = "clean"
          /\ u \in files /\ retrying' = retrying \cup {u}
          /\ UNCHANGED <<upload, intake, files, cleaning, via>>
        BY <1>1, <1>5 DEF StartRetry, Lockable, UploadRow
    <2>2. UploadTypeOK'
        BY <1>1, <2>1 DEF UploadTypeOK
    <2> QED
        BY <1>1, <1>2, <2>1, <2>2, RowMoves DEF Linked
\* The end of a retry, with what it saves.
<1>6. ASSUME EndRetry(u), upload' \in [Uploads -> UploadRow],
             \A w \in Uploads \ {u} : upload'[w] = upload[w],
             upload'[u].status \in {upload[u].status, "completed"},
             upload'[u].scan = upload[u].scan, upload'[u].script = upload[u].script,
             upload'[u].purged = upload[u].purged
      PROVE  UploadIInv'
    <2>1. /\ u \in retrying /\ retrying' = retrying \ {u}
          /\ UNCHANGED <<intake, files, cleaning, via>>
        BY <1>6 DEF EndRetry
    <2>2. UploadTypeOK'
        BY <1>1, <1>6, <2>1 DEF UploadTypeOK
    <2>3. /\ upload[u].status \in {"completed", "failed"}
          /\ u \notin files => upload[u].purged
        BY <2>1, OneUpload
    <2> QED
        BY <1>1, <1>2, <1>6, <2>1, <2>2, <2>3, RowMoves DEF Linked
<1>7. CASE SaveExtraction(u)
    <2> DEFINE row == [upload[u] EXCEPT !.extraction = "completed", !.status = "completed"]
    <2>1. upload' = [upload EXCEPT ![u] = row] /\ EndRetry(u)
        BY <1>1, <1>7 DEF SaveExtraction
    <2>2. /\ row \in UploadRow /\ row.status = "completed" /\ row.scan = upload[u].scan
          /\ row.script = upload[u].script /\ row.purged = upload[u].purged
        BY <1>1 DEF UploadRow
    <2> HIDE DEF row
    <2> QED
        BY <1>1, <1>6, <2>1, <2>2
<1>8. CASE FailExtraction(u)
    <2> DEFINE row == [upload[u] EXCEPT !.extraction = "failed"]
    <2>1. upload' = [upload EXCEPT ![u] = row] /\ EndRetry(u)
        BY <1>1, <1>8 DEF FailExtraction
    <2>2. /\ row \in UploadRow /\ row.status = upload[u].status
          /\ row.scan = upload[u].scan
          /\ row.script = upload[u].script /\ row.purged = upload[u].purged
        BY <1>1 DEF UploadRow
    <2> HIDE DEF row
    <2> QED
        BY <1>1, <1>6, <2>1, <2>2
<1>9. CASE LoseRetry(u)
    BY <1>1, <1>6, <1>9 DEF LoseRetry
<1>10. CASE RejectReview(u)
    <2>1. /\ upload[u].status # "none" /\ u \notin retrying
          /\ upload' = [upload EXCEPT ![u].status = "rejected"]
          /\ files' \in {files, files \ {u}}
          /\ UNCHANGED <<intake, retrying, cleaning, via>>
        BY <1>10 DEF RejectReview, Lockable
    <2>2. /\ [upload[u] EXCEPT !.status = "rejected"] \in UploadRow
          /\ upload' = [upload EXCEPT ![u] = [upload[u] EXCEPT !.status = "rejected"]]
        BY <1>1, <2>1 DEF UploadRow
    <2>3. /\ upload'[u].status = "rejected" /\ upload'[u].scan = upload[u].scan
          /\ upload'[u].script = upload[u].script /\ upload'[u].purged = upload[u].purged
          /\ \A w \in Uploads \ {u} : upload'[w] = upload[w]
        BY <1>1, <2>1, <2>2 DEF UploadRow
    <2>4. UploadTypeOK'
        BY <1>1, <2>1, <2>2 DEF UploadTypeOK
    <2> QED
        BY <1>1, <1>2, <2>1, <2>3, <2>4, RowMoves DEF Linked
<1>11. CASE MarkPurged(u)
    <2>1. /\ intake[u] = "over" /\ u \in files /\ cleaning' = u
          /\ UNCHANGED <<intake, files, retrying, via>>
          /\ \/ Lockable(u) /\ upload' = [upload EXCEPT ![u].purged = TRUE]
             \/ upload[u].status = "none" /\ upload' = upload
        BY <1>11 DEF MarkPurged
    <2>2. CASE upload[u].status = "none" /\ upload' = upload
        <3>1. UploadTypeOK'
            BY <1>1, <2>1, <2>2 DEF UploadTypeOK
        <3>2. u \notin retrying
            BY <2>2, OneUpload
        <3> QED
            BY <1>1, <2>1, <2>2, <3>1, <3>2, RowMoves DEF Linked
    <2>3. CASE Lockable(u) /\ upload' = [upload EXCEPT ![u].purged = TRUE]
        <3> DEFINE row == [upload[u] EXCEPT !.purged = TRUE]
        <3>1. upload' = [upload EXCEPT ![u] = row]
            BY <1>1, <2>3
        <3>2. /\ row \in UploadRow /\ row.status = upload[u].status
              /\ row.scan = upload[u].scan /\ row.script = upload[u].script /\ row.purged
            BY <1>1 DEF UploadRow
        <3> HIDE DEF row
        <3>3. UploadTypeOK'
            BY <1>1, <2>1, <3>1, <3>2 DEF UploadTypeOK
        <3>4. /\ upload'[u] = row /\ upload[u].status # "none" /\ u \notin retrying
              /\ \A w \in Uploads \ {u} : upload'[w] = upload[w]
            BY <1>1, <2>3, <3>1 DEF Lockable
        <3> QED
            BY <1>1, <1>2, <2>1, <3>2, <3>3, <3>4, RowMoves DEF Linked
    <2> QED
        BY <2>1, <2>2, <2>3
<1>12. ASSUME NEW r \in Requests, PublishReadsUpload(r, u) PROVE UploadIInv'
    <2>1. Linked(u) /\ via' = [via EXCEPT ![r] = u] /\ UNCHANGED uploadVars
        BY <1>12 DEF PublishReadsUpload, Reviewable
    <2> QED
        BY <1>1, <2>1, UploadsRest
<1> QED
    BY <1>3, <1>4, <1>5, <1>7, <1>8, <1>9, <1>10, <1>11, <1>12 DEF ReviewNext

LEMMA PublishStep ==
    ASSUME UploadIInv, IInv', NEW r \in Requests, PublishNext(r)
    PROVE  UploadIInv'
<1>1. via \in [Requests -> Uploads \cup {NoUpload}]
    BY DEF UploadIInv, UploadTypeOK
<1>2. UNCHANGED uploadVars /\ (via' = via \/ via' = [via EXCEPT ![r] = NoUpload])
    BY DEF PublishNext, PublishReadsScript, AbandonPublish, PublishNumbers, PublishCommits,
           PublishRefused, ReleaseReview
<1> QED
    BY <1>1, <1>2, UploadsRest

LEMMA PurgeStep ==
    ASSUME UploadIInv, IInv', EndPurge
    PROVE  UploadIInv'
<1>1. PICK u \in Uploads : u = cleaning
    BY DEF EndPurge, UploadIInv, UploadTypeOK
<1>2. /\ UNCHANGED <<upload, intake, retrying, via>> /\ cleaning' = NoUpload
      /\ files' \in {files, files \ {u}}
    BY <1>1 DEF EndPurge
<1>3. /\ UploadTypeOK /\ TypeOK' /\ intake[u] = "over"
      /\ upload[u].status = "none" \/ upload[u].purged
    BY <1>1, OneUpload DEF UploadIInv, IInv
<1>4. UploadTypeOK'
    BY <1>2, <1>3 DEF UploadTypeOK
<1>5. /\ u \in retrying => upload[u].status \in {"completed", "failed"}
      /\ upload[u].status # "none" /\ upload[u].scan # "clean" => u \notin files /\ ~Linked(u)
    BY OneUpload
<1>6. cleaning' # u
    BY <1>2, UploadsAssumption
<1> QED
    BY <1>2, <1>3, <1>4, <1>5, <1>6, RowMoves DEF Linked

LEMMA UploadInvariantStep == UploadIInv /\ [UploadNext]_vars => UploadIInv'
<1> SUFFICES ASSUME UploadIInv, [UploadNext]_vars PROVE UploadIInv'
    OBVIOUS
<1>1. IInv'
    BY RegistryKept
<1>2. via \in [Requests -> Uploads \cup {NoUpload}]
    BY DEF UploadIInv, UploadTypeOK
<1>3. CASE UNCHANGED vars
    <2>1. UNCHANGED uploadVars /\ UNCHANGED via
        BY <1>3 DEF vars
    <2> QED
        BY <1>1, <1>2, <2>1, UploadsRest
<1>4. CASE RegistryNext
    <2>1. UNCHANGED uploadVars /\ UNCHANGED via
        BY <1>4 DEF RegistryNext
    <2> QED
        BY <1>1, <1>2, <2>1, UploadsRest
<1> QED
    BY <1>1, <1>3, <1>4, IntakeStep, ReviewStep, PublishStep, PurgeStep DEF UploadNext

LEMMA UploadInitial == UploadInit => UploadIInv
<1> SUFFICES ASSUME UploadInit PROVE UploadIInv
    OBVIOUS
<1>1. IInv /\ TypeOK
    BY InitialInvariant DEF UploadInit, IInv
<1>2. /\ NoUploadRow \in UploadRow /\ NoUploadRow.status = "none"
      /\ NoUploadRow.script = NoScript
    BY DEF NoUploadRow, UploadRow
<1>3. UploadTypeOK
    BY <1>1, <1>2 DEF UploadInit, UploadTypeOK
<1>4. IntakeComesFirst /\ PurgeIsRecorded /\ RetriesAreOpen
    BY <1>2 DEF UploadInit, IntakeComesFirst, PurgeIsRecorded, RetriesAreOpen, Linked
<1>5. PublishersAreLinked
    BY DEF UploadInit, PublishersAreLinked
<1>6. UnsafeIsDropped /\ SourceLossIsRecorded
    BY <1>2 DEF UploadInit, UnsafeIsDropped, SourceLossIsRecorded
<1> QED
    BY <1>1, <1>3, <1>4, <1>5, <1>6 DEF UploadIInv

-----------------------------------------------------------------------------
(* The theorems about uploads *)

\* Uploads, their files and the tasks on them keep their invariant, and the
\* registry keeps its own beside them.
THEOREM UploadInvariance == UploadSpec => []UploadIInv
<1> QED
    BY UploadInitial, UploadInvariantStep, PTL DEF UploadSpec

\* Rows of script_uploads and the tasks that work on them are well typed.
THEOREM UploadTypeCorrect == UploadSpec => []UploadTypeOK
<1>1. UploadIInv => UploadTypeOK
    BY DEF UploadIInv
<1> QED
    BY <1>1, UploadInvariance, PTL

\* A document that did not pass the scan keeps neither its raw file nor gets a
\* script, whatever retries, conversions and cleanups come later (the upload
\* request's _fail_upload; convert_upload_to_script_draft).
THEOREM UnsafeDropped == UploadSpec => []UnsafeIsDropped
<1>1. UploadIInv => UnsafeIsDropped
    BY DEF UploadIInv
<1> QED
    BY <1>1, UploadInvariance, PTL

\* A raw file is never gone without record, as the cleanup task commits
\* deleted_at first and a retry and a rejection exclude each other.
THEOREM RecordedLoss == UploadSpec => []SourceLossIsRecorded
<1>1. UploadIInv => SourceLossIsRecorded
    BY DEF UploadIInv
<1> QED
    BY <1>1, UploadInvariance, PTL

\* What a review has settled stays settled: a link is for ever, and neither a
\* retry nor a conversion that began before revives a rejected upload.
THEOREM FinalReview == UploadSpec => ReviewIsFinal
<1>1. ASSUME UploadIInv, UploadNext, NEW u \in Uploads
      PROVE  LET rejected == upload[u].status = "rejected"
             IN  /\ rejected => upload'[u].status = "rejected"
                 /\ rejected \/ Linked(u) => upload'[u].script = upload[u].script
    <2>1. /\ upload \in [Uploads -> UploadRow] /\ upload[u] \in UploadRow
          /\ intake[u] # "over" => upload[u].status = "none" /\ ~Linked(u)
          /\ u \in retrying => upload[u].status \in {"completed", "failed"}
        BY <1>1, OneUpload
    <2>2. ASSUME NEW w \in Uploads, IntakeNext(w)
          PROVE  upload'[u] = upload[u] \/ intake[u] = "processing"
        BY <2>1, <2>2 DEF IntakeNext, StoreFile, RefuseFile, DropUpload, AcceptUpload,
                          FailScan, EndIntake
    <2>3. ASSUME NEW w \in Uploads, ReviewNext(w)
          PROVE  \/ upload'[u] = upload[u]
                 \/ ~Linked(u) /\ upload[u].status = "completed"
                 \/ u \in retrying /\ upload'[u].script = upload[u].script
                 \/ /\ upload'[u].status \in {upload[u].status, "rejected"}
                    /\ upload'[u].script = upload[u].script
        <3>1. CASE u # w
            BY <2>1, <2>3, <3>1 DEF ReviewNext, Convert, EditReview, uploadVars, StartRetry,
               SaveExtraction, FailExtraction, LoseRetry, EndRetry, RejectReview, MarkPurged,
               PublishReadsUpload
        <3>2. CASE u = w /\ \E k \in Scripts, c \in Valid : Convert(w, k, c)
            BY <3>2 DEF Convert
        <3>3. CASE u = w /\ (SaveExtraction(w) \/ FailExtraction(w) \/ LoseRetry(w))
            BY <2>1, <3>3 DEF SaveExtraction, FailExtraction, LoseRetry, EndRetry, UploadRow
        <3>4. CASE u = w /\ (RejectReview(w) \/ MarkPurged(w))
            BY <2>1, <3>4 DEF RejectReview, MarkPurged, UploadRow
        <3>5. CASE \/ \E c \in Valid : EditReview(w, c)
                   \/ StartRetry(w)
                   \/ \E r \in Requests : PublishReadsUpload(r, w)
            BY <3>5 DEF EditReview, StartRetry, PublishReadsUpload, uploadVars
        <3> QED
            BY <2>3, <3>1, <3>2, <3>3, <3>4, <3>5 DEF ReviewNext
    <2>4. CASE RegistryNext \/ EndPurge \/ \E r \in Requests : PublishNext(r)
        BY <2>4 DEF RegistryNext, EndPurge, PublishNext, PublishReadsScript, AbandonPublish,
                    PublishNumbers, PublishCommits, PublishRefused, uploadVars
    <2> QED
        BY <1>1, <2>1, <2>2, <2>3, <2>4 DEF UploadNext, Linked
<1>2. UploadIInv /\ [UploadNext]_vars =>
          [\A u \in Uploads :
              LET rejected == upload[u].status = "rejected"
              IN  /\ rejected => upload'[u].status = "rejected"
                  /\ rejected \/ Linked(u) => upload'[u].script = upload[u].script]_vars
    BY <1>1
<1> QED
    BY <1>2, UploadInvariance, PTL DEF UploadSpec, ReviewIsFinal

\* Drafts that are converted, edited or published through reviews leave the
\* registry's promise to new sessions as it was: at most one script, and
\* content that passed validate_script (get_active_published_version).
THEOREM ValidContentWithUploads == UploadSpec => []SessionsGetValidContent
<1>1. UploadIInv => SessionsGetValidContent
    BY InvariantGivesValidContent DEF UploadIInv
<1> QED
    BY <1>1, UploadInvariance, PTL
=============================================================================
