# Formal models of the Collection Agent Trainer backend

The repository is a FastAPI service (SQLAlchemy 2 async, PostgreSQL at READ
COMMITTED, one uvicorn process) in which debt-collection agents train against a
simulated debtor. Paths below are relative to `src/app` unless they start with
`src/`. The modules here describe the parts of it in which requests overlap, fail
half way or are repeated; TLC checks them on small instances and TLAPS proves the
most important results for every instance.

## The system

| Component | State | Operations | Interacts with |
|---|---|---|---|
| Training sessions (`api/sessions.py`, `services/session_service.py`) | `sessions` rows; in the process: personas (`_active_personas`), one `asyncio.Lock` per session | create, send message, end, retry evaluation | pins a negotiation standard version and a script version; transcripts; debtor simulator; evaluation pipeline; event stream |
| Transcripts (`services/transcript_manager.py`, `services/db_retry.py`) | `transcripts` rows, a buffer per call, an in-process fallback store | append, number, persist with retries | message calls write, pipeline and reports read |
| Evaluation pipeline (`services/evaluation_pipeline.py`), engines (`evaluation_engine.py`, `coaching_engine.py`, `rubric_*.py`, ...) | evaluation, coaching and learning plan rows, one each per session | run, persist; ask the model, validate, score, recommend | reads transcripts and the pinned standard; reports read what it writes |
| Session reports (`services/session_report_service.py`, `..._assembler.py`) | `session_reports` rows: numbered, pending, ready or failed | generate, status | locks the session row; reads artifacts in four queries |
| Report views (`services/report_service.py`, `api/sessions.py`) | none | aggregate report, evaluation and coaching endpoints | read the same artifacts without a snapshot |
| Negotiation standards (`services/negotiation_standard_service.py`) | one `negotiation_standards` row per campaign, its versions | create, update, publish, reopen, archive, delete | sessions pin versions; `src/scripts/seed_rubrics.py` writes beside it |
| Script registry (`services/script_registry.py`) | `scripts`, `script_versions` | create, update, publish, unpublish, assign, delete | sessions pin versions; conversion creates drafts; review publishes |
| Script validation (`schemas/script.py`, `services/script_validator.py`, `script_limits.py`) | none | accept or refuse a definition | guards every write of the registry |
| Debtor simulator (`services/debtor_simulator.py`) | a persona per session and per pipeline | answer a turn: opening, endings, mood, model with retries, safe line | called by messages and by the voice pipeline |
| Uploads and review (`api/uploads.py`, `api/review.py`, `services/conversion_service.py`) | `script_uploads` rows | upload, convert, edit, retry, reject, publish | quarantine files, registry |
| Quarantine (`services/upload_quarantine.py`) | raw files on disk | store, remove, periodic cleanup | upload rows |
| Event stream (`services/event_*.py`, `api/events.py`) | connected WebSockets, sequence counter, replay buffer, all in the process | connect, replay, broadcast | emitted after commits by sessions, campaigns, scenarios |
| Voice pipeline (`services/voice/*`, `api/voice.py`) | per call: audio buffer, VAD, transcript manager, output queue; one peer connection per session | frames, utterance, farewell, teardown | transcripts, debtor simulator |
| Accounts (`services/user_service.py`, `google_oauth.py`, `lark_oauth.py`, `auth.py`) | `users` rows | sign in, register, update, activate, delete | named by sessions, assignments, event clients |
| Campaigns (`services/campaign_*.py`) | `campaigns`, agents, scenarios | create, update, archive, assign; validate a new session | event clients' scopes; sessions |
| Rate limiters | sliding windows in the process | record, check, clean up | auth, uploads |
| Dashboards, converters, exports | none | queries and formatting | |

What is hard: a request reads, then waits (LLM, a row lock, another query), and
acts on what it read; commits get lost after earlier commits of the same request
succeeded; files and rows change in separate steps; memory in the process
disagrees with the tables after a failure or a restart; several writers number
the same sequence without a common lock. `PROJECT.json` lists each such place
with its line and the property that watches over it.

## Modules

### ReportLog, SessionReport (session reports)

`ReportLog` is the promise: a log of numbered snapshots, at most one open, settled
once and frozen, never older than the readable ones before it.

`SessionReport` is the service. A generator is one call of `generate_report`:
`LoadSession` (the endpoint's read), `LockSession` (`SELECT ... FOR UPDATE`, line
86), then `RejectNotCompleted`, `RejectPending` or `AllocateVersion` under the lock,
`CommitPending` or `LoseAllocation`, one `ReadArtifact` per query of the assembler,
and `CommitReady`, `CommitFailed` or `LoseSettlement` (the commit failed:
`_commit_report_transaction` rolls back, and nothing else settles the marker). `Crash`
ends a call anywhere, with its open transaction and lock. A reader runs `get_report_status`: `QueryReady`, `QueryAttempt`,
`ProbeArtifacts`. Beside a ready report `QueryAttempt` answers "error" for a later attempt
that is pending: `ReportReadyStatus` insists that it failed (`schemas/session_report.py:595`). The environment completes or reactivates the session
(`WriteStatus`) and stores a pipeline run's artifacts (`PersistArtifacts`, one
commit). An artifact is the number of the run that wrote it, which is all that
freshness and tearing can tell apart.

The row lock is what makes `OneAttemptAtATime` true, and committing the marker
before the first artifact query is what makes `LaterReportsAreFresher` true: two
generations that read at the same time could otherwise settle in the other order.
`RefinesLog` says the table implements `ReportLog` with `log <- rows`.

### NegotiationStandard

The standard of one campaign, its versions, the administrators' fetched revisions
and the sessions being created. `create_standard` (check, then insert) and
`create_session` (resolve, then insert after the LLM answered) are two steps each;
the other requests hold the row `FOR UPDATE` from their first query and are one
step. The seed script (`SeedUnpublished`, `SeedPublished`) numbers after the latest
version and moves the pointer, where `publish_standard` counts from the current
one; `HistoryIsDense` and `PinsArePublishable` have to survive their mixture.
`incarnation` counts standards deleted and created again. A request names the
campaign, not the standard, so a stale `expected_revision` can match a recreated
standard (the revision starts at 1 again): `UpdateDraft` allows that, and
`RevisionIdentifiesDraft` claims nothing across a deletion. `publish_standard` compares
the draft with one version only, so a draft that returned to older content breaks the
unique key on (standard, hash) and the request fails: a rejected request here
(`Insertable`), an uncaught `IntegrityError` in the code.

### SessionLifecycle

One session from its first message to its evaluation. A message call waits for the
session's `asyncio.Lock`, reads the status (`TakeTurn`), activates, loads the
conversation (`BeginTurn`), may deliver the scripted opening, may end by script,
appends to the persona's memory (`Respond`), and stores the turn (`PersistTurn`) or
gives it to the fallback store when retries are exhausted (`LoseTurn`). Closing
calls take no lock: `end_session` completes the session and runs the pipeline,
`retry_session_evaluation` runs it again. `Restart` empties everything held in the
process. A line is its call and its role; `TranscriptIsOrdered` is the numbering and
pairing that the report assembler's checks later insist on.

### ScriptRegistry, UploadReview

`ScriptRegistry`: no request of the registry locks anything. Each loads the row,
works on a copy and commits; `Written` is the ORM's UPDATE, which writes only the
columns that changed in the copy. `publish` numbers (`NumberVersion`) and commits
(`CommitVersion`) in separate steps; the unique keys (script, number) and scenario
are the guards that remain. `ActiveFor` is the lookup a new session uses.

`UploadReview` extends it: one upload request per `Uploads` element stores its file
and ends with a row, without one, or dead in between; conversion, edit, retry and
rejection take the upload's row lock (`Lockable`), publication does not and runs
the registry's `publish` on its behalf (`via`); the cleanup task commits
`deleted_at` (`MarkPurged`) and unlinks later (`EndPurge`), and either may be all
that happens. The retention period is taken to be at least one hour, as configured by
default, so a file does not expire during its own upload request; with a retention
of zero `SourceLossIsRecorded` would not hold (`upload_quarantine.py:238`).
`retry(scan)` is left out because no failed scan leaves the file it asks for, and
the `UploadStatus` values that nothing writes are left out.

### EventStream

The pushed events of one process. `Emit` draws a number, evicts, stores and makes the
first send without an await in between; every further turn of `broadcast`'s loop is a
`Continue`, and the client table may change before each. The dict's iterator notices a
change of size and raises (`Interrupted`: the clients not yet visited get nothing, and
those whose send failed stay registered); a table of the same size with other clients
may also end the loop early. `Reconnect` is one step because nothing awaits between
`connect` and `get_after`; `Replay` is one send. `ReplayFails` leaves the client
registered, because the sends stand outside the handler's `try`. `cut` is history: the
events whose broadcast saw the table change. `NothingIsMissed` and `NothingIsRepeated`
say that those are the only ones that go wrong, whatever replays, evictions and
resync numbers interleave; `BroadcastReachesAll`, what `broadcast`'s docstring says,
does not hold. A client that names a number not yet drawn (of the process before a
restart) is owed nothing earlier; campaign membership is fixed.

### Rubric, ReportAssembly, ReportViews, EvaluationRun (from a model's answer to a report)

`Rubric` holds what is computed from one answer of the evaluator model: the folding of
duplicates, the schema's checks (`WellFormed`), `validate_observation` against transcript
and pinned standard (`Valid`), penalties, weighted total and pass, recommendations with
the coaching engine's own check, learning plan; and the same for the engines of the time
before the rubrics. `ReportAssembly` is the assembler's checks section by section
(`Assembles`), the payload's and the status envelope's validators, and the status derived
between them. `ReportViews` is what clients see without a snapshot: the aggregate with
sections that may fail, and the endpoints for evaluation and coaching. `EvaluationRun`
composes them: the pipeline reads the transcript once (`Start`, `StartShort`,
`StartUnpinned`), asks up to three times (`RequestFails`, `Truncated`, `Rejected`,
`Accepted`), stores three rows as one unit, while a late line (`LateLine`) and report
generations (`GenerateReport`) come at any time. Every rule is a pure operator over
sequences and records; the points are integers in hundredths, where they are exact.
Three constants say what comes from outside, as weakly as the code guarantees it:
* `Standards` satisfy `IsStandard`, what `validate_standard` and the schema ask of published
  content: percentages, weights that sum to 100, at least one block, identifiers used once.
* `Observations` are in `ObservationsOf(Names)`: the types that pydantic enforces, nothing else.
  Whether an observation makes sense is what `Valid` decides.
* `Transcripts` are `Gapless`: their numbers begin at 0 and leave none out, because
  `_get_next_sequence_number` continues the table's maximum, a call stores the first of what it has
  numbered (`StoredLinesAreAPrefix`), and no row is ever deleted. Two calls at once may have drawn
  the same numbers, so repetition is allowed. The evaluator is shown the position of a line and not
  its number (`evaluation_pipeline.py:124`), so with repeated numbers the two disagree.

`FindingsNeverHelp` compares the scoring with itself on an observation with one finding
more; `TidyIsReportable` says which model answers are sure to end in a report, because
an observation that lists a failed criterion twice, quotes up to white space, or fails a
block without a criterion is accepted and paid for and then cannot be reported.

### ScriptRules, DebtorTurn (the simulated debtor)

`ScriptRules` is the definition's validation as `validate_script` assembles it (structure,
conflicts found by the schema only when nothing else is wrong, limits over a contract
rebuilt without its prohibitions), first-match of triggers, prohibition, moods and the
choice of a safe line. A text is the set of phrases it contains, which is all that
`in` and equality of folded strings distinguish. `DebtorTurn` composes it: `Submit`,
`CreateSession` (a persona the model may fail to give), `SendMessage` for the text
endpoint with its persona in a dictionary, `StartCall`, `Utterance` and `EndCall` for the
voice pipeline with one of its own, `Restart`. `TextAnswer` and `VoiceAnswer` are the
orders in which `_send_message_locked` and `_process_utterance` decide what kind of
answer to give, written apart as in the code, and `ChannelsAgree` compares them at every
reachable point. The names of its specification (`DebtorSpec`, `DebtorInit`, ...) are its own, so that
one module can hold the proofs about everything that is made of a model's answers.

### VoiceCall

A session's voice calls: the WebSocket handler (`Connect`, `Offer`, `HandleTrack`, `Leave`),
the pipeline's audio loop (`Hear` per frame; `PipelineStep` is `RecordUtterance`, `Answer` or
`GiveUp`, `Speak`, `Farewell`, `EndCall` and the two halves of `persist`), the handler's own end
(`HandlerStep`; `RetryPersist` when its commit has to be tried again), the task that forwards the output (`ForwardOutput`), the connection state
callback (`ConnectionFails`) and a text message on the same session (`TextTurn`). Each is the
code between two awaits. All calls of a session share one peer connection
(`owner`), so audio of a second socket goes nowhere; both `TranscriptManager`s write one
table. `AudioIsLatestSpeech` compares the VAD, padding and buffer with the speech that came
in; `StoredLinesAreAPrefix` and `EndIsToldAfterStoring` are about a pipeline that is closed
by its own farewell and by its handler at once. The table is kept by writer (`transcript[w]`),
in the order in which the writer's rows were stored; `DbMax` looks at all of them, as the query does.
Two things are taken as `api/voice.py:190` intends them: a track reaches `handle_audio_track`,
and only once per connection. As written, the callback that `create_peer_connection`
registers has the name of its parameter (`peer_connection_manager.py:65`) and calls itself, so no
track gets through; the model starts where the tests of the pipeline start.

### Accounts, Campaigns

`Accounts` is the table `users`: sign-ins of both providers (look-up by identity, by
address, insert or link; two transactions), registration, update, activation and deletion.
`Campaigns` extends it with campaigns, members, the ordered checks before a session is created
(`RequireAssignment`, `RequireMembership`, `FindScenario`, `InsertSession`), the agents' lists, and the event
clients' scopes (`CheckClient`, `ReadOwnCampaigns`, `Register`, `UpdateClientScope`). Requests read
first and commit later; nothing is locked, so unique keys and foreign keys are the only
guards. `past` and `since` are history: the assignments each user has had, and which
conditions have held since a request began. `ScopeWasOnceTrue` and `InvitationsAreGenuine`
are what remains true without any lock.

## Runs

| Run | Instance | Shows |
|---|---|---|
| report_safety | 2 generators, 1 reader, 3 versions, 2 pipeline runs | `IInv`, `OneAttemptAtATime`, `LaterReportsAreFresher`, `ShownReportsAdvance`; `RefinesLog`; `EveryCallEnds` under fairness |
| report_error | same | violated: `StatusIsResolved` |
| standard_safety | 2 admins, 1 session, 3 contents (1 unpublishable), 2 incarnations, revisions to 4 | `IInv`, `HistoryIsDense`, `PinsArePublishable`, `RevisionIdentifiesDraft` |
| session_safety | 2 messages, 2 closing calls, with and without opening, 2 attempts | `TranscriptIsOrdered`, `MemoryIsAccountedFor`, `OpeningLeads`, `EvaluationCoversTheCall`; `EveryCallIsAnswered` under fairness |
| evaluation_safety | about 8000 observations of two blocks, 4 transcripts, 2 standards and none, 1 late line, 3 attempts | `AcceptedIsCoachable`, `FindingsNeverHelp`, `TidyIsReportable`, `AcceptedIsReadable`, `ViewsAgree` |
| evaluation_short | same | violated: `ShortSessionsAreReported` |
| debtor_safety | 70 definitions (8 accepted), 5 messages, 4 courses of the model's answers, personas with and without a mood | `VerdictIsComplete`, `GeneratedIsClean`, `EndingsAreObeyed`, `ChannelsAgree` |
| registry_safety | 2 requests, 2 scripts, 2 scenarios, 3 contents (1 invalid), 2 versions | `IInv`, `HistoryIsDense`, `CurrentIsNewest`, `SessionsGetValidContent` |
| upload_safety | 2 uploads, 2 scripts, 1 registry request | `UnsafeIsDropped`, `SourceLossIsRecorded`, `ReviewIsFinal` |
| events_safety | 2 clients (administrator, agent), 2 broadcasts at a time, 3 numbers, 2 topics | `NothingIsMissed`, `NothingIsRepeated` |
| voice_safety | 2 calls (7 frames and none), buffer of 2, 1 text message, script with and without opening | `AudioIsLatestSpeech`, `StoredLinesAreAPrefix`, `EndIsToldAfterStoring`; `EndIsAnnounced` under fairness |
| people_safety | 1 admin, 1 agent, 2 new ids, 5 identities, 3 campaigns, 2 scenarios, 2 event clients, 9 groups of requests | `IdentityKeepsItsAccount`, `ScopeWasOnceTrue`, `InvitationsAreGenuine` |

The type invariants (`TypeOK`, `VoiceTypeOK`, `DebtorTypeOK`, `UploadTypeOK`, `EvaluationTypeOK`) and the
inductive invariants (`IInv`, `UploadIInv`, `DebtorIInv`, `PipelineIInv`) that no run lists hold on the same instances; they are left out
of the runs because they are proved, as are `EveryEditRaisesRevision` and `DeletionIsFinal`.

report_error and evaluation_short are disagreements of the code with what is written
about it, quoted in `PROJECT.json` under `findings`. Further statements that one would
expect and the code does not keep have a configuration that ends in a counterexample:

| Configuration | Violated | Where |
|---|---|---|
| `SessionReport_stuck` | `PendingIsSettled` | `session_report_service.py:114`: the commit that settles a marker is lost; nothing else settles it |
| `SessionLifecycle_durable` | `CompletionIsDurable` | `api/sessions.py:883`: a message that read the status before it waited writes "active" over a completion |
| `SessionLifecycle_retry` | `RetriesAreSafe` | `evaluation_pipeline.py:305`: two runs select, then insert the same one-row artifact |
| `ScriptRegistry_publish` | `PublishTakesEffect` | `script_registry.py:287`: "published" written on a copy that says so already is no UPDATE, and an unpublish in between survives |
| `UploadReview_reject` | `RejectedIsNeverPublished` | `api/review.py:741`: publication reads upload and script without a lock |
| `EventStream_reach` | `BroadcastReachesAll` | `event_connection_manager.py:100`: the client table changes under a broadcast |
| `VoiceCall_numbers` | `NumbersAreUnique` | `transcript_manager.py:173`: a manager asks for the next number once, then counts alone |
| `Campaigns_scopes` | `ScopesFollowAssignments` | `campaign_service.py:141`: removed agents keep their scope, and a client may register with campaigns it read earlier |
| `Campaigns_deletion` | `SessionsKeepTheirAgent` | `user_service.py:162`: a session created between the update and the delete |

**Bounds.** Every race here is between two requests, so two of each kind meet in
every order: one message holds the session's lock while the other waits, with a
restart and both closing calls in between. Two versions are enough for a lost number or a stale pointer,
three let a report be lost between two others, and two pipeline runs let a payload be
torn. For events, three numbers let one be evicted, one be replayed and one be broadcast
meanwhile, and two clients let the table change under a broadcast. `MaxRevision`,
`MaxIncarnation`, `MaxVersion`, `MaxRun`, `MaxSeq` only cut long histories off. For every safety property of the passing runs
the proofs remove the bounds altogether.
Evaluation: the second block is fixed while every combination of findings, quotes and
recommendations of the first is tried, since each block is judged alone and only the sum
joins them; the transcripts are empty, too short, full, and with a number twice. Voice: a buffer of two
frames overflows with the third, one silent frame ends an utterance, seven frames are
two utterances and what arrives while they are answered; the second call brings none
because its audio has no way in. Accounts and campaigns: every hazard is between two or three
requests, so `Plans` lists which requests come together instead of letting all come at
once; ids are never reused. Debtor: a turn depends on the last state only, so conversations have any length.
Symmetry is used in safety runs only. Deadlock checking is off where the
system stops: calls made at most once, histories at their bound.

**Fairness.** `SessionReport`: a handler that is running goes on (weak fairness of
its steps: every wait has a timeout) and PostgreSQL grants a row lock in the order of
the requests (strong fairness of `LockSession`). `SessionLifecycle`: the same for message
and closing steps; `asyncio.Lock` wakes its waiters in order (strong fairness of
taking the lock). `VoiceCall`: pipeline, handler and forwarding tasks go on (weak
fairness): speech services and database attempts end, with an error at worst. Nothing is assumed of the environment: no message has to come,
no commit has to succeed.

## Proofs

`SessionReportProofs`, `NegotiationStandardProofs`, `SessionLifecycleProofs`, `ScriptRegistryProofs`
(which also holds the proofs of `UploadReview`), `EventStreamProofs`, `ModelAnswersProofs`
(of `EvaluationRun` with its rules, and of `DebtorTurn`), `VoiceCallProofs` and
`CampaignsProofs` (which also holds those of `Accounts`) hold for every number of requests, sessions, messages,
versions, scripts, uploads, clients, events, calls, accounts and campaigns, and for transcripts, standards and observations of every size, from the modules' named
assumptions only. Those say that bounds are naturals and sentinels are not members, and for what comes
from outside, that it is what the schemas let through: the fields of a request (`AccountCallsAssumption`,
`CampaignCallsAssumption`) and of a script (`DefinitionsAssumption`: also that an escalation is neither a trigger
nor a payment condition, which in the code they differ from by their fields), the seeded accounts
having addresses of their own (`SeededAssumption`), the keyword lists of the simulator being disjoint
(`KeywordsAssumption`), transcripts, standards and observations being as described above (`TranscriptsAssumption`,
`StandardsAssumption`, `AnswersAssumption`), one process having finitely many sockets (`SocketsAssumption`).

Each module has the same plan: the initial states satisfy the inductive invariant, each action keeps it
(one lemma for each conjunct or for each shape of step), the properties follow. The type invariant is
its first conjunct.

* Session reports. `OneAttemptAtATime` is not inductive: it needs to know who may
  still insert. `IInv` adds that versions are dense and a marker is the newest row,
  that exactly the lock holder is between locking and committing, that what was
  read under the lock still holds (`AllocationIsFresh`), that an assembler owns a
  pending marker, and that every section read lies between the readable reports and
  the stored artifacts (`ReadsAreBetween`). Freshness follows when the marker is settled.
  `Refinement` maps `CommitPending`, `CommitReady` and `CommitFailed` to `Open`,
  `Publish` and `Fail`, every other step to a stutter. `NoReportIsLost` uses that a
  ready row is never changed.
* Standards. `IInv` adds that a view of the present standard is of its past
  (`ViewsAreOfThePast`) and that without a standard there are no versions. Dense
  numbering rests on the current pointer being behind the last version and on the
  two unique keys.
* Sessions. A call is between taking and leaving the lock exactly when it holds it
  (`LockDiscipline`), and what the holder has buffered continues the table as it is now (`BufferIsNext`);
  hence the order, although number and commit are steps apart. A remembered line is of a call that
  has answered, and still in that call's buffer until the call is done (`MemoryIsOfCalls`): so when the
  call ends, the line is in the table or in the fallback store. `FirstIsEmpty` is what the flag "first"
  means at each step of a call; it gives `OpeningLeads`. Closing calls hold no lock: `ClosersAreLate`
  rests only on the first end and on a table that does not shrink.
* Registry. `IInv` says the pointer counts the versions, every copy a request holds
  is of the row's past (`RequestsAreOfThePast`: once deleted always deleted, the
  pointer only grows) and scenarios are keys. From it, although nothing is locked,
  numbers stay dense, the pointer stays newest, sessions get validated content and
  deletion is final (`FinalDeletion`; `RevisionRises` is its like for standards).
* Uploads. Every step of an upload is for the registry one of the steps it has anyway, or
  a new draft with validated content; so the registry's invariant and `SessionsGetValidContent` hold
  beside conversions and reviews too. `UploadIInv` adds that a row comes with the end of its upload request
  (`IntakeComesFirst`), that the cleanup records a removal before it unlinks (`PurgeIsRecorded`), that
  a retry's lock keeps a rejection out (`RetriesAreOpen`), and that a publication is of an
  upload that is linked (`PublishersAreLinked`). `FinalReview` is an action property from these.
* Events. A client enters the table and takes its replay from the buffer in one step, so
  each event meant for it is in that replay, older than what it asked for, or has its broadcast to
  come. `ReplaysAreOwed` and `BroadcastsAreOwed` say what the ones under way have still to send and that nobody
  has sent it; `BufferIsRecent`, that the buffer ends as the log does. The loop over a dict needs
  `cut`: without it nothing could be promised.
* From a model's answer to a report. `PipelineIInv` ties the pipeline to a transcript that grows beside it:
  what was heard is a prefix of it (`HeardIsAPrefix`), an accepted answer is grounded in what was heard and in
  the standard (`AnswerIsGrounded`, `PinnedIsPublished`), and the artifacts are computed from that answer or
  are the legacy engines' (`ArtifactsAreOfAnswer`). `AcceptedIsCoachable` alone is not inductive, nor is any
  reference from an artifact to a line, without the prefix and without `Gapless`: late lines are numbered behind
  all others, which keeps the position of what was heard. All else is about what is computed.
  `Coachability`: recommendations derived from violations and failed criteria satisfy, case by case, what the
  second check asks. `Monotonicity`: one more violation raises no category's points (the cap and the clamp at
  zero are monotone), and a sum of terms that are nowhere larger is no larger. `Reportability` and
  `Readability`: each recommendation is of a category that is there and quotes the evidence it names; each of
  the assembler's checks follows from the validator's or from tidiness. `ViewsAgreement`: a coaching block is
  the recommendations of its block, and a concatenation of the blocks is as long as all of them.
  `EvaluationTypes`: weights that sum to 100 keep a total between 0 and 100 points, since block
  identifiers, and so the terms, are in bijection with the blocks.
* What folds compute. Sums, concatenations, selections and totals of a set are folds of the community
  modules. The library's induction theorems cannot be instantiated, but well-foundedness of the naturals can be
  cited for a set: `Climb` says that a set of naturals with 0 in it, closed under successor below a bound, has all up to
  the bound (otherwise take the least that is missing). With it, each fold is unfolded once into an equation for its
  last element, and what it computes is proved for sequences and sets of any size.
* Debtor. `SpeechFollowsSession` (the script is pinned before anybody speaks) makes what was said
  under one script comparable with the script of now. The rest is about operators: which turn
  comes first among those that match, that the reply is picked among the lines that are not
  prohibited, and that the violations reported are all there are. `AgreeingChannels` needs no invariant of
  the conversation, since both orders of decision are compared for every mood and message.
* Voice. A call numbers its lines one after the other (`NumbersAreConsecutive`), so no two of its rows
  are equal and `InsertedOnce` shows that handing rows over again inserts just the new ones. What is buffered
  always is the end of what was recorded (`LinesFollow`); what a farewell or a handler has handed over
  is a stretch of it (`AddedFollow`, `HandlerFollows`) that begins where the stored lines end, or
  earlier. The exception is the subtle part: a handler's end empties the buffer with whatever was recorded
  during its commit, so that lines are missing between table and buffer; then the socket is closed, no utterance is
  taken any more, and a farewell finds nothing to store. `BufferIsLatest` holds at every step, not only
  when listening; `EndIsFinal` says that after the signal no utterance is under way.
* Accounts and campaigns. An address never moves between accounts and decides where an identity goes
  (`AddressesDecide`), so what a sign-in has found (`SignInsAgree`) stays right or is deleted; with
  the identity's account known (`HomesAreKnown`) this gives `OneAccount`. `past` and `since` only grow, so
  what was read and not used yet is still among them when it is (`ScopesComeFromThePast`,
  `AnswersAreWitnessed`): nothing is locked, and nothing more could be promised.

Model-checked only: liveness (`EveryCallEnds`, `EveryCallIsAnswered`, `EndIsAnnounced`), which rests on fairness
and ENABLED and is beyond TLAPS here. Every other property of a passing run is a theorem. What the violated
properties claim is false, and a counterexample is all there is to have. No module declares a RECURSIVE operator.

## What the models showed on the way

Behaviour that no property above calls wrong, but that a reader of the code may not expect:

* Escalation, opening and completion lines are never checked against a script's
  prohibited responses, and the default safe line may itself be prohibited.
* The keywords for emotions are looked up as substrings: "increase" and "decrease" contain "ease", so
  an unknown emotion moves the mood although `debtor_simulator.py` promises 0.
* In a scripted call `[END_CALL]` in the model's answer neither ends the call nor is stripped.
* A voice opening is not in the persona's history, and not counted when speech synthesis fails.
* After `call_ended` a text session still accepts messages and is active again.
* A fallback persona is refused when the personality is empty or the balance is not a number.
* A triggered instruction appears twice in the prompt; a condition of white space matches every message with a space.
* A snapshot made while no artifacts were stored is "ready" while the aggregate is "partial".
* The evaluation endpoint shows score 0 and "failed" of a session that was too short, where the
  aggregate hides both; its coaching says that no mistakes were made.
* A plan may say that all blocks passed although the total is below the overall pass mark.
* `delete_user` leaves the deleted user's event clients connected; a stale update may
  bring an archived campaign back (`campaign_service.py:116`).

## Plan

1. *(done)* Session reports, standards, session lifecycle, registry, uploads, event stream with their
   runs; proofs of reports, standards and registry.
2. *(done)* From model answer to report; scripts and the debtor; voice calls; accounts and campaigns.
3. *(done)* Proofs of `SessionLifecycle`, `UploadReview`, `EventStream`, `DebtorTurn`, `VoiceCall`, `Accounts` and
   `Campaigns`: the type invariant of each and every safety property that its run checks.
4. *(done)* Proofs of `EvaluationRun` with `Rubric`, `ReportAssembly` and `ReportViews`: the inductive invariant of the
   pipeline, its type invariant and all five safety properties, for data of every size.
5. Rate limiters as sliding windows with time.

## Not modelled

Prompts, wording and ranking of LLM answers and recommendations; report layout, CSV and
masking; text extraction and the malware scanner (their verdicts are choices of the models); ICE
negotiation, codecs and speech engines, and the streaming endpoint of `api/tts.py`;
passwords, tokens, mail and audit lines; dashboards, progress and other read-only queries; the
predicate that makes a standard publishable as a guard of publication (a constant; what it guarantees is `IsStandard`); schemas, configuration, migrations and
demo data. The rate limiters refuse early and change nothing else; they are left to the plan.
