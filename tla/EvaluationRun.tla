----------------------------- MODULE EvaluationRun -----------------------------
(***************************************************************************)
(* From a completed session to its report.                                 *)
(*                                                                         *)
(* The pipeline reads the transcript once, asks the evaluator model up to  *)
(* three times for a grounded observation, scores it, derives coaching and *)
(* learning plan, and stores everything as one unit.  The report of the    *)
(* session may be generated at any time; a message that was still being    *)
(* answered when the call ended may add a line meanwhile.                  *)
(***************************************************************************)
EXTENDS ReportViews

CONSTANTS
    Transcripts,   \* what the transcript may be when the pipeline starts
    Standards,     \* published standards a session may be pinned to
    Unpinned,      \* a session of the time before the rubrics
    Names,         \* what the model may call a technique
    Observations,  \* well-typed answers of the model
    LegacyAnswers, \* answers stored sessions had from the legacy engines
    MaxLate        \* bound on lines stored after the pipeline started

\* A table's numbers begin at 0 and leave none out (a call numbers its lines
\* from the table's maximum on and stores the first ones), but calls that spoke
\* at the same time have drawn the same ones.
Gapless(t) ==
    \A i \in DOMAIN t :
        t[i].number \in IF i = 1 THEN {0} ELSE {t[i-1].number, t[i-1].number + 1}

Lines == [speaker : {"agent", "debtor"}, number : Nat, late : BOOLEAN]

ASSUME TranscriptsAssumption ==
    Transcripts \subseteq Seq(Lines) /\ \A t \in Transcripts : Gapless(t)

ASSUME StandardsAssumption ==
    Unpinned \notin Standards /\ \A s \in Standards : IsStandard(s)

ASSUME AnswersAssumption ==
    /\ Observations \subseteq ObservationsOf(Names)
    /\ \A r \in LegacyAnswers : {r.strengths, r.weaknesses} \subseteq Int

VARIABLES
    transcript,  \* table transcripts of the session, by sequence number
    pinned,      \* the session's negotiation_standard_version
    phase,       \* where the pipeline is
    heard,       \* speakers of the transcript the pipeline read
    attempt,     \* 1..3 while the model is asked, otherwise 0
    budget,      \* max_tokens of the next request while it is asked
    answer,      \* the accepted observation
    artifacts,   \* stored evaluation, coaching and plan
    report       \* status of the latest report, "none", or "failed"

vars == <<transcript, pinned, phase, heard, attempt, budget, answer,
          artifacts, report>>

MinAgentUtterances == 4
MaxAttempts == 3
OutputTokens == 4096
RetryOutputTokens == 8192
NoAnswer == [status |-> "none"]

Phases == {"ended", "asking", "accepted", "stored", "failed", "uncoachable"}
Reports == {"none", "failed", "ready", "not_applicable", "too_short",
            "legacy_only", "empty_transcript", "no_evidence"}

-----------------------------------------------------------------------------
(* The pipeline *)

Speakers(t) == [i \in DOMAIN t |-> t[i].speaker]

TooShort(lines) ==
    Cardinality({i \in DOMAIN lines : lines[i] = "agent"}) < MinAgentUtterances

Init ==
    /\ transcript \in Transcripts
    /\ pinned \in Standards \cup {Unpinned}
    /\ artifacts \in
           IF pinned = Unpinned
           THEN {NoArtifacts} \cup {LegacyArtifacts(r, TooShort(Speakers(transcript))) :
                                       r \in LegacyAnswers}
           ELSE {NoArtifacts}
    /\ phase = "ended"
    /\ heard = <<>>
    /\ attempt = 0
    /\ budget = OutputTokens
    /\ answer = NoAnswer
    /\ report = "none"

StartUnpinned ==
    /\ phase = "ended"
    /\ pinned = Unpinned
    /\ phase' = "failed"
    /\ UNCHANGED <<transcript, pinned, heard, attempt, budget, answer, artifacts,
                   report>>

\* Too few agent lines: the model is not asked.
StartShort ==
    /\ phase = "ended"
    /\ pinned # Unpinned
    /\ TooShort(Speakers(transcript))
    /\ heard' = Speakers(transcript)
    /\ answer' = NotApplicable(pinned)
    /\ phase' = "accepted"
    /\ UNCHANGED <<transcript, pinned, attempt, budget, artifacts, report>>

Start ==
    /\ phase = "ended"
    /\ pinned # Unpinned
    /\ ~TooShort(Speakers(transcript))
    /\ heard' = Speakers(transcript)
    /\ phase' = "asking"
    /\ attempt' = 1
    /\ UNCHANGED <<transcript, pinned, budget, answer, artifacts, report>>

\* The next attempt, or RubricEvaluationError after the last one.
Retry(tokens) ==
    IF attempt < MaxAttempts
    THEN /\ attempt' = attempt + 1
         /\ budget' = tokens
         /\ UNCHANGED phase
    ELSE /\ phase' = "failed"
         /\ attempt' = 0 /\ budget' = OutputTokens

RequestFails ==
    /\ phase = "asking"
    /\ phase' = "failed"
    /\ attempt' = 0 /\ budget' = OutputTokens
    /\ UNCHANGED <<transcript, pinned, heard, answer, artifacts, report>>

\* finish_reason "length"
Truncated ==
    /\ phase = "asking"
    /\ Retry(Min({2 * budget, RetryOutputTokens}))
    /\ UNCHANGED <<transcript, pinned, heard, answer, artifacts, report>>

\* Not JSON, or an observation the validator refuses.
Rejected ==
    /\ phase = "asking"
    /\ \E o \in Observations : ~Valid(Deduplicate(o), pinned, heard)
    /\ Retry(budget)
    /\ UNCHANGED <<transcript, pinned, heard, answer, artifacts, report>>

Accepted(o) ==
    /\ phase = "asking"
    /\ Valid(Deduplicate(o), pinned, heard)
    /\ answer' = Deduplicate(o)
    /\ phase' = "accepted"
    /\ attempt' = 0 /\ budget' = OutputTokens
    /\ UNCHANGED <<transcript, pinned, heard, artifacts, report>>

Artifacts(o, standard) ==
    LET canonical == Canonical(o, standard)
    IN  [kind |-> "rubric", canonical |-> canonical,
         recommended |-> Recommendations(canonical),
         coaching |-> Coaching(canonical), plan |-> Plan(canonical),
         tooShort |-> canonical.status = "not_applicable", scored |-> TRUE]

\* build_rubric_recommendations may raise RecommendationValidationError;
\* otherwise _persist_rubric_artifacts writes three rows in one transaction.
Store ==
    /\ phase = "accepted"
    /\ IF Coachable(Canonical(answer, pinned), pinned)
       THEN phase' = "stored" /\ artifacts' = Artifacts(answer, pinned)
       ELSE phase' = "uncoachable" /\ UNCHANGED artifacts
    /\ UNCHANGED <<transcript, pinned, heard, attempt, budget, answer, report>>

\* The retries of the transaction are exhausted.
StoreFails ==
    /\ phase = "accepted"
    /\ Coachable(Canonical(answer, pinned), pinned)
    /\ phase' = "failed"
    /\ UNCHANGED <<transcript, pinned, heard, attempt, budget, answer, artifacts,
                   report>>

-----------------------------------------------------------------------------
(* Beside the pipeline *)

\* The table's maximum, plus one.
NextNumber ==
    Max({-1} \cup {transcript[i].number : i \in DOMAIN transcript}) + 1

\* A message that was being answered when the call ended stores what the
\* agent said.
LateLine ==
    /\ phase # "ended"
    /\ Cardinality({i \in DOMAIN transcript : transcript[i].late}) < MaxLate
    /\ transcript' = Append(transcript, [speaker |-> "agent",
                                         number |-> NextNumber, late |-> TRUE])
    /\ UNCHANGED <<pinned, phase, heard, attempt, budget, answer, artifacts, report>>

\* generate_report, then get_report_status
GenerateReport ==
    /\ report' = IF Assembles(transcript, artifacts) /\ PayloadIsValid(transcript, artifacts)
                 THEN ReportStatus(EvaluationSection(artifacts), Len(transcript))
                 ELSE "failed"
    /\ UNCHANGED <<transcript, pinned, phase, heard, attempt, budget, answer,
                   artifacts>>

Next ==
    \/ StartUnpinned
    \/ StartShort
    \/ Start
    \/ RequestFails
    \/ Truncated
    \/ Rejected
    \/ \E o \in Observations : Accepted(o)
    \/ Store
    \/ StoreFails
    \/ LateLine
    \/ GenerateReport

Spec == Init /\ [][Next]_vars

-----------------------------------------------------------------------------
(* Properties *)

(* The pipeline's state: at most three attempts, within the token budget, *)
(* an answer exactly when one was accepted, and a score between 0 and 100 *)
(* points that passes only when every block does.                         *)
EvaluationTypeOK ==
    /\ phase \in Phases
    /\ attempt \in 0..MaxAttempts
    /\ budget \in {OutputTokens, RetryOutputTokens}
    /\ report \in Reports
    /\ phase \in {"accepted", "stored"} => answer # NoAnswer
    /\ IsRubric(artifacts) =>
           /\ artifacts.canonical.total \in 0..10000
           /\ artifacts.canonical.passed => artifacts.canonical.total >= 100 * pinned.overall

(* The evaluator's validation and the coaching engine's own check agree:   *)
(* an observation that was accepted never makes the recommendations fail,  *)
(* so no evaluation is lost after it was paid for (the engines' two checks *)
(* are written independently of each other).                               *)
AcceptedIsCoachable == phase # "uncoachable"

\* o with one more finding of violation v in its i-th category.
WithViolation(o, i, v) ==
    [o EXCEPT !.categories[i].violations =
        Append(@, [criterion |-> v, seqs |-> <<0>>])]

(* Scoring is monotone: one more violation found in any block never raises *)
(* the total, and never turns a failed evaluation into a passed one,       *)
(* whatever the caps on occurrences and the deductions are.                *)
FindingsNeverHelp ==
    phase = "accepted" =>
        LET plain == Canonical(answer, pinned) IN
        \A i \in DOMAIN answer.categories :
            \A v \in Block(pinned, answer.categories[i].block).violations :
                LET worse == Canonical(WithViolation(answer, i, v), pinned)
                IN  worse.total <= plain.total /\ (worse.passed => plain.passed)

\* An observation that says everything once and quotes verbatim.
Tidy(c, passed) ==
    /\ Unrepeated(c.failed) /\ Unrepeated(c.evidence)
    /\ \A e \in Range(c.evidence) : e.excerpt # "respaced"
    /\ Unrepeated([i \in DOMAIN InputsOf(c) |-> InputsOf(c)[i].criterion])
    /\ {v.criterion : v \in Range(c.violations)} \subseteq Range(c.failed)
    /\ passed \/ c.failed # <<>>

(* The assembler reports whatever the pipeline stored from an evaluated    *)
(* observation that quotes verbatim, names every criterion once, coaches   *)
(* each at most once, lists its violations as failed and fails no block    *)
(* without a criterion, and every legacy result whose mistakes are lines   *)
(* named once; however many lines were stored since, provided that the     *)
(* transcript's numbers are distinct.                                      *)
TidyIsReportable ==
    /\ TranscriptIsSound(transcript)
    /\ IsRubric(artifacts) =>
           /\ artifacts.canonical.status = "evaluated"
           /\ \A s \in Range(artifacts.canonical.categories) : Tidy(s.seen, s.passed)
    /\ IsLegacy(artifacts) => LegacyCoachingIsSound(artifacts, transcript)
    => Assembles(transcript, artifacts)

(* The checks in a row agree: what the assembler accepts is a valid        *)
(* payload, and the status endpoint's envelope can carry it.               *)
AcceptedIsReadable ==
    Assembles(transcript, artifacts) =>
        LET section == EvaluationSection(artifacts)
            lines   == Len(transcript)
        IN  /\ PayloadIsValid(transcript, artifacts)
            /\ EnvelopeIsValid(ReportStatus(section, lines), section, lines)

(* What a client sees of the same artifacts agrees, although a snapshot,   *)
(* the aggregate and the endpoints derive it apart: a complete aggregate   *)
(* has every section and a score, and it is not applicable exactly when    *)
(* the snapshot's section is; once the artifacts are stored, a snapshot    *)
(* that is ready has a complete aggregate; coaching is counted alike; the  *)
(* evaluation can be shown; and no failing query completes an aggregate.   *)
ViewsAgree ==
    LET whole    == AggregateReport(transcript, artifacts, {})
        section  == EvaluationSection(artifacts)
        shown    == EvaluationShown(artifacts)
        assembled == Assembles(transcript, artifacts)
    IN  /\ \A failing \in SUBSET Loaded :
               LET partial == AggregateReport(transcript, artifacts, failing) IN
               partial.completion = "complete" =>
                   /\ failing = {} /\ transcript # <<>>
                   /\ partial.score = "evaluated" /\ partial.data[1].scored
        /\ assembled => /\ (whole.score = "not_applicable")
                               <=> (section.mode \in TerminalModes)
                        /\ shown.found /\ ReportStatus(section, Len(transcript)) = "ready"
                               => whole.completion = "complete"
        /\ (whole.kind = "current") <=> IsRubric(artifacts)
        /\ shown.found =>
               /\ CoachingShown(artifacts) = CoachingStored(artifacts)
               /\ shown.strengths \in 1..5 /\ shown.weaknesses \in 1..5
               /\ shown.canonical => shown.competencies = {}

(* A session that was too short to evaluate still gets a report, which     *)
(* says so (test_report_status_terminal_fixtures expects a ready report    *)
(* with status too_short).                                                 *)
ShortSessionsAreReported ==
    phase = "stored" /\ TooShort(heard) => report # "failed"

-----------------------------------------------------------------------------
(* The inductive invariant *)

\* The pipeline read a prefix of the transcript; lines only come behind it.
HeardIsAPrefix ==
    phase # "ended" /\ pinned # Unpinned =>
        \E n \in 0..Len(transcript) : heard = [i \in 1..n |-> transcript[i].speaker]

\* Who is evaluated has a published standard.
PinnedIsPublished ==
    /\ pinned \in Standards \cup {Unpinned}
    /\ phase \in {"asking", "accepted", "stored"} => pinned # Unpinned

\* What was accepted was validated against what was heard, or not asked for.
AnswerIsGrounded ==
    phase \in {"accepted", "stored"} =>
        \/ answer = NotApplicable(pinned)
        \/ answer \in ObservationsOf(Names) /\ Valid(answer, pinned, heard)

\* The artifacts are of the answer, or of the legacy engines.
ArtifactsAreOfAnswer ==
    \/ artifacts = NoArtifacts
    \/ \E r \in LegacyAnswers, short \in BOOLEAN :
           artifacts = LegacyArtifacts(r, short)
    \/ phase = "stored" /\ artifacts = Artifacts(answer, pinned)

PipelineIInv ==
    /\ phase \in Phases /\ AcceptedIsCoachable
    /\ transcript \in Seq(Lines) /\ Gapless(transcript)
    /\ PinnedIsPublished /\ HeardIsAPrefix
    /\ AnswerIsGrounded /\ ArtifactsAreOfAnswer
=============================================================================
