---------------------------- MODULE ReportAssembly ----------------------------
(***************************************************************************)
(* What the report assembler accepts.                                      *)
(*                                                                         *)
(* A report is built from the stored transcript and the stored artifacts   *)
(* of a session; the assembler checks their references, the payload's      *)
(* schema checks the sections again, and a report that passed both is read *)
(* through a status envelope with a schema of its own.                     *)
(*                                                                         *)
(* t: the stored lines [speaker, number], by number.  a: the artifacts,    *)
(*   [kind |-> "none"], [kind |-> "legacy", evaluation, mistakes, plan,    *)
(*   tooShort] of the time before the rubrics, or what the pipeline stored *)
(*   as one unit:                                                          *)
(*   [kind |-> "rubric", canonical, recommended, coaching, plan,           *)
(*    tooShort, scored], scored: weighted_total, passing_score and passed  *)
(*    are not NULL.                                                        *)
(***************************************************************************)
EXTENDS Rubric

NoArtifacts == [kind |-> "none"]
IsRubric(a) == a.kind = "rubric"
IsLegacy(a) == a.kind = "legacy"

\* r: the model's answer to the legacy engines; no score when too short.
LegacyArtifacts(r, short) ==
    LET evaluation == IF short THEN LegacyTooShort ELSE LegacyEvaluation(r)
    IN  [kind |-> "legacy", evaluation |-> evaluation, tooShort |-> short,
         mistakes |-> LegacyCoaching(r), plan |-> LegacyPlan(evaluation)]

\* No element occurs twice.
Unrepeated(s) == IsInjective(s)

-----------------------------------------------------------------------------
(* Plausible bugs *)

ReportStatus_of_evidence(section, lines) ==
    IF section.mode \in {"not_applicable", "too_short"} THEN section.mode
    ELSE IF section.mode = "legacy" THEN "legacy_only"
    ELSE IF lines = 0 THEN "empty_transcript"
    ELSE IF section.evidence = 0 THEN "no_evidence" ELSE "ready"

-----------------------------------------------------------------------------
(* The assembler *)

TranscriptIsSound(t) == Unrepeated([i \in DOMAIN t |-> t[i].number])

\* _validate_evidence_reference with a speaker and an excerpt, and without.
Exists(n, t) == \E i \in DOMAIN t : t[i].number = n

Quotes(e, t) ==
    /\ e.excerpt \in Passages
    /\ \E i \in DOMAIN t : t[i].number = e.seq /\ t[i].speaker = e.speaker

QuoteIsSound(r, t) ==
    IF r.quotes = <<>> THEN Exists(r.seq, t) ELSE Quotes(Head(r.quotes), t)

CategoryIsSound(c, t) ==
    /\ Unrepeated(c.failed)
    /\ Unrepeated(c.evidence)
    /\ \A e \in Range(c.evidence) : Quotes(e, t)
    /\ \A f \in Range(c.strengths) \cup Range(c.violations) :
           \A n \in Range(f.seqs) : Exists(n, t)
    /\ \A i \in Range(c.inputs) : Exists(i.seq, t)

\* _validate_canonical_references
ReferencesAreSound(a, t) ==
    LET cs == [i \in DOMAIN a.canonical.categories |->
                  a.canonical.categories[i].seen]
    IN  /\ Unrepeated([i \in DOMAIN cs |-> cs[i].block])
        /\ \A c \in Range(cs) : CategoryIsSound(c, t)
        /\ Unrepeated(FlattenSeq([i \in DOMAIN cs |-> cs[i].inputs]))
        /\ Unrepeated(a.recommended)
        /\ \A r \in Range(a.recommended) :
               r.block \in {c.block : c \in Range(cs)} /\ QuoteIsSound(r, t)
        /\ \A technique \in Range(a.canonical.applied) :
               \A n \in Range(technique.seqs) : Exists(n, t)

EvaluationIsSound(a, t) ==
    IsRubric(a) =>
        LET cats == Range(a.canonical.categories) IN
        IF a.tooShort THEN cats = {} /\ ~a.scored
        ELSE /\ \A s \in cats :
                    (a.canonical.status = "evaluated") <=> (s.seen.raw # Unscored)
             /\ ReferencesAreSound(a, t)
             /\ a.canonical.status = "not_applicable" => ~a.scored

\* One recommendation per block and criterion.
CoachingSectionIsSound(a, t) ==
    \A id \in DOMAIN a.coaching.blocks :
        LET recs == a.coaching.blocks[id]
        IN  /\ Unrepeated([i \in DOMAIN recs |-> recs[i].criterion])
            /\ \A r \in Range(recs) : r.block = id /\ QuoteIsSound(r, t)

\* The legacy branch of _build_coaching_section
LegacyCoachingIsSound(a, t) ==
    /\ \A m \in Range(a.mistakes) : Exists(m.position, t)
    /\ Unrepeated(a.mistakes)

\* Legacy items have neither block nor criterion and pass.
PlanSectionIsSound(a) ==
    \A item \in a.plan.items :
        /\ item.criterion # NoCriterion
        /\ \E s \in Range(a.canonical.categories) :
               /\ s.seen.block = item.block
               /\ item.criterion \in Range(s.seen.failed)

\* assemble_report_payload raises nothing.  Artifacts that are missing make
\* sections that say so.
Assembles(t, a) ==
    /\ TranscriptIsSound(t)
    /\ EvaluationIsSound(a, t)
    /\ IsRubric(a) => CoachingSectionIsSound(a, t) /\ PlanSectionIsSound(a)
    /\ IsLegacy(a) => LegacyCoachingIsSound(a, t)

EvidenceCount(a) ==
    IF IsRubric(a)
    THEN SumOf([i \in DOMAIN a.canonical.categories |->
                   Len(a.canonical.categories[i].seen.evidence)])
    ELSE 0

\* The section _build_evaluation_section returns.  evidence: excerpts in it.
EvaluationSection(a) ==
    LET Section(mode, reason, canonical, legacy, scored) ==
            [available |-> a.kind # "none", mode |-> mode, reason |-> reason,
             canonical |-> canonical, legacy |-> legacy, scored |-> scored,
             evidence |-> EvidenceCount(a)]
    IN  IF a.kind = "none"
        THEN Section("none", "artifact_missing", FALSE, FALSE, FALSE)
        ELSE IF a.tooShort
        THEN Section("too_short", "session_too_short", FALSE, FALSE, FALSE)
        ELSE IF a.kind = "legacy"
        THEN Section("legacy", "legacy_only", FALSE, TRUE, FALSE)
        ELSE IF a.canonical.status = "not_applicable"
        THEN Section("not_applicable", "not_applicable", TRUE, FALSE, FALSE)
        ELSE Section("canonical",
                     IF EvidenceCount(a) = 0 THEN "no_evidence" ELSE "none",
                     TRUE, FALSE, a.scored)

-----------------------------------------------------------------------------
(* The schema of the payload *)

TerminalModes == {"not_applicable", "too_short"}

\* ReportReasonCode and SECTION_REASON_MATRIX
Reasons ==
    [transcript |-> {"artifact_missing", "empty_transcript"},
     evaluation |-> {"artifact_missing", "not_applicable", "session_too_short",
                     "legacy_only", "no_evidence"}]

\* _validate_section_reason
ReasonIsValid(name, available, reason, empty) ==
    /\ reason # "none" => reason \in Reasons[name]
    /\ ~available => reason # "none" /\ empty

EvaluationSectionIsValid(section) ==
    /\ ReasonIsValid("evaluation", section.available, section.reason,
                     ~section.canonical /\ ~section.legacy)
    /\ section.available => section.mode # "none"
    /\ section.mode = "canonical" => section.canonical /\ ~section.legacy
    /\ section.mode = "legacy" => section.legacy /\ ~section.canonical
    /\ section.reason = "legacy_only" => section.mode = "legacy"
    /\ section.reason = "no_evidence" => section.mode = "canonical"
    /\ section.mode \in TerminalModes =>
           /\ section.reason \in {"not_applicable", "session_too_short"}
           /\ ~section.scored
    /\ section.mode = "too_short" => ~section.canonical /\ ~section.legacy
    /\ section.reason \in {"not_applicable", "session_too_short"} =>
           section.mode \in TerminalModes

\* TranscriptSection, with the reason _build_transcript_section gives:
\* strictly increasing numbers, and a reason exactly when it is empty.
TranscriptSectionIsValid(t) ==
    LET reason == IF t = <<>> THEN "empty_transcript" ELSE "none"
    IN  /\ ReasonIsValid("transcript", TRUE, reason, t = <<>>)
        /\ (t = <<>>) <=> (reason = "empty_transcript")
        /\ \A i, j \in DOMAIN t : i < j => t[i].number < t[j].number

\* CoachingSection: criteria and evidence unique in each block.
CoachingSectionIsValid(a) ==
    \A id \in DOMAIN a.coaching.blocks :
        LET recs == a.coaching.blocks[id]
        IN  /\ \A r \in Range(recs) : r.block = id
            /\ Unrepeated([i \in DOMAIN recs |-> recs[i].criterion])
            /\ Unrepeated([i \in DOMAIN recs |-> <<recs[i].criterion, recs[i].seq>>])

\* LearningPlanSection: a block has a criterion, and each pair occurs once.
PlanSectionIsValid(a) == \A item \in a.plan.items : item.criterion # NoCriterion

\* SessionReportPayload.validate_payload_identity
PayloadReferencesAreValid(a, t) ==
    LET numbers == {t[i].number : i \in DOMAIN t}
        cs      == [i \in DOMAIN a.canonical.categories |->
                       a.canonical.categories[i].seen]
    IN  /\ Unrepeated([i \in DOMAIN cs |-> cs[i].block])
        /\ \A c \in Range(cs) :
               /\ Unrepeated(c.failed)
               /\ Unrepeated(c.evidence)
               /\ EvidenceNumbers(c) \subseteq numbers
               /\ \A f \in Range(c.strengths) \cup Range(c.violations) :
                      Range(f.seqs) \subseteq numbers
               /\ {i.seq : i \in Range(c.inputs)} \subseteq numbers
        /\ Unrepeated([i \in DOMAIN a.recommended |->
               <<a.recommended[i].block, a.recommended[i].criterion,
                 a.recommended[i].seq>>])

PayloadIsValid(t, a) ==
    /\ TranscriptSectionIsValid(t)
    /\ EvaluationSectionIsValid(EvaluationSection(a))
    /\ IsRubric(a) => CoachingSectionIsValid(a) /\ PlanSectionIsValid(a)
    /\ EvaluationSection(a).canonical => PayloadReferencesAreValid(a, t)

-----------------------------------------------------------------------------
(* Reading a ready report *)

\* _resolve_ready_status without a later attempt.  lines: transcript entries.
ReportStatus(section, lines) ==
    IF section.mode \in TerminalModes THEN section.mode
    ELSE IF section.mode = "legacy" THEN "legacy_only"
    ELSE IF lines = 0 THEN "empty_transcript"
    ELSE IF section.reason = "no_evidence" THEN "no_evidence" ELSE "ready"

\* The validators of the envelope classes.
EnvelopeIsValid(status, section, lines) ==
    /\ status = "not_applicable" => section.mode = "not_applicable"
    /\ status = "too_short" => section.mode = "too_short"
    /\ status = "legacy_only" => section.mode = "legacy" /\ ~section.canonical
    /\ status = "empty_transcript" => lines = 0
    /\ status = "no_evidence" => section.mode = "canonical"
=============================================================================
