------------------------------ MODULE ReportViews ------------------------------
(***************************************************************************)
(* What a client is shown of a session's artifacts without a snapshot.     *)
(*                                                                         *)
(* The aggregate report loads each section with a query of its own, any of *)
(* which may fail, and classifies the whole; the evaluation and coaching   *)
(* endpoints read the same rows and derive what they show by themselves.   *)
(* t and a are those of ReportAssembly.                                    *)
(***************************************************************************)
EXTENDS ReportAssembly

\* Sections that are loaded by a query; metadata is always there.
Loaded == {"transcript", "evaluation", "coaching", "learning_plan"}

-----------------------------------------------------------------------------
(* The aggregate report.  failing: sections whose query raises.            *)

HasData(name, t, a) == IF name = "transcript" THEN t # <<>> ELSE a.kind # "none"

\* _load_section
LoadSection(name, t, a, failing) ==
    CASE name \in failing -> "failed"
      [] name \notin failing /\ HasData(name, t, a) -> "loaded"
      [] OTHER -> "empty"

\* _evaluation: the data of the section, or none when it is empty or failed.
\* A score is not shown of an evaluation that was too short.
EvaluationData(t, a, failing) ==
    IF LoadSection("evaluation", t, a, failing) # "loaded" THEN <<>>
    ELSE LET short == \/ a.tooShort
                      \/ IsRubric(a) /\ a.canonical.status = "not_applicable"
         IN  <<[short |-> short, scored |-> ~short,
                rubric |-> IF IsRubric(a) THEN a.canonical.status ELSE "none"]>>

\* _score_status
ScoreStatus(data) ==
    CASE data = <<>> -> "unavailable"
      [] data # <<>> /\ (data[1].short \/ data[1].rubric = "not_applicable")
             -> "not_applicable"
      [] OTHER -> "evaluated"

\* _summary
SummaryState(data) == IF data = <<>> THEN "empty" ELSE "loaded"

\* Plausible bug: the terminal states are judged before the failed sections.
Completion_of_loaded(states, data) ==
    CASE ScoreStatus(data) = "not_applicable" -> "not_applicable"
      [] "loaded" \in states -> "complete"
      [] OTHER -> "partial"

\* _completion
Completion(states, data) ==
    CASE states = {"failed"} -> "failed"
      [] ScoreStatus(data) = "not_applicable" -> "not_applicable"
      [] ScoreStatus(data) # "not_applicable"
             /\ states \cap {"failed", "empty"} # {} -> "partial"
      [] OTHER -> "complete"

\* _version: only an evaluation made against a pinned version is current.
EvaluationKind(data) ==
    IF data = <<>> \/ data[1].rubric = "none" THEN "legacy" ELSE "current"

\* get_report
AggregateReport(t, a, failing) ==
    LET data   == EvaluationData(t, a, failing)
        states == {"loaded", SummaryState(data)}
                      \cup {LoadSection(name, t, a, failing) : name \in Loaded}
    IN  [completion |-> Completion(states, data), score |-> ScoreStatus(data),
         kind |-> EvaluationKind(data), data |-> data]

-----------------------------------------------------------------------------
(* The endpoints of single artifacts *)

\* _canonical_to_legacy_result: as many findings as the categories hold, at most
\* five, and the summary in place of none.
Compatible(found) == OneToFive(SumOf([i \in DOMAIN found |-> Len(found[i])]))

\* get_session_evaluation: legacy scores are hidden behind canonical ones, and
\* missing findings are replaced, so that the response has one of each.
EvaluationShown(a) ==
    IF a.kind = "none" THEN [found |-> FALSE]
    ELSE LET canonical == IsRubric(a) /\ a.canonical.categories # <<>>
             cats      == a.canonical.categories
         IN  [found |-> TRUE, canonical |-> canonical,
              competencies |-> IF IsLegacy(a) THEN DOMAIN a.evaluation.scores ELSE {},
              strengths |->
                  IF canonical
                  THEN Compatible([i \in DOMAIN cats |-> cats[i].seen.strengths])
                  ELSE a.evaluation.strengths,
              weaknesses |->
                  IF canonical
                  THEN Compatible([i \in DOMAIN cats |-> cats[i].seen.violations])
                  ELSE a.evaluation.weaknesses]

\* The stored rows of the recommendations, or those of the coaching's blocks.
ShownRecommendations(a) ==
    IF a.recommended # <<>> THEN a.recommended
    ELSE FlattenSeq([i \in 1..Cardinality(DOMAIN a.coaching.blocks) |->
             a.coaching.blocks[Sorted(DOMAIN a.coaching.blocks)[i]]])

\* get_session_coaching counts what it shows; the aggregate shows the stored
\* total.
CoachingShown(a) ==
    IF IsRubric(a)
    THEN [total |-> Len(ShownRecommendations(a)),
          none |-> ShownRecommendations(a) = <<>>]
    ELSE [total |-> Len(a.mistakes), none |-> a.mistakes = <<>>]

CoachingStored(a) ==
    IF IsRubric(a) THEN [total |-> a.coaching.total, none |-> a.coaching.none]
    ELSE [total |-> Len(a.mistakes), none |-> a.mistakes = <<>>]
================================================================================
