-------------------------------- MODULE Rubric --------------------------------
(***************************************************************************)
(* What is computed from one answer of the evaluator model: whether the    *)
(* observation is grounded in the transcript and the pinned standard, its  *)
(* score, the recommendations and the learning plan; and the same for the  *)
(* engines of the time before the rubrics.                                 *)
(*                                                                         *)
(* An observation has one category per rubric block, with the sequences    *)
(*   evidence   of [seq, speaker, excerpt]                                 *)
(*   strengths  of [criterion, seqs], violations the same                  *)
(*   failed     of criteria                                                *)
(*   inputs     of [criterion, seq], the model's recommendation inputs     *)
(* An excerpt is one of the passages "start" and "end" of its line,        *)
(* "respaced" when the line contains it up to white space only, "foreign"  *)
(* when it does not.  Scores are integers; weighted points are in          *)
(* hundredths, where they are exact.                                       *)
(***************************************************************************)
EXTENDS Integers, Sequences, FiniteSets, SequencesExt, FiniteSetsExt

Unscored == -1       \* raw_score None
NoCriterion == 0     \* criterion_id None; criteria are positive numbers
Passages == {"start", "end"}

-----------------------------------------------------------------------------
(* Sequences *)

SumOf(numbers) == FoldLeft(LAMBDA sum, n : sum + n, 0, numbers)

\* The elements of s at the places, in their order.
Picked(s, places) ==
    LET upTo[n \in 0..Len(s)] ==
            IF n = 0 THEN <<>>
            ELSE IF n \in places THEN Append(upTo[n-1], s[n]) ELSE upTo[n-1]
    IN  upTo[Len(s)]

Sorted(ids) == SetToSortSeq(ids, <)

\* How often a penalised violation was found.
Occurrences(c, penalty) ==
    Cardinality({i \in DOMAIN c.violations :
                     c.violations[i].criterion = penalty.violation})

-----------------------------------------------------------------------------
(* Plausible bugs *)

PenaltyTotal_uncounted(c, b) ==
    SumOf([k \in DOMAIN b.penalties |->
               LET p == b.penalties[k]
               IN  (IF Occurrences(c, p) <= p.max THEN Occurrences(c, p) ELSE 0)
                       * p.deduction])

InputIsGrounded_by_category(i, c, b) ==
    /\ i.criterion \in b.positives \cup b.violations
    /\ \E e \in Range(c.evidence) : e.seq = i.seq

PlanTargets_of_inputs(c) ==
    Range(c.failed) \cup {i.criterion : i \in Range(c.inputs)}
        \cup {v.criterion : v \in Range(c.violations)}

-----------------------------------------------------------------------------
(* The pinned standard: [overall, blocks], a set of blocks                 *)
(*   [id, weight, passing, positives, violations, penalties, names].       *)

Block(standard, id) == CHOOSE b \in standard.blocks : b.id = id

Criteria(b) == b.positives \cup b.violations

\* casefold: the names of techniques that differ in case only.
Fold(name) == IF name = "EMPATHY" THEN "empathy" ELSE name

TechniqueNames(standard) == UNION {b.names : b \in standard.blocks}

WeightTotal(blocks) == FoldSet(LAMBDA b, total : total + b.weight, 0, blocks)

\* What validate_standard and the schema ask of published content.
IsStandard(s) ==
    /\ s.overall \in 0..100
    /\ s.blocks # {} /\ IsFiniteSet(s.blocks)
    /\ WeightTotal(s.blocks) = 100
    /\ \A b \in s.blocks :
           /\ {b.weight, b.passing} \subseteq 0..100
           /\ b.penalties \in Seq([violation : Nat, deduction : 0..100, max : 0..100])
           /\ NoCriterion \notin Criteria(b)
    /\ \A b, c \in s.blocks :
           b.id = c.id \/ Criteria(b) \cap Criteria(c) # {} => b = c

-----------------------------------------------------------------------------
(* Validation *)

\* The types of the observation's schema.
Findings == Seq([criterion : Nat, seqs : Seq(Nat)])
Categories ==
    [block : Nat, raw : {Unscored} \cup 0..100,
     evidence : Seq([seq : Nat, speaker : {"agent", "debtor"},
                     excerpt : Passages \cup {"respaced", "foreign"}]),
     strengths : Findings, violations : Findings, failed : Seq(Nat),
     inputs : Seq([criterion : Nat, seq : Nat])]
ObservationsOf(names) ==
    [status : {"evaluated", "not_applicable"}, categories : Seq(Categories),
     applied : Seq([name : names, seqs : Seq(Nat)]), missed : Seq(names)]

\* _deduplicate_technique_lists: the first entry of each name stays.
Deduplicated(items, names) ==
    Picked(items, {i \in DOMAIN items :
                       \A j \in 1..i-1 : Fold(names[j]) # Fold(names[i])})

Deduplicate(o) ==
    [o EXCEPT !.applied = Deduplicated(@, [i \in DOMAIN @ |-> @[i].name]),
              !.missed  = Deduplicated(@, @)]

\* What the observation's schema asks beyond types.
WellFormed(o) ==
    LET applied == {Fold(t.name) : t \in Range(o.applied)}
        missed  == {Fold(t) : t \in Range(o.missed)}
    IN  /\ o.categories # <<>>
        /\ \A c \in Range(o.categories) :
               /\ (o.status = "evaluated") <=> (c.raw # Unscored)
               /\ \A f \in Range(c.strengths) \cup Range(c.violations) :
                      f.seqs # <<>>
        /\ Cardinality(applied) = Len(o.applied)
        /\ Cardinality(missed) = Len(o.missed)
        /\ applied \cap missed = {}

EvidenceNumbers(c) == {e.seq : e \in Range(c.evidence)}

FindingsOn(c) ==
    {f.criterion : f \in Range(c.strengths) \cup Range(c.violations)}

\* criterion_evidence
Cited(c, k) ==
    UNION {Range(f.seqs) : f \in {g \in Range(c.strengths) \cup Range(c.violations) :
                                      g.criterion = k}}

\* lines: the evaluated transcript as speakers; the evaluator numbers it 0, 1, ...
EvidenceMatches(e, lines) ==
    /\ e.seq + 1 \in DOMAIN lines
    /\ lines[e.seq + 1] = e.speaker
    /\ e.excerpt \in Passages \cup {"respaced"}

InputIsGrounded(i, c, b) ==
    /\ i.criterion \in Criteria(b)
    /\ i.seq \in EvidenceNumbers(c)
    /\ IF i.criterion \in FindingsOn(c)
       THEN i.seq \in Cited(c, i.criterion)
       ELSE i.criterion \in Range(c.failed)

CategoryIsGrounded(c, b, lines) ==
    /\ \A e \in Range(c.evidence) : EvidenceMatches(e, lines)
    /\ \A f \in Range(c.strengths) : f.criterion \in Criteria(b)
    /\ \A f \in Range(c.violations) : f.criterion \in b.violations
    /\ \A f \in Range(c.strengths) \cup Range(c.violations) :
           Range(f.seqs) \subseteq EvidenceNumbers(c)
    /\ Range(c.failed) \subseteq Criteria(b)
    /\ \A i \in Range(c.inputs) : InputIsGrounded(i, c, b)
    /\ Range(c.failed) \subseteq
           FindingsOn(c) \cup {i.criterion : i \in Range(c.inputs)}

\* validate_observation raises nothing.
Valid(o, standard, lines) ==
    LET names == {Fold(n) : n \in TechniqueNames(standard)}
        ids   == [i \in DOMAIN o.categories |-> o.categories[i].block]
    IN  /\ WellFormed(o)
        /\ IsInjective(ids)
        /\ Range(ids) = {b.id : b \in standard.blocks}
        /\ \A c \in Range(o.categories) :
               CategoryIsGrounded(c, Block(standard, c.block), lines)
        /\ \A t \in Range(o.applied) :
               Fold(t.name) \in names /\ \A n \in Range(t.seqs) : n < Len(lines)
        /\ \A t \in Range(o.missed) : Fold(t) \in names

-----------------------------------------------------------------------------
(* Scoring *)

PenaltyTotal(c, b) ==
    SumOf([k \in DOMAIN b.penalties |->
               LET p == b.penalties[k]
               IN  Min({Occurrences(c, p), p.max}) * p.deduction])

ScoreCategory(c, b) ==
    IF c.raw = Unscored
    THEN [seen |-> c, penalty |-> 0, penalized |-> Unscored, points |-> 0,
          passed |-> FALSE]
    ELSE LET penalty   == PenaltyTotal(c, b)
             penalized == Max({0, c.raw - penalty})
         IN  [seen |-> c, penalty |-> penalty, penalized |-> penalized,
              points |-> penalized * b.weight,
              passed |-> penalized >= b.passing]

\* calculate_rubric_score; the categories' order is display only.
Canonical(o, standard) ==
    LET scores == [i \in DOMAIN o.categories |->
                      ScoreCategory(o.categories[i],
                                    Block(standard, o.categories[i].block))]
        total  == SumOf([i \in DOMAIN scores |-> scores[i].points])
    IN  [status |-> o.status, categories |-> scores, total |-> total,
         passed |-> /\ o.status = "evaluated"
                    /\ total >= 100 * standard.overall
                    /\ \A s \in Range(scores) : s.passed,
         applied |-> o.applied]

\* The observation stored for a session with too few agent lines.
NotApplicable(standard) ==
    [status |-> "not_applicable", applied |-> <<>>, missed |-> <<>>,
     categories |-> [i \in 1..Cardinality(standard.blocks) |->
        [block |-> Sorted({b.id : b \in standard.blocks})[i],
         raw |-> Unscored, evidence |-> <<>>, strengths |-> <<>>,
         violations |-> <<>>, failed |-> <<>>, inputs |-> <<>>]]]

-----------------------------------------------------------------------------
(* Recommendations and coaching *)

\* The model's own inputs, or one per violation and per cited failed criterion.
InputsOf(c) ==
    IF c.inputs # <<>> THEN c.inputs
    ELSE [i \in DOMAIN c.violations |->
             [criterion |-> c.violations[i].criterion,
              seq |-> Head(c.violations[i].seqs)]]
         \o LET cited == Picked(c.failed, {n \in DOMAIN c.failed :
                                               c.failed[n] \in FindingsOn(c)})
            IN  [i \in DOMAIN cited |->
                    [criterion |-> cited[i], seq |-> Min(Cited(c, cited[i]))]]

\* build_rubric_recommendations does not raise RecommendationValidationError.
Coachable(canonical, standard) ==
    \A s \in Range(canonical.categories) :
        LET c == s.seen IN
        canonical.status = "evaluated" =>
            \A i \in Range(InputsOf(c)) :
                /\ i.criterion \in Criteria(Block(standard, c.block))
                /\ IF i.criterion \in FindingsOn(c)
                   THEN i.seq \in Cited(c, i.criterion)
                   ELSE /\ i.criterion \in Range(c.failed)
                        /\ i.seq \in EvidenceNumbers(c)

\* A recommendation quotes the first evidence of its line, if any.  The
\* ranking by gap, penalty and display order is left out.
RecommendationsOf(c) ==
    [k \in DOMAIN InputsOf(c) |->
        LET i == InputsOf(c)[k]
        IN  [block |-> c.block, criterion |-> i.criterion, seq |-> i.seq,
             quotes |-> Picked(c.evidence, {n \in DOMAIN c.evidence :
                                                c.evidence[n].seq = i.seq})]]

Recommendations(canonical) ==
    IF canonical.status = "not_applicable" THEN <<>>
    ELSE FlattenSeq([i \in DOMAIN canonical.categories |->
                        RecommendationsOf(canonical.categories[i].seen)])

\* _generate_rubric_report: total_mistakes and no_mistakes count what is
\* recommended, the blocks are the recommendations by block.
Coaching(canonical) ==
    LET items == Recommendations(canonical)
    IN  [blocks |-> [id \in {r.block : r \in Range(items)} |->
                        Picked(items, {n \in DOMAIN items : items[n].block = id})],
         total |-> Len(items), none |-> items = <<>>]

-----------------------------------------------------------------------------
(* Learning plan *)

PlanTargets(c) ==
    Range(c.failed) \cup {v.criterion : v \in Range(c.violations)}

\* _generate_rubric_plan, as the set of its items: one per target, or one
\* without a criterion for a block that failed without any.
PlanItems(canonical) ==
    UNION {LET targets == PlanTargets(s.seen) IN
           {[block |-> s.seen.block, criterion |-> k] :
               k \in IF targets # {} THEN targets
                     ELSE IF s.passed THEN {} ELSE {NoCriterion}} :
           s \in Range(canonical.categories)}

Plan(canonical) ==
    IF canonical.status = "not_applicable" THEN [items |-> {}, allPassing |-> FALSE]
    ELSE [items |-> PlanItems(canonical), allPassing |-> PlanItems(canonical) = {}]

-----------------------------------------------------------------------------
(* The engines of the time before the rubrics.  Their answer is            *)
(*   [scores, strengths, weaknesses, mistakes]: a score per competency,    *)
(* how many strengths and weaknesses, and mistakes as                      *)
(*   [category, position, excerpt].                                        *)

Competencies == {"opening", "compliance", "empathy", "resolution"}
Weight == [opening |-> 20, compliance |-> 30, empathy |-> 25, resolution |-> 25]
WeaknessThreshold == 70

Clamp(score) == Max({0, Min({100, score})})

\* At least one finding is shown, at most five.
OneToFive(count) == Max({1, Min({5, count})})

Overall(scores) ==
    FoldSet(LAMBDA c, sum : sum + Weight[c] * scores[c], 0, Competencies)

\* EvaluationEngine.evaluate
LegacyEvaluation(r) ==
    LET scores == [c \in Competencies |-> Clamp(r.scores[c])]
    IN  [scores |-> scores, overall |-> Overall(scores),
         strengths |-> OneToFive(r.strengths),
         weaknesses |-> OneToFive(r.weaknesses)]

LegacyTooShort == [scores |-> <<>>, overall |-> 0, strengths |-> 1, weaknesses |-> 1]

\* CoachingEngine.generate_report skips malformed mistakes.
LegacyCoaching(r) ==
    Picked(r.mistakes, {n \in DOMAIN r.mistakes :
                            /\ r.mistakes[n].category \in Competencies
                            /\ r.mistakes[n].position >= 0})

\* LearningPlanGenerator.generate
LegacyPlan(evaluation) ==
    LET weak == {c \in DOMAIN evaluation.scores :
                     evaluation.scores[c] < WeaknessThreshold}
    IN  [items |-> weak, allPassing |-> weak = {}]
=============================================================================
