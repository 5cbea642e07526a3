---------------------------- MODULE MCEvaluationRun ----------------------------
(* Two blocks: the first with a behaviour 1 and a penalised violation 2,   *)
(* the second with a behaviour 3.  The observations vary the first block's *)
(* category in every respect and take the second's from three examples.   *)
EXTENDS EvaluationRun

Line(speaker, number) == [speaker |-> speaker, number |-> number, late |-> FALSE]

Call == <<Line("agent", 0), Line("debtor", 1), Line("agent", 2),
          Line("agent", 3), Line("agent", 4)>>

MCTranscripts ==
    {<<>>, SubSeq(Call, 1, 2), Call,
     Append(Call, Line("debtor", 4))}      \* two voice calls drew the same number

Opening == [id |-> 1, weight |-> 60, passing |-> 70, positives |-> {1},
            violations |-> {2}, names |-> {"greeting", "empathy"},
            penalties |-> <<[violation |-> 2, deduction |-> 20, max |-> 2]>>]
Closing == [id |-> 2, weight |-> 40, passing |-> 50, positives |-> {3},
            violations |-> {}, names |-> {"summary"}, penalties |-> <<>>]
MCStandards ==
    {[overall |-> 75, blocks |-> {Opening, Closing}],
     [overall |-> 60, blocks |-> {[Opening EXCEPT !.passing = 50], Closing}]}

E(n, speaker, excerpt) == [seq |-> n, speaker |-> speaker, excerpt |-> excerpt]
F(k, seqs) == [criterion |-> k, seqs |-> seqs]
I(k, n) == [criterion |-> k, seq |-> n]

Evidence == {<<>>, <<E(0, "agent", "start")>>,
             <<E(0, "agent", "start"), E(2, "agent", "end")>>,
             <<E(0, "agent", "start"), E(0, "agent", "start")>>,
             <<E(0, "agent", "start"), E(1, "agent", "start")>>,
             <<E(0, "agent", "start"), E(2, "agent", "respaced")>>,
             <<E(0, "agent", "start"), E(2, "agent", "foreign")>>,
             <<E(0, "agent", "start"), E(7, "agent", "start")>>}
Strengths == {<<>>, <<F(1, <<0>>)>>, <<F(1, <<2>>)>>}
Violations == {<<>>, <<F(2, <<0>>)>>, <<F(2, <<0>>), F(2, <<2>>)>>}
Failed == {<<>>, <<1>>, <<2>>, <<1, 2>>, <<2, 2>>}
Inputs == {<<>>, <<I(1, 0)>>, <<I(2, 0)>>, <<I(1, 0), I(2, 2)>>,
           <<I(2, 0), I(2, 2)>>, <<I(2, 0), I(2, 0)>>}

Category(id, raw, evidence, strengths, violations, failed, inputs) ==
    [block |-> id, raw |-> raw, evidence |-> evidence, strengths |-> strengths,
     violations |-> violations, failed |-> failed, inputs |-> inputs]

Second == {Category(2, 100, <<>>, <<>>, <<>>, <<>>, <<>>),
           Category(2, 40, <<E(2, "agent", "end")>>, <<>>, <<>>, <<3>>, <<I(3, 2)>>),
           Category(2, 40, <<>>, <<>>, <<>>, <<>>, <<>>)}

Observed(categories) ==
    [status |-> "evaluated", categories |-> categories, applied |-> <<>>,
     missed |-> <<>>]

Scored ==
    {Observed(<<Category(1, raw, evidence, strengths, violations, failed, inputs), second>>) :
        raw \in {75, 100}, evidence \in Evidence, strengths \in Strengths,
        violations \in Violations, failed \in Failed, inputs \in Inputs,
        second \in Second}

Plain == Observed(<<Category(1, 100, <<>>, <<>>, <<>>, <<>>, <<>>),
                    Category(2, 100, <<>>, <<>>, <<>>, <<>>, <<>>)>>)
Used(name, n) == [name |-> name, seqs |-> <<n>>]

Odd ==
    {[Plain EXCEPT !.applied = <<Used("empathy", 0), Used("EMPATHY", 2)>>],
     [Plain EXCEPT !.applied = <<Used("empathy", 0)>>, !.missed = <<"EMPATHY">>],
     [Plain EXCEPT !.missed = <<"summary", "summary">>],
     [Plain EXCEPT !.applied = <<Used("empathy", 9)>>],
     [Plain EXCEPT !.missed = <<"charm">>],
     [Plain EXCEPT !.categories = Tail(@)],
     [Plain EXCEPT !.categories = @ \o Tail(@)],
     [Plain EXCEPT !.categories[1].raw = Unscored],
     NotApplicable(CHOOSE s \in MCStandards : TRUE)}

MCLegacyAnswers ==
    {[scores |-> [opening |-> opening, compliance |-> 70, empathy |-> empathy,
                  resolution |-> 100],
      strengths |-> strengths, weaknesses |-> 1, mistakes |-> mistakes] :
        opening \in {-5, 69, 70}, empathy \in {70, 130}, strengths \in {0, 6},
        mistakes \in {<<>>, <<[category |-> "bluster", position |-> 0, excerpt |-> "start"]>>,
                      <<[category |-> "empathy", position |-> 0, excerpt |-> "start"],
                        [category |-> "empathy", position |-> 0, excerpt |-> "start"]>>,
                      <<[category |-> "empathy", position |-> 9, excerpt |-> "start"]>>}}

MCNames == {"greeting", "empathy", "EMPATHY", "summary", "charm"}
MCObservations == Scored \cup Odd
=============================================================================
