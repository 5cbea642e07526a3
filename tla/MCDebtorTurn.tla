----------------------------- MODULE MCDebtorTurn -----------------------------
(* Every combination of a few entries per part of a script, messages of up to *)
(* two phrases, up to three answers of the model.                             *)
EXTENDS DebtorTurn

SafeSeq == <<{"unsure"}, {"moment"}, {"options"}>>
LimitRecord == [size |-> 3, triggers |-> 1, replies |-> 1, escalations |-> 2,
                text |-> 2]

Rule(trigger, change) == [trigger |-> trigger, change |-> change]
Entry(when, what) == [when |-> when, what |-> what]
Escalation(ends) ==
    [when |-> {"lawyer"}, what |-> {"bye", "secret"}, ends |-> ends]
Payment == [when |-> {"pay"}, what |-> {"half"}, accepted |-> TRUE]

ProhibitedLists == {<<>>, <<{"secret"}>>, <<{"secret"}, {"unsure"}>>,
                    <<{"unsure"}, {"moment"}, {"options"}>>}
EscalationLists == {<<>>, <<Escalation(TRUE)>>,
                    <<Escalation(FALSE), Escalation(TRUE)>>}

Definition(missing, size, replies, prohibited, rules, escalations, goal) ==
    [missing |-> missing, size |-> size, opening |-> {"hello"},
     replies |-> replies, prohibited |-> prohibited, rules |-> rules,
     escalations |-> escalations, goal |-> goal,
     triggers |-> <<Entry({"pay"}, {"sigh"})>>, payments |-> <<Payment>>]

RulesFor(prohibited) ==
    CASE Len(prohibited) = 1 -> <<Rule("aggressive", {"increase", "calm"})>>
      [] Len(prohibited) = 2 -> <<Rule("neutral", {"decrease", "anger"}),
                            Rule("neutral", {"anger"})>>
      [] OTHER -> <<>>

DefinitionSet ==
    {Definition({}, 1, <<{"yes"}>>, <<{"secret"}>>, RulesFor(<<1>>), e,
                {"done", "pay"}) : e \in EscalationLists}
    \cup {Definition({}, 1, <<{"yes"}>>, p, RulesFor(p), <<Escalation(TRUE)>>,
                     {"done", "pay"}) : p \in ProhibitedLists}
    \cup {Definition(m, s, r, p, <<>>, <<>>, g) : m \in {{}, {"goal"}},
        s \in {1, 4}, p \in ProhibitedLists,
        r \in {<<{"secret"}>>, <<{"secret"}, {"yes"}>>},
        g \in {{"pay"}, {"done", "pay", "now"}}}

MessageSet == {{"hi"}, {"help"}, {"must", "pay"}, {"lawyer"}, {"pay", "done"}}

AnswerSet == {<<{"fine", "[end_call]"}>>, <<{}>>, <<{"secret"}, {"fine"}>>,
              <<{"secret"}, {"secret"}, {"secret"}>>}
===============================================================================
