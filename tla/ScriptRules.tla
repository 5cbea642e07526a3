----------------------------- MODULE ScriptRules -----------------------------
(***************************************************************************)
(* What a debtor script is, when a definition is accepted, and how its     *)
(* entries match what an agent says.                                       *)
(*                                                                         *)
(* A text is the set of phrases it contains: an entry matches a message    *)
(* when its phrases are among the message's, and two texts are duplicates  *)
(* when they are equal.  The length of a text is its number of phrases.    *)
(***************************************************************************)
EXTENDS Integers, Sequences, SequencesExt, FiniteSetsExt

CONSTANTS
    Soothing,       \* _EMPATHETIC_KEYWORDS
    Threatening,    \* _AGGRESSIVE_KEYWORDS
    Negative,       \* _NEGATIVE_EMOTION_KEYWORDS
    Positive,       \* _POSITIVE_EMOTION_KEYWORDS that are words of their own
    SafeLines,      \* _SAFE_FALLBACK_DEBTOR_RESPONSES, the default first
    Limits          \* [size, triggers, replies, escalations, text]

ASSUME KeywordsAssumption ==
    /\ Soothing \cap Threatening = {}
    /\ Negative \cap Positive = {}
ASSUME SafeLinesAssumption == SafeLines # <<>> /\ SafeLines \in Seq(ToSet(SafeLines))

Modifiers == {"increase", "decrease"}

Moods == 1..5
Neutral == 3

-----------------------------------------------------------------------------
(* Matching *)

Says(text, phrase) == phrase # {} /\ phrase \subseteq text

\* Entries are tried in the order of the list; the first match wins.
FirstMatch(entries, message) ==
    LET met == {i \in DOMAIN entries : Says(message, entries[i].when)}
    IN  IF met = {} THEN <<>> ELSE <<entries[Min(met)]>>

Prohibited(script, text) ==
    \E entry \in ToSet(script.prohibited) : Says(text, entry)

EndingEscalation(script, message) ==
    LET met == FirstMatch(script.escalations, message)
    IN  met # <<>> /\ met[1].ends

GoalIsMet(script, message) == Says(message, script.goal)

\* What the model is told of the script on this turn.
Instructions(script, message) ==
    LET escalation == FirstMatch(script.escalations, message)
    IN  ToSet(FirstMatch(script.triggers, message))
        \cup ToSet(FirstMatch(script.payments, message))
        \cup {entry \in ToSet(escalation) : ~entry.ends}

-----------------------------------------------------------------------------
(* Moods *)

Tone(message) ==
    LET soothing == Cardinality(message \cap Soothing)
        threatening == Cardinality(message \cap Threatening)
    IN  CASE soothing > threatening -> "empathetic"
          [] threatening > soothing -> "aggressive"
          [] OTHER -> "neutral"

\* A keyword is searched in the whole text: "increase" and "decrease" contain
\* the keyword "ease".
Polarity(change) ==
    CASE change \cap Negative # {} -> -1
      [] change \cap (Positive \cup Modifiers) # {} -> 1
      [] OTHER -> 0

Direction(change) ==
    IF "decrease" \in change THEN -Polarity(change) ELSE Polarity(change)

Step(mood, direction) ==
    CASE direction > 0 -> Min({mood + 1, 5})
      [] direction < 0 -> Max({mood - 1, 1})
      [] OTHER -> mood

ToneStep(tone) ==
    CASE tone = "empathetic" -> 1 [] tone = "aggressive" -> -1 [] OTHER -> 0

\* The first rule for the tone decides; without one, the tone does.
NextMood(mood, rules, message) ==
    LET met == {i \in DOMAIN rules : rules[i].trigger = Tone(message)}
    IN  IF met = {} THEN Step(mood, ToneStep(Tone(message)))
        ELSE Step(mood, Direction(rules[Min(met)].change))

-----------------------------------------------------------------------------
(* The reply of the model, or a safe line *)

Fails == {}    \* the provider failed, or answered with an empty text
Attempts == 3

\* Plausible bug: the default is said unchecked.
SafeLine_default(script) == SafeLines[1]

SafeLine(script) ==
    LET clean == {i \in DOMAIN SafeLines : ~Prohibited(script, SafeLines[i])}
    IN  SafeLines[IF clean = {} THEN 1 ELSE Min(clean)]

\* The answers are tried in order until one is clean; a failure ends the tries.
Reply(script, answers) ==
    LET stops == {i \in DOMAIN answers :
                      answers[i] = Fails \/ ~Prohibited(script, answers[i])}
    IN  IF stops = {} \/ answers[Min(stops)] = Fails
        THEN SafeLine(script) ELSE answers[Min(stops)]

-----------------------------------------------------------------------------
(* Validation of a definition *)

Conflicts(definition) ==
    {[kind |-> "conflict", at |-> text] : text \in
        ToSet(definition.prohibited) \cap ToSet(definition.replies)}

\* ScriptContract(**data): its own validator of conflicts runs only when every
\* field is in order.
StructuralErrors(definition) ==
    IF definition.missing # {}
    THEN {[kind |-> "missing", at |-> {field}] : field \in definition.missing}
    ELSE IF Conflicts(definition) = {} THEN {}
         ELSE {[kind |-> "value_error", at |-> {}]}

ConflictOnly(errors) ==
    errors # {} /\ \A error \in errors : error.kind = "value_error"

FreeTexts(definition) ==
    {definition.opening, definition.goal}
    \cup ToSet(definition.replies) \cup ToSet(definition.prohibited)
    \cup UNION {{e.when, e.what} : e \in ToSet(definition.triggers)
                    \cup ToSet(definition.payments)
                    \cup ToSet(definition.escalations)}
    \cup {rule.change : rule \in ToSet(definition.rules)}

LimitViolations(definition) ==
    (IF definition.size > Limits.size
     THEN {[kind |-> "size", at |-> {}]} ELSE {})
    \cup {[kind |-> "count", at |-> {field}] : field \in
        {f \in {"triggers", "replies", "escalations"} :
            Len(definition[f]) > Limits[f]}}
    \cup {[kind |-> "length", at |-> text] : text \in
        {t \in FreeTexts(definition) : Cardinality(t) > Limits.text}}

\* Plausible bug: the prohibitions are not put back.
Rebuilt_bare(definition) == [definition EXCEPT !.prohibited = <<>>]

\* A definition that only conflicts is built without its prohibitions, which
\* are then put back, so that limits are reported beside the conflict.
Rebuilt(definition) ==
    LET bare == [definition EXCEPT !.prohibited = <<>>]
    IN  [bare EXCEPT !.prohibited = definition.prohibited]

Violations(definition) ==
    LET errors == StructuralErrors(definition)
        contract == IF ConflictOnly(errors) THEN Rebuilt(definition)
                    ELSE definition
    IN  IF errors # {} /\ ~ConflictOnly(errors) THEN errors
        ELSE Conflicts(contract) \cup LimitViolations(contract)
=============================================================================
