------------------------------ MODULE DebtorTurn ------------------------------
(***************************************************************************)
(* The simulated debtor of one training session.                           *)
(*                                                                         *)
(* A script definition is submitted and, once accepted, is what a new      *)
(* session pins.  The agent speaks to the debtor through two transports    *)
(* that decide what the debtor answers independently of each other: the    *)
(* text endpoint, whose persona lives in a dictionary of the process, and  *)
(* a voice pipeline, which has a persona of its own.  The language model   *)
(* may answer anything, or fail.                                           *)
(***************************************************************************)
EXTENDS ScriptRules

CONSTANTS
    Definitions,   \* definitions that are submitted
    Messages,      \* what the agent may say or type
    Answers,       \* what the language model may answer, attempt by attempt
    Personas,      \* moods its persona may name, 0 for a persona it fails to give
    CompletionMessage,    \* the completion message of a reached goal
    HangUp,        \* hang_up_signals
    Stripped       \* hang-up markers removed from a shown text wherever they are

ASSUME HangUpAssumption == Stripped \subseteq HangUp
ASSUME ModelAnswersAssumption == \A answers \in Answers : answers \in Seq(ToSet(answers))

VARIABLES
    script,     \* content of the pinned version: <<>> or <<definition>>
    verdict,    \* <<definition, violations>> of the last submission
    context,    \* mood in sessions.persona_context, 0 before the session
    status,     \* sessions.status
    text,       \* _active_personas[session]: <<>> or <<[mood, spoken]>>
    voice,      \* the pipeline: <<>> or <<[mood, count]>>
    turn        \* the last turn answered

debtorVars == <<script, verdict, context, status, text, voice, turn>>

NoTurn == [kind |-> "none"]

\* A finished answer: how it came about, what was said and whether it ends.
Turn(kind, message, line, shown, ends) ==
    [kind |-> kind, message |-> message, line |-> line, shown |-> shown,
     ends |-> ends]

NoScript == [opening |-> {}, goal |-> {}, replies |-> <<>>, prohibited |-> <<>>,
             triggers |-> <<>>, payments |-> <<>>, escalations |-> <<>>,
             rules |-> <<>>, missing |-> {}, size |-> 0]

\* A definition has these fields; an escalation is no trigger and no payment.
ASSUME DefinitionsAssumption ==
    \A definition \in Definitions :
        /\ definition = [field \in DOMAIN NoScript |-> definition[field]]
        /\ ToSet(definition.escalations)
               \cap (ToSet(definition.triggers) \cup ToSet(definition.payments)) = {}
        /\ definition.triggers \in Seq(ToSet(definition.triggers))
        /\ definition.payments \in Seq(ToSet(definition.payments))

Scripted == script # <<>>
Script == IF Scripted THEN script[1] ELSE NoScript

DebtorInit ==
    /\ script = <<>> /\ verdict = <<>> /\ context = 0 /\ status = "pending"
    /\ text = <<>> /\ voice = <<>> /\ turn = NoTurn

-----------------------------------------------------------------------------
(* Script and session *)

\* Only an accepted definition becomes a version a session can pin; one is
\* enough, as a session pins one.
Submit(definition) ==
    /\ context = 0 /\ ~Scripted
    /\ verdict' = <<definition, Violations(definition)>>
    /\ script' = IF Violations(definition) = {} THEN <<definition>> ELSE <<>>
    /\ UNCHANGED <<context, status, text, voice, turn>>

\* The model's persona names a mood, which is neutral when it is no mood; a
\* persona that cannot be read is replaced by a neutral one.
PersonaMood(answer) == IF answer \in Moods THEN answer ELSE Neutral

CreateSession(answer) ==
    /\ context = 0
    /\ context' = PersonaMood(answer)
    /\ UNCHANGED <<script, verdict, status, text, voice, turn>>

-----------------------------------------------------------------------------
(* The text endpoint *)

TextPersona == IF text = <<>> THEN [mood |-> context, spoken |-> FALSE]
               ELSE text[1]

TextIsFirst == status = "pending" \/ ~TextPersona.spoken

\* Plausible bug: the goal is left to the model.
TextAnswer_goal_unchecked(first, system, message) ==
    CASE Scripted /\ first -> "opening"
      [] Scripted /\ ~system /\ EndingEscalation(Script, message) -> "escalation"
      [] OTHER -> "model"

\* How the endpoint answers; a bracketed message only initialises the call.
TextAnswer(first, system, message) ==
    CASE Scripted /\ first -> "opening"
      [] Scripted /\ ~system /\ EndingEscalation(Script, message) -> "escalation"
      [] Scripted /\ ~system /\ GoalIsMet(Script, message) -> "goal"
      [] OTHER -> "model"

ScriptedLine(kind, message) ==
    CASE kind = "opening" -> Script.opening
      [] kind = "escalation" -> FirstMatch(Script.escalations, message)[1].what
      [] kind = "goal" -> CompletionMessage

\* Without a script the debtor hangs up by saying so.
HangsUp(line) == ~Scripted /\ line \cap HangUp # {}

Shown(line) == IF HangsUp(line) THEN line \ Stripped ELSE line

TextScripted(system, message) ==
    LET kind == TextAnswer(TextIsFirst, system, message)
        line == ScriptedLine(kind, message)
    IN  /\ kind # "model"
        /\ text' = IF kind = "opening"
                   THEN <<[TextPersona EXCEPT !.spoken = TRUE]>> ELSE <<>>
        /\ turn' = Turn(kind, message, line, line, kind # "opening")

TextModel(system, message, answers) ==
    LET line == Reply(Script, answers)
        mood == NextMood(TextPersona.mood, Script.rules, message)
    IN  /\ TextAnswer(TextIsFirst, system, message) = "model"
        /\ text' = IF HangsUp(line) THEN <<>>
                   ELSE <<[mood |-> mood, spoken |-> TRUE]>>
        /\ turn' = Turn(IF system THEN "system" ELSE "model", message, line,
                        Shown(line), HangsUp(line))

SendMessage(system, message, answers) ==
    /\ context # 0
    /\ status' = "active"
    /\ TextScripted(system, message) \/ TextModel(system, message, answers)
    /\ UNCHANGED <<script, verdict, context, voice>>

-----------------------------------------------------------------------------
(* The voice pipeline *)

\* A pipeline is built with the persona of the session and an empty history.
StartCall ==
    /\ context # 0 /\ voice = <<>>
    /\ voice' = <<[mood |-> context, count |-> 0]>>
    /\ UNCHANGED <<script, verdict, context, status, text, turn>>

EndCall ==
    /\ voice # <<>>
    /\ voice' = <<>>
    /\ UNCHANGED <<script, verdict, context, status, text, turn>>

\* Plausible bug: the opening is delivered only when nothing ends the call.
VoiceAnswer_opening_last(count, message) ==
    CASE Scripted /\ EndingEscalation(Script, message) -> "escalation"
      [] Scripted /\ GoalIsMet(Script, message) -> "goal"
      [] count = 0 /\ Scripted -> "opening"
      [] OTHER -> "model"

VoiceAnswer(count, message) ==
    CASE count = 0 /\ Scripted -> "opening"
      [] Scripted /\ EndingEscalation(Script, message) -> "escalation"
      [] Scripted /\ GoalIsMet(Script, message) -> "goal"
      [] OTHER -> "model"

\* utterance_count only tells zero from more; speech that fails is not counted.
Counted(spoken) == IF spoken THEN 1 ELSE voice[1].count

VoiceScripted(message, spoken) ==
    LET kind == VoiceAnswer(voice[1].count, message)
        line == ScriptedLine(kind, message)
    IN  /\ kind # "model"
        /\ voice' = IF kind = "opening"
                    THEN <<[voice[1] EXCEPT !.count = Counted(spoken)]>> ELSE <<>>
        /\ turn' = Turn(kind, message, line, line, kind # "opening")

VoiceModel(message, answers, spoken) ==
    LET line == Reply(Script, answers)
    IN  /\ VoiceAnswer(voice[1].count, message) = "model"
        /\ voice' = <<[mood |-> NextMood(voice[1].mood, Script.rules, message),
                       count |-> Counted(spoken)]>>
        /\ turn' = Turn("model", message, line, line, FALSE)

Utterance(message, answers, spoken) ==
    /\ voice # <<>>
    /\ VoiceScripted(message, spoken) \/ VoiceModel(message, answers, spoken)
    /\ UNCHANGED <<script, verdict, context, status, text>>

\* Both personas live in the memory of the process.
Restart ==
    /\ context # 0
    /\ text' = <<>> /\ voice' = <<>>
    /\ UNCHANGED <<script, verdict, context, status, turn>>

DebtorNext ==
    \/ \E definition \in Definitions : Submit(definition)
    \/ \E answer \in Personas : CreateSession(answer)
    \/ \E system \in BOOLEAN, message \in Messages, answers \in Answers :
           SendMessage(system, message, answers)
    \/ StartCall \/ EndCall
    \/ \E message \in Messages, answers \in Answers, spoken \in BOOLEAN :
           Utterance(message, answers, spoken)
    \/ Restart

DebtorSpec == DebtorInit /\ [][DebtorNext]_debtorVars

-----------------------------------------------------------------------------
(* Properties *)

\* Personas keep a mood of the scale, and only an accepted definition is pinned
\* (session_service.create_session, script_validator.validate_script).
DebtorTypeOK ==
    /\ script = <<>> \/ (Scripted /\ Script \in Definitions)
    /\ context \in {0} \cup Moods /\ status \in {"pending", "active"}
    /\ text = <<>> \/ text[1] \in [mood : Moods, spoken : BOOLEAN]
    /\ voice = <<>> \/ voice[1] \in [mood : Moods, count : 0..1]

\* A definition whose fields are in order is answered with every duplicate of a
\* reply among its prohibitions and every exceeded limit at once, and is
\* accepted only when there are none (validate_script).
VerdictIsComplete ==
    verdict # <<>> =>
    LET definition == verdict[1]
        reported(kind) == {v.at : v \in {w \in verdict[2] : w.kind = kind}}
    IN  definition.missing = {} =>
        /\ reported("conflict") =
               {t \in ToSet(definition.replies) : t \in ToSet(definition.prohibited)}
        /\ reported("length") =
               {t \in FreeTexts(definition) : Cardinality(t) > Limits.text}
        /\ (reported("size") # {}) <=> (definition.size > Limits.size)

\* Whatever the model answers, a line of its turn contains nothing the pinned
\* script prohibits, unless the script prohibits every safe line
\* (generate_response, _select_safe_debtor_response).
GeneratedIsClean ==
    turn.kind \in {"model", "system"} /\ Scripted =>
        \/ ~Prohibited(Script, turn.line)
        \/ \A i \in DOMAIN SafeLines : Prohibited(Script, SafeLines[i])

\* In a scripted call the model never answers a message that meets the goal or
\* an ending escalation, and a call ends on such messages only; a bracketed
\* message never ends it (_send_message_locked, _process_utterance; the comment
\* in generate_response: termination is handled before it).
EndingsAreObeyed ==
    Scripted /\ turn # NoTurn =>
    LET ending == \/ EndingEscalation(Script, turn.message)
                  \/ GoalIsMet(Script, turn.message)
    IN  /\ turn.kind = "model" => ~ending
        /\ turn.ends => ending
        /\ \A told \in Instructions(Script, turn.message) :
               turn.kind = "model" /\ told \in ToSet(Script.escalations)
                   => ~told.ends

\* The two transports answer alike: at the same point of a call they choose the
\* same kind of answer to the same spoken message.
ChannelsAgree ==
    context # 0 => \A message \in Messages, first \in BOOLEAN :
        TextAnswer(first, FALSE, message)
            = VoiceAnswer(IF first THEN 0 ELSE 1, message)

-----------------------------------------------------------------------------
(* The inductive invariant *)

\* Nobody speaks before the session exists, which pins the script for good.
SpeechFollowsSession ==
    context = 0 => text = <<>> /\ voice = <<>> /\ turn = NoTurn

DebtorIInv ==
    /\ DebtorTypeOK /\ SpeechFollowsSession
    /\ VerdictIsComplete /\ GeneratedIsClean /\ EndingsAreObeyed
==============================================================================
