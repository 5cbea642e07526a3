\* Seventy definitions, of which eight are accepted; five messages; every
\* course of the model's answers.
SPECIFICATION DebtorSpec
CONSTANTS
    Soothing = {"help"}
    Threatening = {"must"}
    Negative = {"anger"}
    Positive = {"calm"}
    SafeLines <- SafeSeq
    Limits <- LimitRecord
    Definitions <- DefinitionSet
    Messages <- MessageSet
    Answers <- AnswerSet
    Personas = {0, 4}
    CompletionMessage = {"salamat"}
    HangUp = {"hangs up", "[end_call]"}
    Stripped = {"[end_call]"}
INVARIANTS
    
    GeneratedIsClean
    
    ChannelsAgree
