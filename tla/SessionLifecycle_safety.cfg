\* Two messages, two closing calls, with and without a scripted opening; fairness
\* for the last property, so no symmetry.
SPECIFICATION FairSpec
CONSTANTS
    Calls = {c1, c2}
    Closers = {e1, e2}
    NoOne = NoOne
    NoMemory = NoMemory
    Scripts = {"none", "opening"}
    MaxAttempts = 2
INVARIANTS
    TranscriptIsOrdered
    
    OpeningLeads
    EvaluationCoversTheCall
PROPERTIES
    EveryCallIsAnswered
CHECK_DEADLOCK FALSE
