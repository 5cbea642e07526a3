\* Two calls of one session, a text message between, utterances of up to three
\* frames against a buffer of two.
SPECIFICATION FairSpec
CONSTANTS
    p1 = p1
    p2 = p2
    Calls <- Pair
    NoCall = NoCall
    Texts = {t1}
    Scripts = {"opening", "silent"}
    MaxFrames = 2
    Silence = 1
    FrameBound <- Bounds
    Longer = 7
    Shorter = 0

    
    
    
PROPERTIES
    EndIsAnnounced
CHECK_DEADLOCK FALSE
