\* Two overlapping generations, one status reader, up to 3 versions and 2 runs.
SPECIFICATION FairSpec
CONSTANTS
    Generators = {g1, g2}
    Readers = {r1}
    NoOne = NoOne
    MaxVersion = 3
    MaxRun = 2
INVARIANTS
    IInv
    OneAttemptAtATime
    LaterReportsAreFresher
PROPERTIES
    RefinesLog
    EveryCallEnds
    ShownReportsAdvance
