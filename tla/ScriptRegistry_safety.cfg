\* Two requests on two scripts of two scenarios, one of three contents
\* not publishable.
SPECIFICATION Spec
CONSTANTS
    Scripts = {k1, k2}
    Scenarios = {x1, x2}
    Contents = {a, b, c}
    Valid = {a, b}
    NoContent = NoContent
    NoScenario = NoScenario
    Requests = {r1, r2}
    MaxVersion = 2
INVARIANTS
    IInv
    HistoryIsDense
    CurrentIsNewest
    SessionsGetValidContent
SYMMETRY Interchangeable
CHECK_DEADLOCK FALSE
