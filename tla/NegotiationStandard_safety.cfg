\* Two admins, one session, three contents of which d is not publishable.
SPECIFICATION Spec
CONSTANTS
    Contents = {a, b, d}
    NoContent = NoContent
    Publishable = {a, b}
    Admins = {admin1, admin2}
    Sessions = {s1}
    MaxRevision = 4
    MaxIncarnation = 2
INVARIANTS
    IInv
    HistoryIsDense
    PinsArePublishable
    RevisionIdentifiesDraft
CHECK_DEADLOCK FALSE
