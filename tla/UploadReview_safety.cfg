\* Two uploads, two scripts of two scenarios, one registry request.
SPECIFICATION UploadSpec
CONSTANTS
    Scripts = {k1, k2}
    Scenarios = {x1, x2}
    Contents = {a}
    Valid = {a}
    NoContent = NoContent
    NoScenario = NoScenario
    Requests = {r1}
    MaxVersion = 1
    Uploads = {u1, u2}
    NoUpload = NoUpload
    NoScript = NoScript
INVARIANTS
    UnsafeIsDropped
    SourceLossIsRecorded
PROPERTIES
    ReviewIsFinal
SYMMETRY Interchangeable
CHECK_DEADLOCK FALSE
