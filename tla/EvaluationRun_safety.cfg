SPECIFICATION Spec
CONSTANTS
    Unpinned = Unpinned
    MaxLate = 1
    Transcripts <- MCTranscripts
    Standards <- MCStandards
    Names <- MCNames
    Observations <- MCObservations
    LegacyAnswers <- MCLegacyAnswers
INVARIANTS
    AcceptedIsCoachable
    FindingsNeverHelp
    TidyIsReportable
    
    ViewsAgree
CHECK_DEADLOCK FALSE
