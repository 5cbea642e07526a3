SPECIFICATION Spec
CONSTANTS
    Unpinned = Unpinned
    MaxLate = 1
    Transcripts <- MCTranscripts
    Standards <- MCStandards
    Names <- MCNames
    Observations <- MCObservations
    LegacyAnswers <- MCLegacyAnswers
INVARIANT ShortSessionsAreReported
CHECK_DEADLOCK FALSE
