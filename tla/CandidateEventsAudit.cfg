\* Time for a decision at 1, a cooldown, a quiet interval from 4 to 5 and the two
\* triggered results, at 6 and 7, of the next candidate: the gap from 1 to 4 is longer
\* than two processing periods, the others are not.
SPECIFICATION AuditSpec
CONSTANTS
    Cameras = {c1}
    Times = {0, 1, 4, 5, 6, 7}
    Moments = {1, 4, 7}
    CandidateFrames = 2
    ConfirmationDuration = 2
    ProcessingPeriod = 1
    CandidateTimeout = 4
    Cooldown = 1
    RearmDuration = 1
    ExternalRequired = TRUE
INVARIANTS
    DecidedOnce
PROPERTIES
    RearmedByQuiet
    ConfirmedOnEvidence
