\* Poll intervals that do not divide the timeouts, failed Gets and operator
\* changes: every poll session of the test is a session of PollSession.
CONSTANTS
    Interval <- RaggedInterval
    Timeout <- RaggedTimeout
    TestTimeout = 100
    Originals = {"nil", "Intermediate"}
    MaxErrors = 1
    MaxOperatorSteps = 3
    OtherRollouts = TRUE
    AmbiguousWrites = FALSE
SPECIFICATION Spec
\* The test process ends: a finished test has no further step.
CHECK_DEADLOCK FALSE
PROPERTY PollSessionRefined
