\* The source's deadlines in minutes and its 30-minute TestTimeout, so that
\* the harness timeout can fire during the cleanup.
CONSTANTS
    Interval <- MinuteInterval
    Timeout <- MinuteTimeout
    TestTimeout = 30
    Originals = {"nil", "Intermediate"}
    MaxErrors = 1
    MaxOperatorSteps = 3
    OtherRollouts = TRUE
    AmbiguousWrites = FALSE
SPECIFICATION Spec
\* The test process ends: a finished test has no further step.
CHECK_DEADLOCK FALSE
INVARIANT RestoredOrReported
