\* An Update that fails on the client may have been applied by the server.
CONSTANTS
    Interval <- ShortInterval
    Timeout <- ShortTimeout
    TestTimeout = 100
    Originals = {"nil", "Intermediate"}
    MaxErrors = 1
    MaxOperatorSteps = 3
    OtherRollouts = TRUE
    AmbiguousWrites = TRUE
SPECIFICATION Spec
\* The test process ends: a finished test has no further step.
CHECK_DEADLOCK FALSE
INVARIANT RestoredOrReported
