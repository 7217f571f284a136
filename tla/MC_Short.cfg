\* Short deadlines, every original profile but Modern, transient API errors
\* and operator changes: the behaviour of the test and its cleanup.
CONSTANTS
    Interval <- ShortInterval
    Timeout <- ShortTimeout
    TestTimeout = 100
    Originals = {"nil", "Old", "Intermediate"}
    MaxErrors = 2
    MaxOperatorSteps = 3
    OtherRollouts = TRUE
    AmbiguousWrites = FALSE
SPECIFICATION Spec
\* The test process ends: a finished test has no further step.
CHECK_DEADLOCK FALSE
INVARIANT TypeOK
INVARIANT RestoredOrReported
INVARIANT PassImpliesPropagated
PROPERTY TestTerminates
