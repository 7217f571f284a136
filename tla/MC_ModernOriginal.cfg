\* A cluster that already runs the Modern profile before the test.
CONSTANTS
    Interval <- ShortInterval
    Timeout <- ShortTimeout
    TestTimeout = 100
    Originals = {"Modern"}
    MaxErrors = 1
    MaxOperatorSteps = 3
    OtherRollouts = TRUE
    AmbiguousWrites = FALSE
SPECIFICATION Spec
\* The test process ends: a finished test has no further step.
CHECK_DEADLOCK FALSE
PROPERTY RestoreCheckMatchesOriginal
