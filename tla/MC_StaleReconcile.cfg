\* A settled cluster whose operator rolls out only the test's change, and does
\* so late: the reconcile wait after a timed-out progressing wait.
CONSTANTS
    Interval <- ShortInterval
    Timeout <- ShortTimeout
    TestTimeout = 100
    Originals = {"Intermediate"}
    MaxErrors = 1
    MaxOperatorSteps = 3
    OtherRollouts = FALSE
    AmbiguousWrites = FALSE
SPECIFICATION Spec
\* The test process ends: a finished test has no further step.
CHECK_DEADLOCK FALSE
PROPERTY ReconcileSeesChange
