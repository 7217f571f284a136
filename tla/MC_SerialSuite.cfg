CONSTANTS
    Specs <- MCSpecs
    Tags <- MCTags
    VersionStrings <- MCVersionStrings
    Invocations <- MCInvocations
    SuiteTimeout = 2

SPECIFICATION Spec

\* The process really stops once it has called os.Exit.
CHECK_DEADLOCK FALSE

INVARIANT TypeOK
INVARIANT ExitCodeReflectsResults
PROPERTY EveryInvocationExits
