CONSTANTS
    Days = {d1, d2}
    None = None
    MaxRuns = 2
    MaxSamples = 2
SPECIFICATION Spec
INVARIANTS
    GoodSampleIsLogged
    StatusMatchesRun
    EndIsRecorded
PROPERTIES
    QALeavesNoTrace
    ImplementsRunnerFunc
    CancelEndsTheRun
