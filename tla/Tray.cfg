CONSTANTS
    Errors = {e1}
    NoError = NoError
    Canceled = Canceled
    Pending = Pending
    Pages = {"status"}
SPECIFICATION Spec
INVARIANTS
    OnExitWaitsForCollector
    QuitHasAResult
PROPERTIES
    ImplementsAppRun
    EveryWayOutEnds
