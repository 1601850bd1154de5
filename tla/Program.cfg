CONSTANTS
    Errors = {e1}
    NoError = NoError
    Canceled = Canceled
    Pending = Pending
    Visitors = {v1, v2}
    MaxArgs = 3
SPECIFICATION Spec
INVARIANTS
    ArgumentsDecide
    ExitTellsTheVerdict
    ReportIsCoherent
PROPERTIES
    ForegroundImplementsAppRun
    EndsWhenToldOrFailed
    PageLifetime
