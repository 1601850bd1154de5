CONSTANTS
    s1 = s1
    s2 = s2
    w1 = w1
    w2 = w2
    e1 = e1
    e2 = e2
    NoError = NoError
    Canceled = Canceled
    Pending = Pending
    Starters <- MCStarters
    Listeners <- MCListeners
    Waiters <- MCWaiters
    Errors <- MCErrors
SPECIFICATION Spec
INVARIANT EveryReceiverGetsTheOutcome
