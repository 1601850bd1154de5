CONSTANTS
    Periods = {1, 2}
    ResetInterval = 2
    MaxTime = 4
    MaxLate = 3
    Apps = {a1, a2}
    None = None
    Windows = {w1, w2, w3}
    Root = Root
    NoWindow = NoWindow
    MaxMoves = 2
SPECIFICATION Spec
INVARIANTS
    OneSamplePerSlot
    SampleIsOfOneApplication
    TitleOncePermitted
    SampleOfTheTopLevelWindow
PROPERTY EverySampleEnds
