CONSTANTS
    Conns = {c1, c2, c3}
    None = None
    MaxFaults = 2
    MaxDrops = 2
SPECIFICATION Spec
INVARIANTS
    NoLeakedConnection
    SampleFromOneConnection
    ErrorsTellWhatIsMissing
PROPERTY Resumes
