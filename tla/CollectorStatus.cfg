CONSTANTS
    Days = {d1, d2}
    None = None
    MaxRuns = 2
    MaxSamples = 2
SPECIFICATION Spec
INVARIANT StatusIsOfTheRunningCollector
