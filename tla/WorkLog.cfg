CONSTANTS
    Days = {d1, d2}
    NoDay = NoDay
    MaxRows = 4
    MaxRuns = 2
SPECIFICATION Spec
INVARIANTS
    AckedRowsSurvive
    RowsInOrderOfTheirDay
    TornRowIsLast
    NoLeakedFile
