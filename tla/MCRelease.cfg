CONSTANTS
    Commits <- MCCommits
    Dates <- MCDates
    Nothing = Nothing
    Maintainers = {p}
    MaxRuns = 2
    MaxInterferences = 1
SPECIFICATION Spec
INVARIANTS
    PublishedStaysValid
    DescendantsAreNewer
