SPECIFICATION MCSpec
CONSTANTS
    r1 = r1
    Requests <- MCRequests
    Releases <- MCReleases
    Migrating <- MCReleases
    NoFile = NoFile
    Half = Half
    MaxRuns = 2
    MaxLosses = 1
CHECK_DEADLOCK FALSE
INVARIANTS
    OneRun
    RecordedIsDone
PROPERTIES
    DoneMeansNew
    LandsBack
