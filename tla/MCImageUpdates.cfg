SPECIFICATION MCSpec
CONSTANTS
    Requests = {}
    Releases <- MCReleases
    Migrating <- MCReleases
    NoFile = NoFile
    Half = Half
    MaxRuns = 1
    MaxLosses = 0
    MaxTag = 1
    MaxImages = 3
    MaxFlows = 2
    MaxCrashes = 1
    Kept = 1
INVARIANTS PinPutBack
PROPERTIES MigrationsBackedUp CleanRollback Released NothingSkipped
CHECK_DEADLOCK FALSE
