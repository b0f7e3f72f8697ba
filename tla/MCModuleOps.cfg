SPECIFICATION FairSpec
CONSTANTS
    media = media
    sonarr = sonarr
    proxy = proxy
    NoModule = NoModule
    r1 = r1
    r2 = r2
    Modules <- MCModules
    Required <- MCRequired
    Conflicts <- MCConflicts
    ReplacedBy <- MCReplacedBy
    Requests <- MCRequests
INVARIANTS
    FlagTracksWork
PROPERTIES
    OkIsTrue
    Answered
