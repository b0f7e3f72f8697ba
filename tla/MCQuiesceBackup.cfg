SPECIFICATION MCSpec
CONSTANTS
    media = media
    photos = photos
    proxy = proxy
    server = server
    cli = cli
    Apps <- MCApps
    Required <- MCRequired
    Server <- server
    Clis <- MCClis
INVARIANTS
    Recorded
PROPERTIES
    PublishedOnlyWhenBack
    KeepsPromise
    RunEnds
