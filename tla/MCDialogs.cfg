SPECIFICATION MCSpec
CONSTANTS
    w1 = w1
    w2 = w2
    r1 = r1
    Nobody = Nobody
    Writers <- MCWriters
    Readers <- MCReaders
    Unique = TRUE
    MaxFiles = 4
    Installable = {"a", "b"}
    Editors = {"t"}
    Logins <- MCLogins
    Others = {"media", "zone"}
    Values = {"v", "w", "x"}
    Bad = "x"
    Uses <- MCUses
    MediaKeys = {"media"}
    Folders <- MCFolders
    Alike = {{"v", "w"}}
    MaxSaveEvents = 3
    Mounters = {"a"}
    Mounts = {1, 2}
    MaxNasEvents = 5
    Strategies = {"arr-config", "jellyfin", "qbittorrent"}
    Resets = {1, 2}
    MaxResetEvents = 5
    Ids = {"k", "l", "m"}
    Shipped = {"nas"}
    Mine = {"mine"}
    Pics = {"p"}
    Pages = {"t", "u"}
    Calls = {"r"}
    MaxLinks = 3
    MaxListEvents = 4
INVARIANTS ReportedIsDone OwnerIsKept
PROPERTIES KeepsPromise MoveKeepsAll 
CHECK_DEADLOCK FALSE
