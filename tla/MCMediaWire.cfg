SPECIFICATION FairSpec
CONSTANTS
    Boxes <- MCBoxes
    Passes = {1, 2}
    Values = {"old", "new"}
    MaxEvents = 3
INVARIANTS
    SettledIsCurrent
PROPERTIES
    NeverTwice
    DeletedStaysDeleted
    Wired
