SPECIFICATION MCSpec
CONSTANTS
    Items <- MCItems
    ITEMS <- MCITEMS
    AppItems = {"app"}
    Presets = {"daily"}
    Retentions = {1}
    Month = 3
    Times = {0, 15}
    MaxArchives = 1
    MaxEvents = 1
    Stages = {s1}
    Requests = {r1}
    MaxUses = 5
PROPERTY WayBack
CHECK_DEADLOCK FALSE
