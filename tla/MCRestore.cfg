SPECIFICATION MCSpec
CONSTANTS
    Items <- MCItems
    ITEMS <- MCITEMS
    AppItems = {"app"}
    Presets = {"daily", "weekly", "monthly"}
    Retentions = {1, 2}
    Month = 3
    Times = {0, 2, 15}
    MaxArchives = 2
    MaxEvents = 2
    Stages = {s1}
    Requests = {r1, r2}
    MaxUses = 4
INVARIANTS
    CopiesWhole
    NeverLost
PROPERTIES
    Served
    ComeBack
CHECK_DEADLOCK FALSE
