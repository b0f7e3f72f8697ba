SPECIFICATION FairSpec
CONSTANTS
    Boxes <- MCBoxes
    Passes = {1}
    Values = {"old", "new"}
    MaxEvents = 2
PROPERTIES
    HandWiredIsDone
CHECK_DEADLOCK FALSE
