SPECIFICATION FairSpec
CONSTANTS
    NumMsgs = 3
    Start <- MCStart
    Carriers <- MCCarriers
    FdPaths <- MCFdPaths
    Faults = {1}
    ReadMax = 16
INVARIANTS NothingLost FdsMatch
PROPERTIES DeliverySpec Handled
CHECK_DEADLOCK FALSE
