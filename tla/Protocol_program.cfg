CONSTANTS
    ParkingEnabled = FALSE
    KeepCoolantOn = FALSE
    DoorDelays = FALSE
    HoldDelays = FALSE
    MaxBlocks = 2
    MaxSegs = 2
    MaxNest = 2
    Patient = FALSE
    Starves = TRUE
    Inputs = {"cycle_start", "feed_hold", "spindle_stop", "stop"}
    Commands = {"motion", "pause", "end", "tool_change", "accessories"}
SPECIFICATION Spec
INVARIANTS MotionOwned WaitersWake
PROPERTIES SyncEndsAtRest
