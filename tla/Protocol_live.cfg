CONSTANTS
    ParkingEnabled = FALSE
    KeepCoolantOn = FALSE
    DoorDelays = FALSE
    HoldDelays = TRUE
    MaxBlocks = 1
    MaxSegs = 2
    MaxNest = 2
    Patient = TRUE
    Starves = FALSE
    Inputs = {"cycle_start", "feed_hold", "reset"}
    Commands = {"motion", "accessories"}
SPECIFICATION TimedSpec
PROPERTIES ForegroundProgresses
