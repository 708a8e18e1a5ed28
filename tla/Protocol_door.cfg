CONSTANTS
    ParkingEnabled = FALSE
    KeepCoolantOn = FALSE
    DoorDelays = FALSE
    HoldDelays = FALSE
    MaxBlocks = 1
    MaxSegs = 2
    MaxNest = 2
    Patient = FALSE
    Starves = TRUE
    Inputs = {"cycle_start", "door", "reset", "sleep_timeout"}
    Commands = {"motion", "accessories", "sleep", "unlock"}
SPECIFICATION Spec
INVARIANTS StoppedIsOff
PROPERTIES ResumesWithDoorClosed
