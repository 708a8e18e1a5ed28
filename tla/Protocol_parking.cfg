CONSTANTS
    ParkingEnabled = TRUE
    KeepCoolantOn = FALSE
    DoorDelays = TRUE
    HoldDelays = FALSE
    MaxBlocks = 1
    MaxSegs = 2
    MaxNest = 2
    Patient = TRUE
    Starves = FALSE
    Inputs = {"cycle_start", "door"}
    Commands = {"motion", "accessories"}
SPECIFICATION Spec
PROPERTIES ResumesAsStopped ParkingInOrder
