CONSTANTS
    ParkingEnabled = FALSE
    KeepCoolantOn = FALSE
    DoorDelays = FALSE
    HoldDelays = TRUE
    MaxBlocks = 1
    MaxSegs = 2
    MaxNest = 2
    Patient = TRUE
    Starves = FALSE
    Inputs = {"cycle_start", "feed_hold", "spindle_stop", "reset", "estop"}
    Commands = {"accessories"}
SPECIFICATION Spec
PROPERTIES AlarmLatched
