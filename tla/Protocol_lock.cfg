CONSTANTS
    ParkingEnabled = FALSE
    KeepCoolantOn = FALSE
    DoorDelays = FALSE
    HoldDelays = FALSE
    MaxBlocks = 1
    MaxSegs = 2
    MaxNest = 2
    Patient = TRUE
    Starves = TRUE
    Inputs = {"feed_hold", "jog_cancel", "stop", "reset", "estop", "hard_limit"}
    Commands = {"motion", "jog", "unlock"}
SPECIFICATION Spec
PROPERTIES AlarmLatched ResetNotSwallowed JogFlushed
