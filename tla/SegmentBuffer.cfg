CONSTANTS
    SegmentBufferSize = 4
    PlannerSlots = 3
    MaxSteps = 2
    MaxMotions = 4
    ParkingEnabled = TRUE
    Cancels = {"slow"}
SPECIFICATION LiveSpec
INVARIANTS BlocksIntact PlannedInside
PROPERTIES ImplementsStepQueue StoppingEnds
