CONSTANTS
    Commands = {c1, c2}
    BufSize = 4
    MaxSends = 3
    QueueLength = 2
    RxTimeout = 2
    Silence = 1
    ResetSilence = 3
    RetryDelay = 1
    Retries = {0, 1}
    Lateness = 3
    FlushInFlight = FALSE
    Program <- MCProgram
    Cycles <- MCCycles
    Travel = 2
    Search = 3
    Pulloff = 2
    LocateScalar = 2
    LocateCycles = 1
    FailDistance = 1
    SeekLag = 2
    LocateLag = 1
    KeepOnReset = FALSE
    MaxHomings = 2
    Acceleration = 1000
    FirstDelay = 30232
    Speeds = {60, 100}
    Moves <- MCMoves
    Scale = 256
    MotorWindows = {}
    MaxCruise = 8
    MaxCalls = 2
SPECIFICATION DevicesSpec
INVARIANTS FetchHoldsOldest AnswersOwn ChangeSound HomedSound MotorSound
PROPERTIES ImplementsFifo EverythingEnds
CHECK_DEADLOCK FALSE
