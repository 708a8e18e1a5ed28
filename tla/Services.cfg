SPECIFICATION ServicesSpec
CONSTANTS
    Sources <- MCSources
    Programs <- MCPrograms
    Positional <- MCPositional
    Numbered <- MCNumbered
    Shared <- MCShared
    Names <- MCNames
    StackDepth = 6
    CallLevels = 3
    Frames = {1, 2}
    BufferLen = 3
    Machines = {"corexy", "wall_plotter", "polar", "delta"}
    Paths <- MCPaths
    Unsafe = {90}
    Unreachable = {90}
    CoreSteps = {0, 1, 3}
    MaxAngle = 360
    LineWindows = {}
    Able = {"probe", "configure", "toolsetter", "select", "pwm", "laser", "gpio_spindle", "squared", "at_speed", "ticks", "suspend_read"}
    NAxis = 2
    Ganged = {0}
    Signals = {0, 1, 2, 6, 10}
    SpindleRefs <- MCSpindleRefs
    StepUsMin = 2
    Unreadable = Unreadable
    Menus <- MCMenus
INVARIANTS InStep CallsKept DriversSound LinesSound
PROPERTIES PathsSound ImplementsFifos ChangesTold
CHECK_DEADLOCK FALSE
