CONSTANTS
    Fns = {"f"}
    PoolSize = 3
    Delays = {0, 1}
    Ticks = 10
    MaxStall = 1
    MaxDepth = 2
    Interrupts = {}
SPECIFICATION Spec
INVARIANTS ListsSound
PROPERTIES ImplementsTaskList
