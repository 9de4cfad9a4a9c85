SPECIFICATION FairSpec
CONSTANTS
    main = main
    idle = idle
    a = a
    b = b
    NULL = NULL
    Thread = {main, idle, a, b}
    DefaultSlice = 1
    Workloads <- AllLoads
INVARIANTS  WakesOnTime
PROPERTIES  NoStarvation
