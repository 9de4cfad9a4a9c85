CONSTANTS
    t1 = t1
    t2 = t2
    t3 = t3
    Thread = {t1, t2, t3}
    NULL = NULL
    Tested = {"semaphore"}
    InitialCount = 0
    MaxCount = 2
    Timeouts = {0, 1}
    MaxPosts = 3
    MaxTick = 1
    Base <- Levels
    Types = {"NORMAL", "RECURSIVE", "ERRORCHECK"}
    Relock = TRUE
    MaxDepth = 3
    Preferences = {"WRITER", "READER"}
    KEYBOARD_BUFFER_SIZE = 3
    Boards <- Typing
SPECIFICATION Spec
CHECK_DEADLOCK FALSE
PROPERTY
    TimedWaitEnds
