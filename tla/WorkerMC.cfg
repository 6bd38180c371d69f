CONSTANTS
    MaxTasks = 4
    c1 = c1
    c2 = c2
    b1 = b1
    b2 = b2
    b3 = b3
    Channel = {main, c1, c2}
    Main = main
    Bus = {b1, b2, b3}
    UserName <- MCUserName
    Default = NoAddress
    Loaded <- MCLoaded
    MaxSteps = 3
    capacity = 4
    BlockSizes = {1, 3, 4, 7}
    SizeMax = 15
    MaxFrames = 22
SPECIFICATION MCFairSpec
INVARIANTS
    TaskIsNotRaced
    NoTaskLostAtStop
    StripsShowRoutes
PROPERTIES
    ImplementsHandoff
    TasksAndDestroyEnd
    ImplementsFrameQueue
    EveryFrameDelivered
CHECK_DEADLOCK FALSE
