SPECIFICATION FairPageSpec
CONSTANTS
    img1 = img1
    none = none
    thd1 = thd1
    thd2 = thd2
    Images <- MCImages
    None <- MCNone
    Faults <- MCLaunchFaults
    MaxMsgs <- MCMaxMsgs
    Monitors <- MCOneMonitor
    MaxDepth <- MCMaxDepth
    SessionDrops = FALSE
\* The process may end (page = "exit").
CHECK_DEADLOCK FALSE
PROPERTIES
    ManagerSpec
    ClosedVmReleased
