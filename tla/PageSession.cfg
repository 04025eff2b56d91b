SPECIFICATION PageSpec
CONSTANTS
    img1 = img1
    none = none
    thd1 = thd1
    thd2 = thd2
    Images <- MCImages
    None <- MCNone
    Faults <- MCLaunchFaults
    MaxMsgs <- MCMaxMsgs
    Monitors <- MCOneMonitor
    MaxDepth <- MCMaxDepth
    SessionDrops = TRUE
\* The process may end (page = "exit").
CHECK_DEADLOCK FALSE
INVARIANTS
    PageTypeOK
    CommandPending
PROPERTIES
    ExitWithoutVm
    DeletesHalted
