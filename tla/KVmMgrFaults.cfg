SPECIFICATION FairSpec
CONSTANTS
    img1 = img1
    img2 = img2
    none = none
    Images <- MCImages
    None <- MCNone
    Faults <- MCAllFaults
    MaxMsgs <- MCMaxMsgs
INVARIANTS
    TypeOK
    CommandPending
    SlotIsWorkers
    FilesHaveOneOwner
    NoPlainLeftBehind
PROPERTIES
    ServiceSpec
    Served
