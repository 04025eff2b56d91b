SPECIFICATION Spec
CONSTANTS
    img1 = img1
    img2 = img2
    none = none
    Images <- MCImages
    None <- MCNone
    Faults <- MCVmwareFaults
    MaxMsgs <- MCMaxMsgs
INVARIANTS
    OwnDescriptor
    NoOrphan
