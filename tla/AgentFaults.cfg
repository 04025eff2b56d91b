CONSTANTS
    none = none
    s1 = s1
    v1 = v1
    h1 = h1
    h2 = h2
    c1 = c1
    c2 = c2
    None <- MCNone
    Scripts <- MCScripts
    AlertScripts <- MCNothing
    AtOnce <- MCScripts
    Rules <- MCRules
    Handlers <- MCTwoHandlers
    Copiers <- MCCopiers
    MaxUploads = 2
    PostTries = 2
    Faults <- MCFaults
SPECIFICATION Spec
SYMMETRY MCSymmetry
INVARIANTS
    Undisturbed
    RunOncePerUpload
    ReportedOnce
    InForceOrComing
    OnlyRealViolations
CHECK_DEADLOCK FALSE
