CONSTANTS
    none = none
    s1 = s1
    v1 = v1
    h1 = h1
    h2 = h2
    c1 = c1
    c2 = c2
    None <- MCNone
    Scripts <- MCScripts
    AlertScripts <- MCScripts
    AtOnce <- MCScripts
    Rules <- MCNothing
    Handlers <- MCHandler
    Copiers <- MCCopiers
    MaxUploads = 3
    PostTries = 2
    Faults <- MCTimeout
SPECIFICATION FairSpec
INVARIANTS
    AgentTypeOK
    OwnOutcomes
PROPERTIES
    RulesInForce
    OutcomesTaken
    KeepsService
CHECK_DEADLOCK FALSE
