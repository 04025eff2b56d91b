SPECIFICATION FairSpec
CONSTANTS
    MaxLogins = 2
    OtpTries = 3
    MaxGuesses = 4
    Faults <- MCFaults
INVARIANTS
    SessionTypeOK
    TokenOfSession
    OnlyEndedSessionsLeave
    SessionWatched
    GuessesBounded
PROPERTIES
    EndedSessionNoticed
CHECK_DEADLOCK FALSE
