SPECIFICATION FairSpec
CONSTANTS
    sha1 = sha1
    sha2 = sha2
    event1 = event1
    None = None
    Shas <- MCShas
    Base = sha1
    Events = {event1}
    External = {event1}
    Wakeups <- MCWakeups
    Reports <- MCReports
    MaxMoves = 2
    MaxFaults = 1
INVARIANTS
    SentOnce
    ReviewOfPassed
    CatalogIsSafe
PROPERTIES
    NoAnswerOverReadUnknown
    QuestionsEnd
    ExternalServed
