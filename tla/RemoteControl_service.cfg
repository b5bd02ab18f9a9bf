\* One peer that waits for its answers and one that does not, three descriptors
\* (too few for the device, the socket and both peers), crashes and restarts.
CONSTANTS
    c1 = c1
    c2 = c2
    Conns = {c1, c2}
    Eager = {c2}
    Script <- MCScript
    MaxFd = 3
    NameFits = TRUE
    CanRefuse = TRUE
    CanStop = FALSE
SPECIFICATION FairSpec
INVARIANTS
    TypeOK
    OwnDescriptors
    AnswersAreTrue
    DeafStartClearsName
PROPERTIES
    ImplementsService
    Answered
    HangupEndsClient
