\* A stop at any time, while threads start, clients connect and the device fails.
CONSTANTS
    c1 = c1
    c2 = c2
    Conns = {c1, c2}
    Eager = {c2}
    Script <- StopScript
    MaxFd = 3
    NameFits = TRUE
    CanRefuse = TRUE
    CanStop = TRUE
SPECIFICATION Spec
INVARIANTS
    StopReachesClients
    FileLeftWithSocket
