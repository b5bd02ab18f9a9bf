\* A crash and a restart, with a single peer.
CONSTANTS
    c1 = c1
    c2 = c2
    Conns = {c1}
    Eager = {}
    Script <- DeafScript
    MaxFd = 3
    NameFits = TRUE
    CanRefuse = FALSE
    CanStop = TRUE
SPECIFICATION Spec
INVARIANTS
    DaemonListens
