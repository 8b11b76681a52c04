SPECIFICATION FairSpec
CONSTANTS
    c1 = c1
    c2 = c2
    Client = {c1, c2}
    Daemon = {d1, d2}
    Config <- Upgrade
    None = None
    Solo = Solo
    IdleExits = TRUE
    MaxMishaps = 1
    MaxGiveUps = 1
INVARIANTS
    Reachable
    OneDaemon
PROPERTIES
    NoStartWasted
    SessionsKept
    Settles
CHECK_DEADLOCK FALSE
