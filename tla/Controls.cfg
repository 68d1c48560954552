SPECIFICATION ControlsSpec
CONSTANTS
    Worlds <- MCWorlds
    StartWorlds <- MCStartWorlds
    Elsewhere <- MCOffline
    Entities = {"charge", "lock"}
    Polled = {"charge"}
    IsOcpp = TRUE
    CurrentUnread = FALSE
    Amps = {a6, a32}
    MaxAmps = a32
    Zones = {z1, z2}
    FirstZone = z1
    Calls <- MCCalls
    ScanInterval = 1
    RequestTimeout = 0
    RetryAfters = {}
    Tasks = {t1, t2}
    Nobody = nobody
INVARIANTS SuccessMeansAccepted SingleFlight OverlayIsTheCommand NeverFlickers UpdateIsComing
SYMMETRY TaskSymmetry
