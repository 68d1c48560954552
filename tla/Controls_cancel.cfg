SPECIFICATION ControlsSpec
CONSTANTS
    Worlds <- MCWorlds
    StartWorlds <- MCStartWorlds
    Elsewhere <- MCNowhere
    Entities = {"charge"}
    Polled = {"charge"}
    IsOcpp = TRUE
    CurrentUnread = FALSE
    Amps = {a6, a32}
    MaxAmps = a32
    Zones = {z1, z2}
    FirstZone = z1
    Calls <- MCOneCall
    ScanInterval = 1
    RequestTimeout = 0
    RetryAfters = {2}
    Tasks = {t1, t2}
    Nobody = nobody
INVARIANTS NoFakeState
