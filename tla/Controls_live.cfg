SPECIFICATION FairControlsSpec
CONSTANTS
    Worlds <- MCWorlds
    StartWorlds <- MCStartWorlds
    Elsewhere <- MCOwner
    Entities = {"charge", "time_zone", "plug_and_charge", "max_current"}
    Polled = {"charge"}
    IsOcpp = TRUE
    CurrentUnread = TRUE
    Amps = {a6, a32}
    MaxAmps = a32
    Zones = {z1, z2}
    FirstZone = z1
    Calls <- MCOneCall
    ScanInterval = 1
    RequestTimeout = 0
    RetryAfters = {}
    Tasks = {t1, t2}
    Nobody = nobody
INVARIANTS ControlsTypeOK
PROPERTIES CallsKeepPromise CallsEnd Converges
