SPECIFICATION FreshFairSpec
CONSTANTS
    Worlds = {w1, w2}
    ScanInterval = 2
    RequestTimeout = 1
    RetryAfters = {0, 3}
    Longest = 3
    Tasks = {t1, t2}
    Nobody = nobody
INVARIANTS TypeOK PollingAlive ReauthOnlyIfRefused AvailableMeansRecent NeverSilent
PROPERTIES PollsWait OutsideChangeSeen BackoffEnds RevocationNoticed
