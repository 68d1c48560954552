SPECIFICATION FairSpec
CONSTANTS
    Tokens = {t1, t2, t3}
    Twin = t3
    UniqueIds <- MCUniqueIds
    UniqueId <- MCUniqueId
    Ids = {e1, e2}
    Flows = {f1, f2}
INVARIANTS TypeOK UniqueIdsDiffer RunsItsToken ReauthTakesEffect
PROPERTIES Recovers
