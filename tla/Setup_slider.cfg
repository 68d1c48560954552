SPECIFICATION Spec
CONSTANTS
    e1 = e1
    e2 = e2
    common = common
    iyilo = iyilo
    z1 = z1
    z2 = z2
    l1 = l1
    l2 = l2
    Entries = {e1, e2}
    Chargers = {common, iyilo}
    AccountKeys = {"charger_count"}
    Zones = {z1, z2}
    ZoneLabels = {l1, l2}
    Answers <- MCAnswers
    Before <- MCBefore
INVARIANTS SliderExists
