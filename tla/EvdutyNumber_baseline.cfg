SPECIFICATION Spec
CONSTANTS
    Amps = {16, 32}
    Calls = {1}
    Interruptions = {"reload", "baseline"}
INVARIANTS UnappliedShowsCeiling
