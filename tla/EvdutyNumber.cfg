SPECIFICATION Spec
CONSTANTS
    Amps = {16, 32}
    Calls = {1, 2}
    Interruptions = {"cancel", "reload", "crash", "baseline"}
INVARIANTS TypeOK ShownIsHeld OneAtATime
