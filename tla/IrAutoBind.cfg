SPECIFICATION AbSpec
CONSTANTS
    OffThread = {t1, t2, t3}
    MaxGhosts = 5
INVARIANTS AlwaysSwitchedOff
CHECK_DEADLOCK FALSE
