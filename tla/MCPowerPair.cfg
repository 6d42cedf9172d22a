SPECIFICATION PpSpec
CONSTANTS
    CallStates = {"DEEP"}
    Delays = {FALSE, TRUE}
    Builds <- PpBuilds
    EcmLoss = TRUE
    MaxRequests = 3
    MaxTimers = 1
    MaxFails = 1
INVARIANT SleepsOnlyInDeepSleep
PROPERTY UserWakesBox
CHECK_DEADLOCK FALSE
