SPECIFICATION FairSpec
CONSTANTS
    DsThreads = {1}
    SourceIds = {1, 2}
    DelayChoices = {FALSE}
    ServiceKind = "none"
    UseWakeupTimerEvt = FALSE
    MaxTries = 1
    MaxWakes = 1
    OffStates = {"DEEP_SLEEP"}
    RpcStates = {}
    DiscreteKeys = {}
    Remotes = FALSE
    EcmLoss = FALSE
    SchdReboot = TRUE
    MayFail = FALSE
    BootStates = {"ON"}
    MaxRequests = 2
    MaxTimers = 2
PROPERTIES
    TimeoutLeavesDeepSleep
    KeyIsCarriedOut
CHECK_DEADLOCK FALSE
