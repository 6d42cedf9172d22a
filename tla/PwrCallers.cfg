SPECIFICATION Spec
CONSTANTS
    DsThreads = {1, 2}
    SourceIds = {1, 2}
    DelayChoices = {TRUE, FALSE}
    ServiceKind = "none"
    UseWakeupTimerEvt = TRUE
    MaxTries = 1
    MaxWakes = 1
    OffStates = {"STANDBY"}
    RpcStates = {"LIGHT_SLEEP", "DEEP_SLEEP"}
    DiscreteKeys = {"ON", "STANDBY"}
    Remotes = TRUE
    EcmLoss = TRUE
    SchdReboot = TRUE
    MayFail = TRUE
    BootStates = {"ON", "STANDBY"}
    MaxRequests = 2
    MaxTimers = 1
INVARIANTS
    AgreeAtRest
    FileMatches
PROPERTIES
    PowerAsPromised
CHECK_DEADLOCK FALSE
