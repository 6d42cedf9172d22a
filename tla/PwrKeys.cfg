SPECIFICATION Spec
CONSTANTS
    DsThreads = {1, 2}
    SourceIds = {1, 2}
    DelayChoices = {FALSE}
    ServiceKind = "none"
    UseWakeupTimerEvt = FALSE
    MaxTries = 1
    MaxWakes = 1
    OffStates = {"STANDBY", "DEEP_SLEEP"}
    RpcStates = {}
    DiscreteKeys = {}
    Remotes = FALSE
    EcmLoss = FALSE
    SchdReboot = FALSE
    MayFail = FALSE
    BootStates = {"ON"}
    MaxRequests = 3
    MaxTimers = 1
INVARIANTS
    NoLostSignal
    NoStrayWakeup
CHECK_DEADLOCK FALSE
