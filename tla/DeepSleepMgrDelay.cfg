SPECIFICATION Spec
CONSTANTS
    DsThreads = {1, 2}
    SourceIds = {1, 2, 3}
    DelayChoices = {TRUE, FALSE}
    ServiceKind = "lxc"
    UseWakeupTimerEvt = FALSE
    MaxTries = 1
    ForeignWakeups = TRUE
    MaxWakes = 1
INVARIANT NoStrayDelay
