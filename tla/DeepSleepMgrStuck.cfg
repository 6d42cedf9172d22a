SPECIFICATION FairSpec
CONSTANTS
    DsThreads = {1, 2}
    SourceIds = {1, 2, 3}
    DelayChoices = {TRUE}
    ServiceKind = "lxc"
    UseWakeupTimerEvt = TRUE
    MaxTries = 2
    ForeignWakeups = FALSE
    MaxWakes = 1
PROPERTY InProgressEnds
CHECK_DEADLOCK FALSE
