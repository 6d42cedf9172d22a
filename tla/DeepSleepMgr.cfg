SPECIFICATION FairSpec
CONSTANTS
    DsThreads = {1, 2}
    SourceIds = {1, 2, 3}
    DelayChoices = {FALSE}
    ServiceKind = "lxc"
    UseWakeupTimerEvt = TRUE
    MaxTries = 2
    ForeignWakeups = FALSE
    MaxWakes = 1
INVARIANTS
    InProgressIsTrue
    AwakeHasServices
PROPERTY InProgressEnds
