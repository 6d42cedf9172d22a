SPECIFICATION PartsSpec
CONSTANTS
    Readings <- MCReadings
    Critical <- MCCritical
    Concern <- MCConcern
    Safe <- MCSafe
    DcCritical = 110
    DcConcern = 100
    DcSafe = 90
    DcGrace = 2
    GraceConfig = {0, 2}
    GraceCalls = {1}
    ClockSteps <- MCClockSteps
    BootSpeeds = {3}
    MaxTime = 3
    MaxGraceCalls = 1
    MaxBoots = 2
    RkBuilds <- MCRkBuilds
    KeyTimeout = 1
    FirstTimeout = 2
    HoldReset = 1
    HoldReboot = 2
    HoldFactory = 2
    MaxAge = 3
    MaxLost = 1
    StBuilds <- MCStBuilds
    FirstFiles <- MCFirstFiles
    Timeouts = {7}
    DefaultTimeout = 16
    Nows = {3}
    Zones <- MCZone
    MaxStarts = 3
    MaxCalls = 2
    MaxFaults = 2
    RfcValues <- MCRfcValues
    DefaultStandby = 3
    DefaultForce = 6
    MaxUp = 7
    MaxSets = 3
INVARIANTS
    ResetOnlyBySequence
    HoldWasReal
    StandbyRebootEarned
    PowerKept
    WakesAtTwo
PROPERTY RebootGraceKept
CHECK_DEADLOCK FALSE
