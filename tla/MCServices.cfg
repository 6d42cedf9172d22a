SPECIFICATION ServicesSpec
CONSTANTS
    MaxArm = 3
    UseCecStandby = TRUE
    MaxResets = 2
    MaxCreateFails = 1
    MaxRestarts = 1
    MaxThreads = 2
    MaxMoves = 2
    MaxFails = 1
    MaxLost = 1
    Client = {"updater", "recovery"}
    Wifi = TRUE
    MaxMfrCalls = 3
    MaxReports = 2
    OffThread = {t1, t2, t3}
    MaxGhosts = 5
INVARIANTS
    NoOrphan
    CancelledStaysSilent
    OneStandbyPerArming
    
    SomebodySwitchesOff
PROPERTIES
    ArmingEnds
    OperationsEnd
    BusReturns
    SuccessIsOwn
CHECK_DEADLOCK FALSE
