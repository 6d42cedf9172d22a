SPECIFICATION ManagersSpec
CONSTANTS
    VideoPorts <- MCVideoPorts
    UnknownNames = {"NONE1"}
    MaxSlots = 1
    AudioPersist <- MCAudioPersist
    PassThru = {"SPDIF", "HDMI"}
    Disconnected = {"HDMI"}
    LedInLowPower = FALSE
    MayThrow = TRUE
    MayLoseRead = TRUE
    BootStates = {"STANDBY"}
    AskedStates = {"OFF"}
    EnabledValues = {0, 1, 2}
    MaxChanges = 1
    MaxCalls = 2
    TVs <- MCTVs
    Platform = {"720p", "1080p", "2160p"}
    Default = "720p"
    UserResolutions = {"2160p"}
    MaxPlugs = 2
    MaxHdcp = 2
    Profiles = {"stb", "stb_eu", "tv"}
    MaxPower = 2
    MaxConfig = 1
    Retries = 1
    Checks = 1
    IrPressed = {"A", "FP_POWER", "LAST"}
    RfPressed = {"SELECT", "XR15_PUSH_TO_TALK"}
    FpOnce = TRUE
    Intervals = {0, 1}
    MaxRepeats = 1
    MaxPresses = 2
    MaxSettings = 1
    MaxTimers = 1
    MediaClient = TRUE
    MfrSerial = TRUE
    MaxEvents = 2
    MaxSysCalls = 2
    MaxSysRestarts = 1
    MaxFolders = 3
    Delays = {0, 2}
    MonthLengths = {28, 29, 30, 31}
    StartCount = 1
    Device = {d1, d2}
    MaxSessions = 1
    MaxSent = 2
    MaxRestarts = 1
INVARIANTS
    PortsAsAsked
    PowerIsAsked
    SettingsAreKept
    StereoOnlyInEas
    AuthenticatedIsSet
    PortsFollowPower
    PatternStands
    OneKeyDown
    StatesAsPublished
    EveryFolderHasItsDay
    UiDecides
CHECK_DEADLOCK FALSE
