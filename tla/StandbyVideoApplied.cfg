SPECIFICATION Spec
CONSTANTS
    VideoPorts <- MCVideoPorts
    UnknownNames = {"NONE1"}
    MaxSlots = 2
    AudioPersist <- MCAudioPersist
    PassThru = {"SPDIF", "HDMI"}
    Disconnected = {"HDMI"}
    LedInLowPower = FALSE
    MayThrow = FALSE
    MayLoseRead = FALSE
    BootStates = {"ON"}
    AskedStates = {"ON", "OFF"}
    EnabledValues = {0, 1}
    MaxChanges = 2
    MaxCalls = 1
INVARIANT SettingApplied
CHECK_DEADLOCK FALSE
