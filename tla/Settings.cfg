CONSTANTS
    StartupLines = {0}
    Coords = {300, 540, 920}
    ToolData = {1}
    Storage = "EEPROM"
    Torn = Torn
    v1 = v1
    Clear = Clear
    Values = {v1}
    Caps = {"pwm_invert", "suspend_read"}
    MaxRate = 1
    Menus <- MCMenus
    Foreign <- MCForeign
    Unreliable <- MCUnreliable
    FS = {"sd", "usb", "web", "dev"}
    Where <- MCWhere
    Hidden = {"web", "dev"}
    Nameless = {"dev", "null"}
    DevFS = "dev"
    Booted = {"dev"}
    FileNames = {"a", ".."}
    Devices = {"uart0"}
    MaxFiles = 2
    MaxDepth = 2
    FileWindows = {}
SPECIFICATION StorageSpec
INVARIANTS Tracked SavedIsLive SettingsAgree VfsSound
PROPERTIES OnlyTornIsLost
