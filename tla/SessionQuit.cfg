\* The native host is installed and the desktop app has been quit.
SPECIFICATION Spec
CONSTANTS
    Settings = {1}
    DeskTimeout <- NoTimeout
    Sessions = {}
    MaxIdle = 1
    MaxClears = 1
    MaxPushes = 1
    MaxFaults = 0
PROPERTIES QuitFreesUnlock
