\* The desktop app locks and says so by an event; no message is lost.
SPECIFICATION Spec
CONSTANTS
    Settings = {1}
    DeskTimeout <- NoTimeout
    Sessions = {}
    MaxIdle = 1
    MaxClears = 1
    MaxPushes = 1
    MaxFaults = 0
PROPERTIES ReadsFailClosed
