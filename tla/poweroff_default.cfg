SPECIFICATION Spec
CONSTANTS
    Modes = {"hard", "soft", "trySoft"}
    Timeouts = {0}
    Tick = 20
    MaxAge = 400
PROPERTIES GuestGetsItsTime
CHECK_DEADLOCK FALSE
