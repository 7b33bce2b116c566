SPECIFICATION FairSpec
CONSTANTS
    Modes = {"hard", "soft", "trySoft"}
    Timeouts = {60, 100, 300}
    Tick = 20
    MaxAge = 400
PROPERTIES GuestGetsItsTime TurnsOff
CHECK_DEADLOCK FALSE
