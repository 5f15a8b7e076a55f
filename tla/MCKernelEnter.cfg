SPECIFICATION Spec
CONSTANTS
    Logging = FALSE
    Raised <- TimerAndKeyboard
PROPERTIES EnterPowersOff
CHECK_DEADLOCK FALSE
