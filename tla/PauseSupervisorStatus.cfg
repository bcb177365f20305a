SPECIFICATION Spec
CONSTANTS
    MaxSignals = 0
    MaxKills = 1
PROPERTY
    TerminalStays
CHECK_DEADLOCK FALSE
