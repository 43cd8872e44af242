\* A core that was counted may be switched off before it takes the SGI.
CONSTANTS
    NumCores = 2
    Hotplug = TRUE
SPECIFICATION Spec
PROPERTIES
    RestartHappens
CHECK_DEADLOCK FALSE
