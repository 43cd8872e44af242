\* The board's values again, and nothing but one Linux reboot, across which the
\* monitor stays armed.
CONSTANTS
    NumCores = 4
    MISS_THRESHOLD = 8
    MaxPolls = 2
    BootPolls = 2
    Faults = {"reboot"}
    MaxTicks = 6
    MaxReboots = 1
SPECIFICATION Spec
INVARIANTS
    NoFalseReset
CHECK_DEADLOCK FALSE
