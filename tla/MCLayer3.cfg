\* The four cores of the ZCU102, the threshold of the code and two polls per
\* interval; hangs, deaths and a Linux reboot at any point, the first two also
\* while TriggerReset runs.  With a threshold of 7 NoFalseResetBeforeReboot fails
\* within five intervals.
CONSTANTS
    NumCores = 4
    MISS_THRESHOLD = 8
    MaxPolls = 2
    BootPolls = 2
    Faults = {"hang", "die", "reboot"}
    MaxTicks = 6
    MaxReboots = 1
SPECIFICATION Spec
INVARIANTS
    NoFalseResetBeforeReboot
    CleanSlate
PROPERTIES
    Recovers
CHECK_DEADLOCK FALSE
