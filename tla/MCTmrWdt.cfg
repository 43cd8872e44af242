\* RELOAD unset, just above the kick period, and longer.
CONSTANTS
    RELOAD_DEFAULT = 4
    Reloads = {0, 3, 5}
    KickPeriod = 2
    MaxUpsets = 2
SPECIFICATION Spec
INVARIANTS
    NoFalseAlarm
    AlarmInTime
PROPERTIES
    DeadReported
