\* The four cores, any of the secondaries off from the start, or going off and
\* coming back while the event is handled. Parked cores stay in wfi until the
\* PMU resets them, so the system does stop.
CONSTANTS
    NumCores = 4
    Hotplug = TRUE
SPECIFICATION Spec
INVARIANTS
    TypeOK
    CountExact
    ShutdownAfterAll
PROPERTIES
    RestartUnlessLost
CHECK_DEADLOCK FALSE
