\* One other core, which has to be off when the first suspends the system.
CONSTANTS
    NumCores = 2
SPECIFICATION Spec
INVARIANTS
    HeartbeatRouted
CHECK_DEADLOCK FALSE
