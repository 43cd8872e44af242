\* Two cores racing for a third, or one switching another off and on while the
\* third suspends.
CONSTANTS
    NumCores = 3
SPECIFICATION Spec
INVARIANTS
    AssertionsHold
    ContextReady
    RequestStands
    ClusterRuns
    CoherentWhileRunning
    HeartbeatUntilResume
PROPERTIES
    OnMeansUp
    HeartbeatWakes
CHECK_DEADLOCK FALSE
