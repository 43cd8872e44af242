\* CTRL and KICK; the master may run one read ahead.
CONSTANTS
    RELOAD_DEFAULT = 1
    Addrs = {0, 2}
    Words = {0, 1}
    MaxReads = 2
SPECIFICATION Spec
INVARIANTS
    WritesLand
    WriteAnswered
    SingleReadAnswered
PROPERTIES
    ReadDataStable
    BusLive
