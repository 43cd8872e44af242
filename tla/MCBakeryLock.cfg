\* Three contenders, so that one can be passed by while another releases and
\* comes back, and tickets beyond the number of cores.
CONSTANTS
    BAKERY_LOCK_MAX_CPUS = 3
    TICKET_BITS = 15
    MaxTicket = 5
SPECIFICATION Spec
INVARIANTS
    TypeOK
    MutualExclusion
    ServedInOrder
PROPERTIES
    RefinesMutex
