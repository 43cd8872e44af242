\* The four APU cores of the ZCU102; a stall needs three intervals to show.
CONSTANTS
    Cores = {c1, c2, c3, c4}
    MaxTicks = 5
SYMMETRY CoreSymmetry
SPECIFICATION Spec
INVARIANTS
    TypeOK
    BeatsEveryTick
    LeadBounded
    BoundedStall
PROPERTIES
    RefinesHeartbeat
CHECK_DEADLOCK FALSE
