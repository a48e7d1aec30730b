SPECIFICATION Spec
CONSTANTS
    Grace = 2
    Far = 4
    MaxEvents = 2
INVARIANTS
    TripsWhenOverdue
CHECK_DEADLOCK FALSE
