SPECIFICATION FairSpec
CONSTANTS
    Grace = 2
    Far = 4
    MaxEvents = 2
INVARIANTS
    TimerThreadInv
PROPERTIES
    DueIsPosted
    StopTerminates
CHECK_DEADLOCK FALSE
