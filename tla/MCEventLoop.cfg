SPECIFICATION FairSpec
CONSTANTS
    keyboard = keyboard
    timer = timer
    e1 = e1
    e2 = e2
    e3 = e3
    Loop = loop
    Free = free
    Posters <- TwoPosters
    Events <- ThreeEvents
    QuitEvents <- OneQuit
    QuitCallers <- KeyboardQuits
INVARIANTS
    FifoNoLoss
    NoLostWakeup
PROPERTIES
    QuitEndsIntake
    PostedIsHandled
    QuitIsSeen
    ImplementsEventQueue
CHECK_DEADLOCK FALSE
