SPECIFICATION FairSpec
CONSTANTS
    home = home
    list = list
    confirm = confirm
    Pages <- TwoPages
    NoPage = null
    MaxDepth = 3
INVARIANTS
    ScreenShowsTop
    ChangeIsDrawn
PROPERTIES
    NeverEmptied
    PopsAnnounced
    EventuallyDrawn
CHECK_DEADLOCK FALSE
