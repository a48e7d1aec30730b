SPECIFICATION LibrarySpec
CONSTANTS
    home = home
    confirm = confirm
    Second = 2
    Timeout = 3
    Defaults = {TRUE}
    c1 = c1
    c2 = c2
    NoEntry = end
    MaxOptions = 4
    Letters = {1, 2}
    ActionNames <- TwoNames
    MaxActions = 2
    MaxTyped = 3
    parent = parent
    left = left
    right = right
    single = single
    NoState = null
    mHaltingState = halting
    mQuittingState = quitting
    States <- FourStates
    Parent <- ParentOfFour
    mInitialState = left
    mMaxSize = 2
    MaxMsgs = 2
    MaxDefers = 2
    MaxHops = 1
    Octets = {0, 1, 128, 255}
    Characters = {0, 10, 15, 16, 17, 18}
    AddressOctets = {0, 1, 171, 255}
    Misprints = {1, 16, 17, 18, 19}
    CodecTypes = {0, 1, 4}
    Masks = {0, 1, 2, 3, 32, 63}
    SmallMasks = {0, 1, 2, 3}
INVARIANTS
    LibraryInv
    AnsweredOnce
    MessagesKept
    ReadAsPrinted
PROPERTIES
    DialogTakesItsTime
    KeepsFiring
    NumbersCallWhatTheyStandAt
    StopEndsOrWaits
    QuitEnds
CHECK_DEADLOCK FALSE
