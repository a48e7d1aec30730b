SPECIFICATION ProfilesSpec
CONSTANTS
    p1 = p1
    p2 = p2
    PpDevices = {p1, p2}
    PpNoDevice = none
    LoadedModules = {"sink", "source", "ag", "hid"}
    m_maxExecutionTimes = 1
    MaxPolls = 2
    MaxReports = 3
    MaxTime = 1
    Attributes = {"title", "album"}
    Texts = {"a", "b"}
    AncsUids = {1, 2, 3}
    MaxLinks = 2
    MaxNotices = 3
    MaxByHand = 1
    MaxAncsQueue = 2
    KanbanClients = {"k1", "k2"}
    MaxRegistrations = 2
    MaxSent = 2
INVARIANTS
    ProfilesInv
    CommandsOneByOne
    EnabledAsAnswered
PROPERTIES
    RequestsAreRight
    DialogEnds
    PlayerIsFollowed
    TelephoneIsAsked
    
CHECK_DEADLOCK FALSE
