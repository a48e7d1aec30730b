SPECIFICATION AdaptorSpec
CONSTANTS
    d1 = d1
    d2 = d2
    p1 = p1
    p2 = p2
    Devices = {d1, d2}
    NoDevice = none
    MaxDialogs = 2
    m_maxExecutionTimes = 1
    Names = {1, 2}
    MaxReports = 2
    Phones = {p1, p2}
    NoPhone = none
    MaxPaired = 2
    CallIndexes = {1, 2}
    m_maxQueryTimes = 1
    MaxUnderWay = 2
INVARIANTS
    AdaptorInv
    ReplyIsOfOneRequest
PROPERTIES
    NumberMeansPrintedDevice
    RequestIsAnswered
    SettingsKept
    EveryChangeIsQueried
    CallsAreQueried
CHECK_DEADLOCK FALSE
