SPECIFICATION Spec
CONSTANTS
    home = home
    list = list
    confirm = confirm
    Pages <- TwoPages
    NoPage = null
    MaxDepth = 3
INVARIANTS
    SignalNamesPage
CHECK_DEADLOCK FALSE
