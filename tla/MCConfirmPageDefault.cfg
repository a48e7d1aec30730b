SPECIFICATION Spec
CONSTANTS
    home = home
    confirm = confirm
    Second = 2
    Timeout = 3
    Defaults = {TRUE, FALSE}
PROPERTIES
    ChoosesDefault
