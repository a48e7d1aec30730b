SPECIFICATION OptionsSpec
CONSTANTS
    MaxOptions = 4
PROPERTIES
    PrintedIndexIsInvoked
