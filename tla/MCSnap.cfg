SPECIFICATION SnapSpec
CONSTANTS
    Instrs = {"a", "b"}
    Prices = {2, 3}
    Horizon = 7
    NATV = 99
    MSECS = 2
    SIXTY = 3
    CommandLines <- SomeLines
PROPERTIES SnapTruthful StampsAdvance GapsAreQuiet ExpiryShown SnapsEnd
CHECK_DEADLOCK FALSE
