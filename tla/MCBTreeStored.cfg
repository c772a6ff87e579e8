SPECIFICATION WriteSpec
CONSTANTS
    NKeys = 4
    NaN = NaN
    Puts = {1, 2, 3, 4, 5, 6}
    Qtys = {1}
    descp = FALSE
    MaxNodes = 4
INVARIANTS PutIsStored
