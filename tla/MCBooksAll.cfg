SPECIFICATION Spec
CONSTANTS
    NKeys = 5
    NaN = NaN
    Prices = {1, 2, 3}
    Qtys = {0, 2}
    Incs <- ChangesOfTwo
    Trades = {1}
    Times = {1, 2}
    NATV = 9
    QuotePrices <- BothSides
    MaxQty = 2
    MaxReads = 2
    NotAQuo = NotAQuo
    Echo = Echo
INVARIANTS TypeOK Sorted
PROPERTIES SettledKeepsVisible RemovesExactly
VIEW BookView
