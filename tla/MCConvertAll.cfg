SPECIFICATION ConvSpec
CONSTANTS
    NKeys = 5
    NaN = NaN
    Prices = {1, 2, 3}
    Qtys = {0, 1, 2}
    Incs <- ChangesOfOne
    Trades = {1, 2}
    Times = {1}
    NATV = 9
    QuotePrices <- Asks
    MaxQty = 2
    MaxReads = 1
    NotAQuo = NotAQuo
    Echo = Echo
    MaxSeen = 3
PROPERTIES OutputFollows TopFollows
VIEW ConvView
