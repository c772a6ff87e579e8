SPECIFICATION FeedSpec
CONSTANTS
    NKeys = 5
    NaN = NaN
    Prices = {1, 2, 3}
    Qtys = {0, 1}
    Incs <- ChangesOfOne
    Trades = {1}
    Times = {1}
    NATV = 9
    QuotePrices <- Asks
    MaxQty = 1
    MaxReads = 2
    NotAQuo = NotAQuo
    Echo = Echo
INVARIANTS TopIsBest
