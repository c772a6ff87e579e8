SPECIFICATION FeedSpec
CONSTANTS
    NKeys = 5
    NaN = NaN
    Prices = {1, 2, 3, 4}
    Qtys = {0, 1, 2}
    Incs <- ChangesOfTwo
    Trades = {1}
    Times = {1, 2}
    NATV = 9
    QuotePrices <- Asks
    MaxQty = 2
    MaxReads = 2
    NotAQuo = NotAQuo
    Echo = Echo
PROPERTIES FeedIsMap
VIEW BookView
