SPECIFICATION Spec1
CONSTANTS
    Prices = {2, 3, 5}
    Qtys = {0, 1, 2}
    Incs = {}
    Times = {1}
    Trades = {1}
    NotAQuo = NotAQuo
    Echo = Echo
    N = 2
    cqty = 2
INVARIANTS TopsFollow
VIEW TopsView
