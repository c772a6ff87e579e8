SPECIFICATION DepthSpec
CONSTANTS
    Prices = {1, 2, 3, 5}
    Qtys = {1, 2, 3}
    Times = {1, 2}
    MaxLevels = 3
    Wants = {1, 2, 3, 5}
    MaxN = 3
    NATV = 9
    NANPX = NANPX
INVARIANTS ConsolidatedExactly PriceRounded FilledWithinLimit
CHECK_DEADLOCK FALSE
