SPECIFICATION Spec3
CONSTANTS
    Books = {"a", "b"}
    Prices = {1, 2, 3}
    QuotePrices <- OneDeep
    MaxQty <- Amounts
    Chunk = 1
    Spares = {0, 9}
INVARIANTS PhotoInBounds ChangesAddUp
