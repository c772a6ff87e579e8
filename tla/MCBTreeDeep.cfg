SPECIFICATION Spec
CONSTANTS
    NKeys = 4
    NaN = NaN
    Puts = {1, 2, 3, 4, 5, 6, 7}
    Qtys = {1}
    descp = TRUE
    MaxNodes = 8
INVARIANTS TypeOK TreeShape TreeSorted ChainInOrder TopOfTree
PROPERTIES PutKeepsOthers
VIEW WriteView
