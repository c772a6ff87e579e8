SPECIFICATION WireSpec
CONSTANTS
    G = 2
    NATV = 1000000000
    Ds = {0, 4, 5, 9}
    MaxDigits = 5
    Numerals <- SomeNumerals
    Mantissas <- SomeMantissas
    Exponents <- SomeExponents
    Lines <- SomeLines
INVARIANTS PrintedExactly ReadNearest
PROPERTIES QuantisedAndScaled LinesReadBack
