CONSTANTS
    Key <- MCKey
    MaxFourDigit = 65535
    Fresh = 2
SPECIFICATION HexSpec
INVARIANTS
    PlaceholderShapeKept
