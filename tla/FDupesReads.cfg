SPECIFICATION Spec
CONSTANTS
    x1 = x1  y1 = y1
    Content <- MCContent
    MaxPartial = 2
    Crc <- MCCrc
    Modulus = 8
INVARIANTS ReadsExact
PROPERTIES ReadsEnd
CHECK_DEADLOCK FALSE
