SPECIFICATION FairSpec
CONSTANTS
    p1 = p1  p2 = p2  p3 = p3  p4 = p4  p5 = p5
    x1 = x1  y1 = y1  z1 = z1
    Entry = {p1, p2, p3, p4, p5}
    Content <- MCContent
    Gone = Gone
    MaxPartial = 2
    Checksum = {0, 1}
    Crc <- MCCrc
    Quit = Quit  All = All  None = None
    MaxTokens = 2
    Scenarios <- MCScenarios
INVARIANTS MatchesExact FirstPreserved UnaskedKept NoFileTwice
PROPERTIES LastCopyKept ReadOnlyKept Termination
CHECK_DEADLOCK FALSE
