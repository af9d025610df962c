SPECIFICATION FairSpec
CONSTANTS
    top = top  sub = sub  keep = keep  file1 = file1  file2 = file2  file3 = file3
    nothing = nothing  zero = zero  pipe = pipe
    Name <- MCName
    Parts <- MCParts
    Node <- MCNode
    Kind <- MCKind
    SizeOf <- MCSizeOf
    Entries <- MCEntries
    Given <- MCGiven
    Glob = {"*.txt", "*.jpg", "*/keep/*"}
    Matches <- MCMatches
    MaxLinks = 1
    Invocations <- MCInvocations
INVARIANTS ReadOnlyByPath  FoundOnce
PROPERTIES ScanEnds
CHECK_DEADLOCK FALSE
