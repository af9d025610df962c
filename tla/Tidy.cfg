SPECIFICATION FairSpec
CONSTANTS
    a = a  b = b  c = c  d = d  dead = dead  loop = loop
    text = text  here = here  first = first  second = second
    byType = byType  byDate = byDate
    File = {a, b, c, d, dead, loop}
    Magic <- MCMagic
    SizeOf <- MCSizeOf
    Human <- MCHuman
    DateOf <- MCDateOf
    Structure <- MCStructure
    Directory <- MCDirectory
    Expanded <- MCExpanded
    DirLink = {loop}
    Dangling = {dead}
    Name <- MCName
    NameKey <- MCNameKey
    SourceDir <- MCSourceDir
    NoKey = NoKey
    OneDigit = 2
    Inverted <- MCInverted
    Trees <- MCTrees
    Root <- MCRoot
    Below <- MCBelow
    WholeTree = here
    Args <- MCArgs
    MaxRuns = 3
INVARIANTS NothingLost RunArranges RerunMovesNothing
PROPERTIES RunsEnd
CHECK_DEADLOCK FALSE
