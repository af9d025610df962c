SPECIFICATION FairSpec
CONSTANTS
    d1 = d1  d2 = d2
    f1 = f1  f2 = f2
    text = text  image = image  small = small
    a = a  b = b
    Source = {f1, f2}
    SourceDir <- MCSourceDir
    Paths <- MCPaths
    FilesIn <- MCFilesIn
    SubDirs <- MCSubDirs
    Base = {a}
    BaseName <- MCBaseName
    Unclassifiable = {f2}
    Key <- DeepKey
    PathParts <- DeepPathParts
    Worker = {w1}
    w1 = w1  w2 = w2

    Dirs <- DeepDirs
    MaxNum = 2
    NoName = NoName
    Modes = {"foreground", "background"}
INVARIANTS CalmAnswers
PROPERTIES UnlinkExact IndexFrozenByFork NoCrashAfterScan ViewSpec RequestsAnswered EventuallyListed
CHECK_DEADLOCK FALSE
