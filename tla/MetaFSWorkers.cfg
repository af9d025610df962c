SPECIFICATION Spec
CONSTANTS
    d1 = d1  d2 = d2
    f1 = f1  f2 = f2
    text = text  image = image  small = small
    a = a  b = b
    Source = {f1, f2}
    SourceDir <- MCSourceDir
    Paths <- MCPaths
    FilesIn <- MCFilesIn
    SubDirs <- MCSubDirs
    Base = {a}
    BaseName <- MCBaseName
    Unclassifiable = {}
    Key <- FlatKey
    PathParts <- FlatPathParts
    Worker = {w1, w2}
    w1 = w1  w2 = w2

    Dirs <- FlatDirs
    MaxNum = 2
    NoName = NoName
    Modes = {"foreground"}
INVARIANTS CalmAnswers
PROPERTIES ViewSpec
SYMMETRY WorkerSymmetry
CHECK_DEADLOCK FALSE
