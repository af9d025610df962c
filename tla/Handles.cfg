SPECIFICATION Spec
CONSTANTS
    Worker = {w1, w2}
    Name = {n1}
    Config = dotconfig
    Source = {s1}
    i1 = i1  i2 = i2  text = text  other = other  config = config
    Inode <- MCInode
    ConfigInode = c1
    Data = {text, other, config}
    data <- MCData
    Handle = {h1, h2}
    MaxFd = 6
    MaxScanFds = 1
    ConfigLength = 1
    None = None
    MaxOthers = 2
SYMMETRY Symmetries
INVARIANTS DescriptorsKept ReadersSurvive
PROPERTIES ViewSpec
CHECK_DEADLOCK FALSE
