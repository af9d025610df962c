SPECIFICATION Spec
CONSTANTS
    Worker = {w1, w2}
    p1 = p1
    p2 = p2
    root = root
    sub = sub
    Path <- MCPath
    Dir <- MCDir
    TopDirs <- MCTopDirs
    DirOf <- MCDirOf
    Inode = {i1, i2}
    Data = {empty, v}
    Empty = empty
    Handle = {h1, h2}
    MaxFd = 3
    Inherited <- MCInherited
    None = None
    MaxOthers = 1
SYMMETRY Symmetries
INVARIANTS DescriptorsKept
PROPERTY ViewSpec
CHECK_DEADLOCK FALSE
