SPECIFICATION EntriesSpec
CONSTANTS
    f1 = f1  f2 = f2  f3 = f3  f4 = f4
    d1 = d1  d2 = d2  d3 = d3
    text = text  image = image  small = small
    a = a  b = b
    Source <- MCSource
    SourceDir <- MCSourceDir
    Paths <- MCPaths
    FilesIn <- MCFilesIn
    SubDirs <- MCSubDirs
    Unclassifiable <- MCUnclassifiable
    Base <- MCBase
    BaseName <- MCBaseName
    Key <- MCKey
    PathParts <- MCPathParts
INVARIANTS TypeOK IndexConsistent TreeNamed UniqueNames EntryPlacement
PROPERTY IndexOnlyGrows
CHECK_DEADLOCK FALSE
