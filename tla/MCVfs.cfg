SPECIFICATION Spec
CONSTANTS
    src = src
    bin = bin
    longname = longname
    Names <- MCNames
    LongNames = {longname}
    TooLongNames = {longname}
    Cut = src
    RAMFS_MAX_FILES = 3
    RAMFS_MAX_DIRENT = 4
    PAGE_SIZE = 1
    NVnodes = 3
    Paths <- MCPaths
    Counts <- MCCounts
    Offsets <- MCOffsets
    NFILES = 2
    MaxCalls = 5
INVARIANTS
    UsesAreCounted
    OneVnodePerFile
PROPERTIES
    FullDirectoriesKeepTheirNames
CHECK_DEADLOCK FALSE
