SPECIFICATION Spec
CONSTANTS
    Char = {"l", "e"}
    LINE_MAX = 3
    RAMFS_NAME_MAX = 2
    MAX_SYSCALLS = 5
    ExecNameMax = 2
    FifoSize = 2
    Ls <- MCLs
    Exit <- MCExit
    BootFiles <- MCBootFiles
INVARIANTS TypeOK CommandIsShown 
PROPERTIES EnterAnswered
