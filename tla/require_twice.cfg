CONSTANTS
    Dirs <- ThreeDirs
    VRoot = "vroot"
    Cwd = "cwd"
    LibDirs <- OneRubylib
    Stems <- TwoStems
    DiskFiles <- MCDisk
    MemoryFiles <- MCMemory
    Filename <- Paths
    TopFilename <- MCTop
    MaxLineno = 6
    Requests <- MCRequests
    Relatives <- MCRelatives
    Programs <- MCProgramFiles
    Definitions <- MCDefinitions
    InlineFilename <- MCInline
    MaxCalls = 3
    MaxContexts = 3
    ReplFilename <- MCAirb
    MaxBuffer = 3
    MaxLines = 8
SPECIFICATION ProgramsSpec
PROPERTY SuccessOnce
CHECK_DEADLOCK FALSE
