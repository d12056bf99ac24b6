SPECIFICATION MCSpec
CONSTANTS
    exe = exe
    cwd = cwd
    NoDir = NoDir
    Absent <- MCAbsent
    Torn = Torn
    Unparsable = Unparsable
    Dir = {exe, cwd}
    Garbage <- Broken
    HostWord <- MCHostWord
    HexWord <- MCHexWord
    PortWord <- MCPortWord
    DigitPort <- MCDigitPort
    SignedPort <- MCSignedPort
    Loopback4 <- MCLoopback4
    Dotted127 <- MCDotted127
    Wildcard4 <- MCWildcard4
    Loopback6 <- MCLoopback6
    ResolvedName <- MCResolved
    Searched <- MCSearched
    Disks <- MCDisks
    Edits <- MCEdits
    TypedUrl <- MCTypedUrl
    TypedAddr <- MCTypedAddr
    DiskMayFail = TRUE
    MaxStarts = 2
    MaxCalls = 2
    MaxEdits = 1
    MaxUrl = 5
    MaxAddr = 3
INVARIANTS
    TypeOK
    RestartResumes
    StartsGuarded
    RefusedOnlyByName
    EndpointUsable
    AgentStaysLocal
PROPERTIES
    SourceOfTruth
    CorruptIsKept
CHECK_DEADLOCK FALSE
