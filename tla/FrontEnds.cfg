SPECIFICATION FESpec
CONSTANTS
    Programs <- MCPrograms
    MaxNames = 2
    MaxFiles = 2
    Present = {2}
    MaxOps = 2
    MaxQueued = 1
    MaxCommands = 1
    FirstFile = 3
INVARIANTS
    SessionHasOneOwner
    IdleMeansQuiet
    ListIsTable
    NoHiddenSession
    ReportedFilesStay
PROPERTIES
    CreateSparesExisting
    BusyEnds
CHECK_DEADLOCK FALSE
