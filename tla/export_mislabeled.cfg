SPECIFICATION ExportSpec
CONSTANTS
    s1 = s1  s2 = s2  v1 = v1  v2 = v2
    Zero = Zero  NoNode = NoNode  NoWrite = NoWrite  NoHead = NoHead
    Stem <- MCStem
    SubIndex <- MCSubIndex
    Value <- MCValue
    Body <- MCBody
    Writes <- MCWrites
    FlushInterval = 2
    DeltaRetention = 1
    NomtHistory = 2
    MaxHeight = 3
    MaxBatch = 1
    MaxReorg = 2
    NoOpBlocks = FALSE
    BackfillsFresh = TRUE
    MaxStops = 0
    CrashPoint <- NoCrashPoint
    ContractStems <- MCContract
    Kinds <- StateKind
INVARIANT CalmExportExact
