SPECIFICATION Spec
CONSTANTS
    s1 = s1  s2 = s2  v1 = v1  v2 = v2
    Zero = Zero  NoNode = NoNode  NoWrite = NoWrite  NoHead = NoHead
    Stem <- MCStem
    SubIndex <- MCSubIndex
    Value <- MCValue
    Body <- MCTwoBodies
    Writes <- MCWrites
    FlushInterval = 2
    DeltaRetention = 1
    NomtHistory = 1
    MaxHeight = 3
    MaxBatch = 2
    MaxReorg = 1
    NoOpBlocks = TRUE
    BackfillsFresh = FALSE
    MaxStops = 1
    CrashPoint <- AnyCrashPoint
INVARIANTS TypeOK AddressesCover LeavesIndexed RefusedOnlyTorn StemCountBounded ResumeNeverAhead
PROPERTY AckNeverOutrunsFlush
