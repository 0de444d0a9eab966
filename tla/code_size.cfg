SPECIFICATION PipelineSpec
CONSTANTS
    a1 = a1  a2 = a2  v1 = v1  contract = contract  delegate = delegate
    Zero = Zero  NoNode = NoNode  NoWrite = NoWrite  NoCode = NoCode  NoInfo = NoInfo
    Stem <- MCStem
    SubIndex <- MCSubIndex
    Value <- MCValue
    Account <- MCAccount
    Slot <- MCSlot
    SlotValue <- MCSlotValue
    Balance <- MCBalance
    MaxU128 = 1
    Code <- MCCode
    Designator <- MCDesignator
    ChunkCount <- MCChunkCount
    MaxPast = 1
INVARIANT BasicDataExact
