SPECIFICATION Spec
CONSTANTS
    MaxTurns = 2
    MaxChunksPerTurn = 3
    ChunkSizes = {1, 2}
    MaxBufferBytes = 4
    MaxAudioChunks = 3
    Limited = {"chunk", "end"}
CHECK_DEADLOCK FALSE
INVARIANTS
    TypeOK
    BufferInOrder
    NeverSilentlyWrong
    MixedOnlyUnended
