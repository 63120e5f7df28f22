SPECIFICATION Spec
CONSTANTS
    MaxTurns = 2
    MaxChunksPerTurn = 3
    ChunkSizes = {1, 2}
    MaxBufferBytes = 4
    MaxAudioChunks = 3
    Limited = {}
CHECK_DEADLOCK FALSE
INVARIANT
    TranscriptIsProcessed
