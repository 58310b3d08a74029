SPECIFICATION DecoderSpec
CONSTANTS
    WordBits = 3
    BlockSize = 2
    FrameSizes <- MCFrameSizes
    SourceSizes <- MCSourceSizes
    ShortHeight = 4
    ShortRow = 0
    Announced = {2, 3, 4}
    Buffers <- MCBuffers
    MaxValue = 2
    Neutral = 1
    Samples = {1, 2}
    NoSkipBits = 1
    SkipBits = 2
    DataBits = {1, 2}
    SkipTo <- MCSkipTo
    MaxFrames = 2
    MaxBits = 4
    NoResolution <- MCNoResolution
INVARIANTS DecoderTypeOK ReaderIsAligned LoopFollowsBits HuffmanLengthsAgree
PROPERTIES AbortUndoesFrame BlockStaysInTile
CHECK_DEADLOCK FALSE
