---------------------------- MODULE VideoDecoder ----------------------------
(***************************************************************************)
(* The ASPEED frame decoder (ikvm/decoder.go, ikvm/decompress.go): a frame *)
(* is a run of blocks, each of which consumes bits, draws a tile of the    *)
(* framebuffer and moves on; a block of a kind the decoder does not know   *)
(* undoes the frame.                                                       *)
(*                                                                         *)
(* What the bits say is external: kind, position and colour of a block are *)
(* chosen freely, and a tile has one colour.  How many bits have been read *)
(* is not: the reader is BitReader's, over real words.  The IDCT, the      *)
(* quantisation and the colour conversion are functions of a tile's own    *)
(* samples and are left out: a pixel holds the YUV value it is drawn from. *)
(* How much data a frame has, how much its header announces, and its       *)
(* source and destination resolution are chosen independently.             *)
(***************************************************************************)
EXTENDS BitReader, SequencesExt, HuffmanTables

CONSTANTS
    BlockSize,      \* 8
    FrameSizes,     \* <<width, height>> a frame is drawn with
    SourceSizes,    \* resolutions a frame may have come from, but for its own
    ShortHeight, ShortRow,  \* 608 and 37: the row of 4:2:0 blocks cut in half
    Buffers,        \* compressed data, as words
    Announced,      \* numbers of words a header may announce
    MaxValue,       \* 255
    Samples,        \* values a block may carry
    Neutral,        \* 128
    NoSkipBits, SkipBits,   \* the header of a block: 4 bits, with a position 20
    DataBits,       \* bits of data a block may have
    SkipTo,         \* positions a header may carry
    MaxFrames,      \* bound: frames decoded
    MaxBits,        \* bound: bits after which no block begins
    NoResolution

ASSUME ValuesAssumption ==
    MaxValue \in Nat /\ Neutral \in 0..MaxValue /\ Samples \subseteq 0..MaxValue
ASSUME BitsAssumption == {NoSkipBits, SkipBits} \cup DataBits \subseteq 1..(WordBits - 1)
ASSUME BuffersAssumption == Buffers \subseteq Seq(Words) /\ Announced \subseteq Nat
ASSUME ScreenAssumption ==
    /\ BlockSize \in Nat \ {0}
    /\ FrameSizes \cup SourceSizes \subseteq (Nat \ {0}) \X (Nat \ {0})
    /\ NoResolution \notin FrameSizes
    /\ SkipTo \subseteq Nat \X Nat
ASSUME FramesAssumption == MaxFrames \in Nat

Values == 0..MaxValue

VARIABLES
    at,         \* "blocks" while Decode runs
    res, real,  \* d.Width, d.Height; d.realWidth, d.realHeight
    mode420,
    fb,         \* d.Framebuffer, by pixel
    prev,       \* d.previousYUV, by pixel
    txb, tyb,   \* the position of the next block
    buf, reader, \* the bit reader
    words,      \* compressWords
    pos,        \* ghost: bits consumed
    saved,      \* savedBlocks
    result,     \* what the last Decode returned
    before,     \* ghost: the framebuffer as the frame found it
    frames

decoderVars ==
    <<at, res, real, mode420, fb, prev, txb, tyb, buf, reader, words, pos, saved, result,
      before, frames>>
headerVars == <<res, real, mode420, buf, words, before, frames>>

Pixels == 0..(res[1] * res[2] - 1)
Blank(rs) == [i \in 0..(rs[1] * rs[2] - 1) |-> 0]

\* Padded to blocks of b pixels.
Blocks(pixels, b) == (pixels + b - 1) \div b

DecoderTypeOK ==
    /\ at \in {"idle", "blocks"}
    /\ res \in FrameSizes \cup {NoResolution}
    /\ mode420 \in BOOLEAN
    /\ res # NoResolution => fb \in [Pixels -> Values] /\ prev \in [Pixels -> Values]
    /\ at = "blocks" =>
        /\ res # NoResolution /\ buf \in Seq(Words) /\ words \in Nat
        /\ real \in FrameSizes \cup SourceSizes
        /\ reader.index \in 2..Len(buf) /\ reader.newbits \in 1..WordBits
        /\ tyb \in 0..(Blocks(res[2], BlockSize) - 1) \cup {p[2] : p \in SkipTo}
        /\ txb \in 0..(Blocks(res[1], BlockSize) - 1)
    /\ result \in {"none", "ok", "short", "advance", "unknown", "panic"}
    /\ frames \in 0..MaxFrames

DecoderInit ==
    /\ at = "idle" /\ res = NoResolution /\ real = NoResolution /\ mode420 = FALSE
    /\ fb = <<>> /\ prev = <<>>
    /\ txb = 0 /\ tyb = 0
    /\ buf \in Buffers /\ reader = FirstRead(<<Zero, Zero>>) /\ words = 0 /\ pos = 0
    /\ saved = <<>> /\ result = "none" /\ before = <<>>
    /\ frames = 0

-----------------------------------------------------------------------------
\* Decode, up to the loop.  A resolution change reallocates before the length of the
\* data is looked at.
Decode(rs, src, m, b, n) ==
    /\ at = "idle" /\ frames < MaxFrames
    /\ frames' = frames + 1
    /\ res' = rs /\ real' = src /\ mode420' = m
    /\ fb' = IF rs = res THEN fb ELSE Blank(rs)
    /\ prev' = IF rs = res THEN prev ELSE Blank(rs)
    /\ IF Len(b) < 3
         THEN result' = "short" /\ UNCHANGED <<at, buf, reader, words, pos, txb, tyb, saved, before>>
         ELSE /\ before' = fb'
              /\ at' = "blocks" /\ result' = "none"
              /\ buf' = b /\ reader' = FirstRead(b) /\ words' = n /\ pos' = 0
              /\ txb' = 0 /\ tyb' = 0 /\ saved' = <<>>

\* The announced length is not compared with the data.
InLoop == at = "blocks" /\ reader.index < words

\* Decode returns.  What the next Decode sets anew is forgotten.
Return(how) ==
    /\ at' = "idle" /\ result' = how
    /\ txb' = 0 /\ tyb' = 0
    /\ reader' = FirstRead(<<Zero, Zero>>) /\ words' = 0 /\ pos' = 0
    /\ saved' = <<>> /\ before' = <<>>
    /\ UNCHANGED <<res, real, mode420, buf, frames>>

\* Pixels that saveBlock reads and restoreBlocks writes: rows and columns are not
\* compared with the width.
Cells(x, y) ==
    {(y * BlockSize + row) * res[1] + x * BlockSize + col :
        row \in 0..(BlockSize - 1), col \in 0..(BlockSize - 1)} \cap Pixels

\* Faulty variant: the block is saved when it has been drawn.
saveDrawnBlock(x, y) == [x |-> x, y |-> y, pixels |-> [i \in Cells(x, y) |-> fb'[i]]]

saveBlock(x, y) == [x |-> x, y |-> y, pixels |-> [i \in Cells(x, y) |-> fb[i]]]

\* In the order of saving, so the last one counts.
restoreBlocks ==
    [i \in Pixels |->
        LET k == SelectLastInSeq(saved, LAMBDA s : i \in DOMAIN s.pixels)
        IN IF k = 0 THEN fb[i] ELSE saved[k].pixels[i]]

\* Faulty variant: the row does not start again at the top.
moveBlockIndexDown(x, y) ==
    LET b == IF mode420 THEN 2 * BlockSize ELSE BlockSize
        ends == x + 1 >= Blocks(res[1], b)
    IN /\ txb' = IF ends THEN 0 ELSE x + 1
       /\ tyb' = IF ~ends THEN y ELSE y + 1

moveBlockIndex(x, y) ==
    LET b == IF mode420 THEN 2 * BlockSize ELSE BlockSize
        ends == x + 1 >= Blocks(res[1], b)
    IN /\ txb' = IF ends THEN 0 ELSE x + 1
       /\ tyb' = IF ~ends THEN y ELSE IF y + 1 >= Blocks(res[2], b) THEN 0 ELSE y + 1

Clamp(v) == Max({0, Min({MaxValue, v})})

\* Columns and rows of a block of side b.
Square(x, y, b) == (x * b .. x * b + b - 1) \X (y * b .. y * b + b - 1)

\* maxCol and maxRow: what a block at the right edge has left of its columns, and the
\* row of 4:2:0 blocks that is cut in half at one padded height (600 lines are padded
\* to 608, but so are 608).
maxCol(x) ==
    LET left == res[1] - x * BlockSize
    IN IF left \in 1..(BlockSize - 1) THEN left ELSE BlockSize
maxRow(y) ==
    IF Blocks(real[2], 2 * BlockSize) * 2 * BlockSize = ShortHeight /\ y = ShortRow
      THEN BlockSize ELSE 2 * BlockSize

\* Faulty variant: the column is only clipped where the block begins on the screen.
DrawnBeyond(x, y) ==
    IF mode420
      THEN {p \in Square(x, y, 2 * BlockSize) :
               p[2] < 2 * BlockSize * y + maxRow(y) /\ p[1] < res[1] /\ p[2] < res[2]}
      ELSE {p \in Square(x, y, BlockSize) :
               p[1] < BlockSize * x + maxCol(x) /\ p[2] < res[2]}

\* <<px, py>> that the loops over a block come by.
Drawn(x, y) ==
    IF mode420
      THEN {p \in Square(x, y, 2 * BlockSize) :
               p[2] < 2 * BlockSize * y + maxRow(y) /\ p[1] < res[1] /\ p[2] < res[2]}
      ELSE {p \in Square(x, y, BlockSize) :
               p[1] < BlockSize * x + maxCol(x) /\ p[1] < res[1] /\ p[2] < res[2]}

\* The framebuffer is addressed by the width it has, the reference by the source's.
Indices(points, width) == {p[2] * width + p[1] : p \in points} \cap Pixels

\* 4:2:0 blocks leave no reference behind.
convertYUVtoRGB(x, y, v) ==
    LET drawn == Indices(Drawn(x, y), res[1])
        kept == IF mode420 THEN {} ELSE Indices(Drawn(x, y), real[1])
    IN /\ fb' = [i \in Pixels |-> IF i \in drawn THEN v ELSE fb[i]]
       /\ prev' = [i \in Pixels |-> IF i \in kept THEN v ELSE prev[i]]

\* Pixel i is in column i % width of line i \div width; beyond the reference it is black.
convertYUVtoRGBPass2(x, y, v) ==
    LET drawn == IF mode420 THEN {} ELSE Indices(Drawn(x, y), res[1])
        ref(i) == (i \div res[1]) * real[1] + (i % res[1])
        sum(i) == IF ref(i) \in Pixels THEN prev[ref(i)] + v - Neutral ELSE 0
    IN /\ fb' = [i \in Pixels |-> IF i \in drawn THEN Clamp(sum(i)) ELSE fb[i]]
       /\ UNCHANGED prev

\* A neutral block is not drawn; its samples become the reference all the same.
updatePreviousYUV(x, y) ==
    LET points == {p \in Square(x, y, BlockSize) : p[1] < real[1] /\ p[2] < real[2]}
        kept == IF mode420 THEN {} ELSE Indices(points, real[1])
    IN /\ prev' = [i \in Pixels |-> IF i \in kept THEN Neutral ELSE prev[i]]
       /\ UNCHANGED fb

decompressJPEG(x, y, v) ==
    IF v = Neutral THEN updatePreviousYUV(x, y) ELSE convertYUVtoRGB(x, y, v)
decompressJPEGPass2(x, y, v) ==
    IF v = Neutral THEN updatePreviousYUV(x, y) ELSE convertYUVtoRGBPass2(x, y, v)

\* Only a third of the samples of a 4:2:0 block is set, so whether it is neutral
\* depends on what an earlier block left in the others.
decompressVQ(x, y, v) ==
    \/ v = Neutral /\ updatePreviousYUV(x, y)
    \/ (v # Neutral \/ mode420) /\ convertYUVtoRGB(x, y, v)

\* Where the next block goes, and the length of its header: with or without a position.
Headers ==
    {[x |-> txb, y |-> tyb, bits |-> NoSkipBits]}
        \cup {[x |-> p[1], y |-> p[2], bits |-> SkipBits] : p \in SkipTo}

\* What every block does besides drawing: save, read header and data, move on.
Block(h, data) ==
    /\ pos < MaxBits
    /\ saved' = Append(saved, saveBlock(h.x, h.y))
    /\ reader' = updateReadBuf(updateReadBuf(reader, buf, h.bits), buf, data)
    /\ pos' = pos + h.bits + data
    /\ moveBlockIndex(h.x, h.y)
    /\ UNCHANGED <<at, result, headerVars>>

JPEGBlock ==
    /\ InLoop
    /\ \E h \in Headers, v \in Samples, n \in DataBits :
          decompressJPEG(h.x, h.y, v) /\ Block(h, n)
Pass2Block ==
    /\ InLoop
    /\ \E h \in Headers, v \in Samples, n \in DataBits :
          decompressJPEGPass2(h.x, h.y, v) /\ Block(h, n)
VQBlock ==
    /\ InLoop
    /\ \E h \in Headers, v \in Samples, n \in DataBits :
          decompressVQ(h.x, h.y, v) /\ Block(h, n)

\* A block type with advance quantisation tables.
AdvanceBlock ==
    /\ InLoop
    /\ Return("advance")
    /\ fb' = restoreBlocks
    /\ UNCHANGED prev

FrameEnd ==
    /\ InLoop
    /\ Return("ok")
    /\ UNCHANGED <<fb, prev>>

\* A block type that is not known: what is drawn stays.
UnknownBlock ==
    /\ InLoop
    /\ Return("unknown")
    /\ UNCHANGED <<fb, prev>>

\* An index out of range inside a block; recovered, what is drawn stays.
PanicBlock ==
    /\ InLoop
    /\ Return("panic")
    /\ UNCHANGED <<fb, prev>>

\* The loop is left by its condition.
OutOfWords ==
    /\ at = "blocks" /\ reader.index >= words
    /\ Return("ok")
    /\ UNCHANGED <<fb, prev>>

-----------------------------------------------------------------------------
Step == \/ JPEGBlock \/ Pass2Block \/ VQBlock
        \/ AdvanceBlock \/ FrameEnd \/ UnknownBlock \/ PanicBlock \/ OutOfWords

DecoderNext ==
    \/ Step
    \/ \E rs \in FrameSizes, m \in BOOLEAN, b \in Buffers, n \in Announced :
          \E src \in SourceSizes \cup {rs} : Decode(rs, src, m, b, n)

DecoderSpec == DecoderInit /\ [][DecoderNext]_decoderVars

-----------------------------------------------------------------------------
\* After any mixture of block headers and data, the register that block types and
\* codes are taken from shows exactly the next bits of the stream, at and past the
\* end of the data included.
ReaderIsAligned == at = "blocks" => reader.reg0 = Window(buf, pos)

\* A frame that meets an advance block leaves the picture as it was, provided the
\* blocks it had drawn do not share saved pixels (no block drawn twice, and a width
\* that is a multiple of the block) and are 4:4:4 blocks.
AbortUndoesFrame ==
    [][at = "blocks" /\ result' = "advance" /\ ~mode420
         /\ (\A j, k \in DOMAIN saved :
                j # k => DOMAIN saved[j].pixels \cap DOMAIN saved[k].pixels = {})
         => fb' = before]_decoderVars

\* Pixels of a tile of the picture, by the column and the line they are in.
Tile(x, y, b) ==
    {i \in Pixels : (i % res[1]) \div b = x /\ (i \div res[1]) \div b = y}

\* A block changes no pixel outside its tile, for positions outside the screen and at
\* its ragged right edge too: pixels are addressed linearly, so a column too far
\* would be drawn on the next line.
BlockStaysInTile ==
    [][Len(saved') > Len(saved) =>
         LET s == Last(saved')
         IN \A i \in Pixels :
               fb'[i] # fb[i] =>
                   i \in Tile(s.x, s.y, IF mode420 THEN 2 * BlockSize ELSE BlockSize)]_decoderVars

\* The loop of Decode goes on as long as fewer bits have been consumed than are in the
\* announced words, less the two that are loaded in advance, and no longer: that the
\* index is set back to the last word when it runs past it must not keep it below
\* the number of words for ever.  It does where the header announces more words than
\* there are; then the condition never ends the loop.
LoopFollowsBits ==
    at = "blocks" => (InLoop <=> pos < WordBits * (words - 2) \/ words > Len(buf))

\* While blocks are decoded, every Huffman code of the four standard tables is given
\* its own length by the fast lookup, which is typed in as a table of thresholds and
\* not derived from the code: one wrong length would shift all that follows.
HuffmanLengthsAgree == at = "blocks" => CodeLengthsAgree
=============================================================================
