--------------------------- MODULE HuffmanTables ---------------------------
(***************************************************************************)
(* The Huffman tables of the decoder: code lengths are looked up in a      *)
(* table of thresholds over the next 16 bits, and have to be those of the  *)
(* code the JPEG standard derives from the number of codes per length      *)
(* (ikvm/tables.go, loadHuffmanTable in ikvm/decoder.go).                  *)
(***************************************************************************)
EXTENDS Integers, Sequences, SequencesExt

\* nrcodes[i] codes have i bits.
dcLuminanceNRCodes == <<0, 1, 5, 1, 1, 1, 1, 1, 1, 0, 0, 0, 0, 0, 0, 0>>
dcChrominanceNRCodes == <<0, 3, 1, 1, 1, 1, 1, 1, 1, 1, 1, 0, 0, 0, 0, 0>>
acLuminanceNRCodes == <<0, 2, 1, 3, 3, 2, 4, 3, 5, 5, 4, 4, 0, 0, 1, 125>>
acChrominanceNRCodes == <<0, 2, 1, 2, 4, 4, 3, 4, 7, 5, 4, 4, 0, 1, 2, 119>>

\* Thresholds: a lookup below bound, and not below an earlier one, has len bits.
T(bound, len) == [bound |-> bound, len |-> len]
dcLuminanceHuffmanCode ==
    <<T(0, 0), T(16384, 2), T(24576, 3), T(32768, 3), T(40960, 3), T(49152, 3), T(57344, 3),
      T(61440, 4), T(63488, 5), T(64512, 6), T(65024, 7), T(65280, 8), T(65535, 9)>>
dcChrominanceHuffmanCode ==
    <<T(0, 0), T(16384, 2), T(32768, 2), T(49152, 2), T(57344, 3), T(61440, 4), T(63488, 5),
      T(64512, 6), T(65024, 7), T(65280, 8), T(65408, 9), T(65472, 10), T(65535, 11)>>
acLuminanceHuffmanCode ==
    <<T(0, 0), T(16384, 2), T(32768, 2), T(40960, 3), T(45056, 4), T(49152, 4), T(53248, 4),
      T(55296, 5), T(57344, 5), T(59392, 5), T(60416, 6), T(61440, 6), T(61952, 7), T(62464, 7),
      T(62976, 7), T(63488, 7), T(63744, 8), T(64000, 8), T(64256, 8), T(64384, 9), T(64512, 9),
      T(64640, 9), T(64768, 9), T(64896, 9), T(64960, 10), T(65024, 10), T(65088, 10),
      T(65152, 10), T(65216, 10), T(65248, 11), T(65280, 11), T(65312, 11), T(65344, 11),
      T(65360, 12), T(65376, 12), T(65392, 12), T(65408, 12), T(65410, 15), T(65535, 16)>>
acChrominanceHuffmanCode ==
    <<T(0, 0), T(16384, 2), T(32768, 2), T(40960, 3), T(45056, 4), T(49152, 4), T(51200, 5),
      T(53248, 5), T(55296, 5), T(57344, 5), T(58368, 6), T(59392, 6), T(60416, 6), T(61440, 6),
      T(61952, 7), T(62464, 7), T(62976, 7), T(63232, 8), T(63488, 8), T(63744, 8), T(64000, 8),
      T(64128, 9), T(64256, 9), T(64384, 9), T(64512, 9), T(64640, 9), T(64768, 9), T(64896, 9),
      T(64960, 10), T(65024, 10), T(65088, 10), T(65152, 10), T(65216, 10), T(65248, 11),
      T(65280, 11), T(65312, 11), T(65344, 11), T(65360, 12), T(65376, 12), T(65392, 12),
      T(65408, 12), T(65412, 14), T(65414, 15), T(65416, 15), T(65535, 16)>>

HuffmanTables ==
    {<<dcLuminanceNRCodes, dcLuminanceHuffmanCode>>,
     <<dcChrominanceNRCodes, dcChrominanceHuffmanCode>>,
     <<acLuminanceNRCodes, acLuminanceHuffmanCode>>,
     <<acChrominanceNRCodes, acChrominanceHuffmanCode>>}

\* Faulty variant: a lookup equal to a threshold still counts as below it.
FastLengthUpTo(thresholds, i) ==
    IF i = 0 THEN 2
    ELSE thresholds[SelectInSeq(Tail(thresholds), LAMBDA t : i <= t.bound) + 1].len

\* ht.len[i]: the loop moves on by one threshold whenever i reaches it.
FastLength(thresholds, i) ==
    IF i = 0 THEN 2
    ELSE thresholds[SelectInSeq(Tail(thresholds), LAMBDA t : i < t.bound) + 1].len

\* minorCode[i] and majorCode[i]: the codes of i bits are minorCode..majorCode.
minorCode(nrcodes) ==
    LET first[i \in 1..16] == IF i = 1 THEN 0 ELSE 2 * (first[i - 1] + nrcodes[i - 1])
    IN first
Codes(nrcodes, len) == minorCode(nrcodes)[len] .. (minorCode(nrcodes)[len] + nrcodes[len] - 1)

\* The number of 16-bit words that begin with a code of len bits.
WordsPerCode == <<32768, 16384, 8192, 4096, 2048, 1024, 512, 256, 128, 64, 32, 16, 8, 4, 2, 1>>

\* Every code, followed by whatever bits, is given its length: the lookup of the first
\* and of the last word that begins with it.  (So are the lookups between them.)
CodeLengthsAgree ==
    \A t \in HuffmanTables : \A len \in 1..16 : \A c \in Codes(t[1], len) :
        LET low == c * WordsPerCode[len]
            high == low + WordsPerCode[len] - 1
        IN FastLength(t[2], low) = len /\ FastLength(t[2], high) = len
=============================================================================
