--------------------------- MODULE MCVideoDecoder ---------------------------
(***************************************************************************)
(* Words of three bits, blocks of two by two pixels, a screen that is a    *)
(* multiple of the block and one that is not; positions right of and below *)
(* the screen occur, and so does a wider and taller source.  In the first  *)
(* buffer every window of three bits is different; headers announce less   *)
(* than it has, as much, and more.                                         *)
(***************************************************************************)
EXTENDS VideoDecoder

MCFrameSizes == {<<3, 3>>, <<2, 2>>}
MCSourceSizes == {<<3, 5>>}
\* The bits of a number.
MCWord(n) == [i \in BitNumbers |-> (n \div 2^(WordBits - 1 - i)) % 2]
MCBuffers == {<<MCWord(0), MCWord(7), MCWord(2)>>, <<MCWord(7), MCWord(7)>>}
MCSkipTo == {<<0, 0>>, <<2, 0>>, <<1, 1>>}
MCNoResolution == <<0, 0>>
=============================================================================
