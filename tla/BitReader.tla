----------------------------- MODULE BitReader -----------------------------
(***************************************************************************)
(* The decoder's bit reader (ikvm/bitstream.go): two registers over an     *)
(* array of words, for words of any width, and what it is meant to show.   *)
(* A word is the sequence of its bits, the most significant one first.     *)
(***************************************************************************)
EXTENDS Integers, Sequences

CONSTANT WordBits       \* 32

ASSUME WordBitsAssumption == WordBits \in Nat \ {0}

BitNumbers == 0..(WordBits - 1)
Words == [BitNumbers -> {0, 1}]
Zero == [i \in BitNumbers |-> 0]

ShiftLeft(x, n) == [i \in BitNumbers |-> IF i + n < WordBits THEN x[i + n] ELSE 0]
ShiftRight(x, n) == [i \in BitNumbers |-> IF i >= n THEN x[i - n] ELSE 0]
BitOr(x, y) == [i \in BitNumbers |-> IF x[i] = 1 THEN 1 ELSE y[i]]

\* The reader's registers at the start of a frame: two words are loaded.
FirstRead(buf) == [reg0 |-> buf[1], reg1 |-> buf[2], newbits |-> WordBits, index |-> 2]

\* Where the next word is read: the last word is read again when there is no more.
ReadIndex(r, buf) == IF r.index >= Len(buf) THEN Len(buf) - 1 ELSE r.index

\* Faulty variant: the new word is not shifted past the bits of the old one.
updateReadBufUnshifted(r, buf, n) ==
    LET next == buf[ReadIndex(r, buf) + 1]
        joined == BitOr(r.reg1, ShiftRight(next, r.newbits))
    IN IF r.newbits - n <= 0
         THEN [reg0 |-> BitOr(ShiftLeft(r.reg0, n), ShiftRight(joined, WordBits - n)),
               reg1 |-> ShiftLeft(next, n),
               newbits |-> WordBits + r.newbits - n,
               index |-> ReadIndex(r, buf) + 1]
         ELSE [reg0 |-> BitOr(ShiftLeft(r.reg0, n), ShiftRight(r.reg1, WordBits - n)),
               reg1 |-> ShiftLeft(r.reg1, n),
               newbits |-> r.newbits - n,
               index |-> r.index]

\* Faulty variant: the index stays on the last word.
updateReadBufStuck(r, buf, n) ==
    LET next == buf[ReadIndex(r, buf) + 1]
        joined == BitOr(r.reg1, ShiftRight(next, r.newbits))
    IN IF r.newbits - n <= 0
         THEN [reg0 |-> BitOr(ShiftLeft(r.reg0, n), ShiftRight(joined, WordBits - n)),
               reg1 |-> ShiftLeft(next, n - r.newbits),
               newbits |-> WordBits + r.newbits - n,
               index |-> IF ReadIndex(r, buf) + 1 = Len(buf) THEN Len(buf) - 1
                                                             ELSE ReadIndex(r, buf) + 1]
         ELSE [reg0 |-> BitOr(ShiftLeft(r.reg0, n), ShiftRight(r.reg1, WordBits - n)),
               reg1 |-> ShiftLeft(r.reg1, n),
               newbits |-> r.newbits - n,
               index |-> r.index]

\* updateReadBuf and skipKbits: consume n bits.
updateReadBuf(r, buf, n) ==
    LET next == buf[ReadIndex(r, buf) + 1]
        joined == BitOr(r.reg1, ShiftRight(next, r.newbits))
    IN IF r.newbits - n <= 0
         THEN [reg0 |-> BitOr(ShiftLeft(r.reg0, n), ShiftRight(joined, WordBits - n)),
               reg1 |-> ShiftLeft(next, n - r.newbits),
               newbits |-> WordBits + r.newbits - n,
               index |-> ReadIndex(r, buf) + 1]
         ELSE [reg0 |-> BitOr(ShiftLeft(r.reg0, n), ShiftRight(r.reg1, WordBits - n)),
               reg1 |-> ShiftLeft(r.reg1, n),
               newbits |-> r.newbits - n,
               index |-> r.index]

\* What reg0 is to show after p bits: the next WordBits bits of the words, the last
\* of which repeats for ever.
WordAt(buf, j) == IF j < Len(buf) THEN buf[j + 1] ELSE buf[Len(buf)]
StreamBit(buf, k) == WordAt(buf, k \div WordBits)[k % WordBits]
Window(buf, p) == [i \in BitNumbers |-> StreamBit(buf, p + i)]
=============================================================================
