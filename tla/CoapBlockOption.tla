-------------------------- MODULE CoapBlockOption --------------------------
(***************************************************************************)
(* The value of a Block1 or Block2 option: the number of the block, whether *)
(* more blocks follow and the size of the blocks, packed into one to three *)
(* bytes.  A value is the sequence of its bytes.                           *)
(***************************************************************************)
EXTENDS Naturals, Sequences

BlockNumbers == {n \in Nat : n < 1024 * 1024}     \* 20 bits
BlockSizes == {16, 32, 64, 128, 256, 512, 1024}
Byte == 0..255

\* Fault: only the range is checked.
FaultyIsBlockSize(s) == s = 0 \/ s \in 16..1024

\* A size the user may choose: 0, or a power of two from 16 to 1024.
IsBlockSize(s) == s = 0 \/ s \in BlockSizes

CheckBlockNumber(n) == n \in BlockNumbers

\* The three bits of the size, as the shifts compute them.
SizeBits(s) ==
    IF s \div 128 = 0 THEN s \div 32
    ELSE IF s \div 1024 = 0 THEN 3 + s \div 256 ELSE 6

\* As few bytes as possible, the most significant first.
Bytes(data) ==
    IF data >= 256 * 256 THEN <<data \div (256 * 256), (data \div 256) % 256, data % 256>>
    ELSE IF data > 255 THEN <<data \div 256, data % 256>>
    ELSE <<data>>

BlockOption(n, s, more) == Bytes(n * 16 + SizeBits(s) + (IF more THEN 8 ELSE 0))

LastByte(v) == v[Len(v)]

\* Fault: the number is not shifted before its last four bits are added.
FaultyBlockNumber(v) ==
    (IF Len(v) = 3 THEN v[1] * 256 + v[2] ELSE IF Len(v) = 2 THEN v[1] ELSE 0)
    + LastByte(v) \div 16

\* What the bytes before the last one add to the number, each shift by 8 bits, then by 4.
BlockNumber(v) ==
    (IF Len(v) = 3 THEN v[1] * 4096 + v[2] * 16 ELSE IF Len(v) = 2 THEN v[1] * 16 ELSE 0)
    + LastByte(v) \div 16

HasNextBlock(v) == (LastByte(v) \div 8) % 2 = 1

BlockSize(v) == <<16, 32, 64, 128, 256, 512, 1024, 2048>>[(LastByte(v) % 8) + 1]
=============================================================================
