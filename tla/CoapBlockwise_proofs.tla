------------------------ MODULE CoapBlockwise_proofs ------------------------
EXTENDS CoapBlockwise, FiniteSetTheorems, SequenceTheorems, WellFoundedInduction, TLAPS

(***************************************************************************)
(* Block options.  What is read from a Block option is what was written    *)
(* into it.  The proof follows the value from the number that packs the    *)
(* three fields (BytesOfData), through its one to three bytes              *)
(* (ValueOfBytes), back.                                                   *)
(***************************************************************************)

\* The three bits of a size stand for that size.
LEMMA SizeBitsFit ==
    ASSUME NEW s \in BlockSizes
    PROVE  /\ SizeBits(s) \in 0..6
           /\ <<16, 32, 64, 128, 256, 512, 1024, 2048>>[SizeBits(s) + 1] = s
BY SMT DEF SizeBits, BlockSizes

\* A number of 24 bits, cut into bytes, keeps the fields that are packed in it.
LEMMA BytesOfData ==
    ASSUME NEW d \in Nat, d < 4096 * 4096
    PROVE  /\ d % 256 \in Byte /\ (d \div 256) % 256 \in Byte /\ d \div (256 * 256) \in Byte
           /\ (d \div (256 * 256)) * 4096 + ((d \div 256) % 256) * 16 + (d % 256) \div 16 = d \div 16
           /\ (d % 256) % 8 = d % 8
           /\ ((d % 256) \div 8) % 2 = (d \div 8) % 2
<1>1. d % 256 \in Byte /\ (d \div 256) % 256 \in Byte  BY SMT DEF Byte
<1>2. d \div (256 * 256) \in Byte  BY SMT DEF Byte
<1>3. (d \div (256 * 256)) * 4096 + ((d \div 256) % 256) * 16 + (d % 256) \div 16 = d \div 16
  BY SMT
<1>4. (d % 256) % 8 = d % 8  BY SMT
<1>5. ((d % 256) \div 8) % 2 = (d \div 8) % 2  BY SMT
<1> QED  BY <1>1, <1>2, <1>3, <1>4, <1>5

\* The bytes of a value, the most significant first: as many as it needs.
LEMMA ValueOfBytes ==
    ASSUME NEW d \in Nat, d < 4096 * 4096
    PROVE  /\ Bytes(d) \in Seq(Byte) /\ Len(Bytes(d)) \in 1..3
           /\ LastByte(Bytes(d)) = d % 256
           /\ BlockNumber(Bytes(d)) = d \div 16
<1> DEFINE v == Bytes(d)
<1>0. v = IF d >= 256 * 256 THEN <<d \div (256 * 256), (d \div 256) % 256, d % 256>>
          ELSE IF d > 255 THEN <<d \div 256, d % 256>>
          ELSE <<d>>
  BY DEF Bytes
<1> SUFFICES v \in Seq(Byte) /\ Len(v) \in 1..3 /\ LastByte(v) = d % 256
             /\ BlockNumber(v) = d \div 16
  OBVIOUS
<1> HIDE DEF v
<1>1. /\ d % 256 \in Byte /\ (d \div 256) % 256 \in Byte /\ d \div (256 * 256) \in Byte
      /\ (d \div (256 * 256)) * 4096 + ((d \div 256) % 256) * 16 + (d % 256) \div 16 = d \div 16
  BY BytesOfData
<1>2. CASE d >= 256 * 256
  <2>1. v = <<d \div (256 * 256), (d \div 256) % 256, d % 256>>
    BY <1>0, <1>2
  <2>2. v \in Seq(Byte) /\ Len(v) = 3 /\ LastByte(v) = d % 256
    BY <2>1, <1>1 DEF LastByte
  <2>3. BlockNumber(v) =
          (d \div (256 * 256)) * 4096 + ((d \div 256) % 256) * 16 + (d % 256) \div 16
    BY <2>1, <2>2 DEF BlockNumber
  <2> QED  BY <2>2, <2>3, <1>1
<1>3. CASE d < 256 * 256 /\ d > 255
  <2>1. v = <<d \div 256, d % 256>>
    BY <1>0, <1>3, SMT
  <2>2. (d \div 256) % 256 = d \div 256
    BY <1>3, SMT
  <2>3. v \in Seq(Byte) /\ Len(v) = 2 /\ LastByte(v) = d % 256
    BY <2>1, <2>2, <1>1 DEF LastByte
  <2>4. BlockNumber(v) = (d \div 256) * 16 + (d % 256) \div 16
    BY <2>1, <2>3 DEF BlockNumber
  <2>5. (d \div 256) * 16 + (d % 256) \div 16 = d \div 16
    BY SMT
  <2> QED  BY <2>3, <2>4, <2>5
<1>4. CASE d <= 255
  <2>1. v = <<d>>
    BY <1>0, <1>4, SMT
  <2>2. d % 256 = d /\ d \in Byte
    BY <1>4, SMT DEF Byte
  <2>3. v \in Seq(Byte) /\ Len(v) = 1 /\ LastByte(v) = d
    BY <2>1, <2>2 DEF LastByte
  <2>4. BlockNumber(v) = d \div 16
    BY <2>1, <2>3, SMT DEF BlockNumber
  <2> QED  BY <2>2, <2>3, <2>4
<1> QED  BY <1>2, <1>3, <1>4, SMT

\* A block option says what it was built from: whoever decodes the bytes of blockOption()
\* the way setFromDescriptiveBlockOption() does finds the same number, size and flag, and
\* they are one to three bytes.
THEOREM BlockOptionDecodes ==
    ASSUME NEW n \in BlockNumbers, NEW s \in BlockSizes, NEW more \in BOOLEAN
    PROVE  /\ BlockOption(n, s, more) \in Seq(Byte)
           /\ Len(BlockOption(n, s, more)) \in 1..3
           /\ BlockNumber(BlockOption(n, s, more)) = n
           /\ HasNextBlock(BlockOption(n, s, more)) <=> more
           /\ BlockSize(BlockOption(n, s, more)) = s
<1> DEFINE v == BlockOption(n, s, more)
           sizes == <<16, 32, 64, 128, 256, 512, 1024, 2048>>
<1>1. PICK bits \in 0..6 : bits = SizeBits(s) /\ sizes[bits + 1] = s
  BY SizeBitsFit
<1>2. PICK m \in {0, 8} : m = IF more THEN 8 ELSE 0
  OBVIOUS
<1>3. PICK d \in Nat : d = n * 16 + bits + m
  BY SMT DEF BlockNumbers
<1>4. v = Bytes(d)
  BY <1>1, <1>2, <1>3 DEF BlockOption
<1>5. d < 4096 * 4096 /\ d \div 16 = n /\ d % 8 = bits /\ (((d \div 8) % 2 = 1) <=> (m = 8))
  <2>1. d < 4096 * 4096  BY <1>3, SMT DEF BlockNumbers
  <2>2. d \div 16 = n  BY <1>3, SMT DEF BlockNumbers
  <2>3. d % 8 = bits  BY <1>3, SMT DEF BlockNumbers
  <2>4. ((d \div 8) % 2 = 1) <=> (m = 8)  BY <1>3, SMT DEF BlockNumbers
  <2> QED  BY <2>1, <2>2, <2>3, <2>4
<1> HIDE DEF v, sizes
<1>6. /\ v \in Seq(Byte) /\ Len(v) \in 1..3
      /\ LastByte(v) = d % 256 /\ BlockNumber(v) = n
  <2>1. d < 4096 * 4096
    BY <1>5
  <2>2. /\ v \in Seq(Byte) /\ Len(v) \in 1..3
        /\ LastByte(v) = d % 256 /\ BlockNumber(v) = d \div 16
    BY <1>4, <2>1, ValueOfBytes
  <2> QED  BY <1>5, <2>2
<1>7. (d % 256) % 8 = d % 8 /\ ((d % 256) \div 8) % 2 = (d \div 8) % 2
  BY <1>5, BytesOfData
<1>8. HasNextBlock(v) <=> more
  BY <1>2, <1>5, <1>6, <1>7 DEF HasNextBlock
<1>9. BlockSize(v) = s
  <2>1. LastByte(v) % 8 = bits
    BY <1>5, <1>6, <1>7
  <2> QED  BY <1>1, <2>1 DEF BlockSize, sizes
<1> QED
  BY <1>6, <1>8, <1>9 DEF v

-----------------------------------------------------------------------------
(***************************************************************************)
(* Uploads.  No block of the payload is sent before the server has what    *)
(* precedes it.  The size that numbers a block is the client's, the number *)
(* that comes back is the server's: the argument is that both sides count  *)
(* in the same size as long as the user leaves it alone, and that the      *)
(* server's number was computed from a block option the client wrote.      *)
(***************************************************************************)
\* Block n of the payload, in the size of the exchange, and where it starts.
Start(n) == (n * size) \div 16
IsBlock(q, n) ==
    /\ q.block1 = BlockOption(n, size, (n + 1) * size < upload * 16)
    /\ q.payload = Slice(n, size, upload)
    /\ Start(n) <= received[Server]

GoodRequest(q) ==
    /\ q = [mid |-> q.mid, to |-> q.to, block1 |-> q.block1, block2 |-> q.block2,
            payload |-> q.payload]
    /\ q.mid \in Nat /\ q.to \in Hosts \cup {Group}
    /\ \E a, b \in Nat : q.payload = a..b
    /\ upload > 0 => q.to = Server
    /\ q.block1 # NoOption =>
          /\ upload > 0 /\ stage # "idle" /\ size \in BlockSizes
          /\ \E n \in BlockNumbers : IsBlock(q, n)

\* A frame that asks for the next block comes from a server that has all before it.
GoodFrame(f) ==
    /\ f.from \in Hosts
    /\ upload > 0 => f.from = Server
    /\ NextBlockToSend(f.block1) > 0 =>
          /\ upload > 0 /\ size \in BlockSizes
          /\ \E n \in BlockNumbers :
                NextBlockToSend(f.block1) = n + 1 /\ Start(n + 1) <= received[Server]

UploadInv ==
    /\ upload \in Nat /\ IsBlockSize(size)
    /\ received \in [Hosts -> Nat]
    /\ stage = "idle" => wire = {} /\ frames = {} /\ request.block1 = NoOption
    /\ GoodRequest(request)
    /\ \A q \in wire : GoodRequest(q)
    /\ \A f \in frames : GoodFrame(f)

\* The maximum of an interval and one more number.
LEMMA MaxOfInterval ==
    ASSUME NEW r \in Nat, NEW a \in Nat, NEW b \in Nat
    PROVE  LET S == {r} \cup (a..b)
           IN  Max(S) \in S /\ \A x \in S : Max(S) >= x
<1> DEFINE S == {r} \cup (a..b)
<1>1. \E x \in S : \A y \in S : x >= y
  <2>1. CASE a <= b /\ b >= r
    <3>1. b \in S /\ \A y \in S : b >= y  BY <2>1
    <3> QED  BY <3>1
  <2>2. CASE ~ (a <= b /\ b >= r)
    <3>1. r \in S /\ \A y \in S : r >= y  BY <2>2
    <3> QED  BY <3>1
  <2> QED  BY <2>1, <2>2
<1>2. Max(S) = CHOOSE x \in S : \A y \in S : x >= y
  BY DEF Max
<1> HIDE DEF S
<1>3. Max(S) \in S /\ \A x \in S : Max(S) >= x
  BY <1>1, <1>2
<1> QED  BY <1>3 DEF S

\* Consecutive blocks of one size touch each other.
LEMMA NextStart ==
    ASSUME NEW n \in Nat, NEW s \in BlockSizes
    PROVE  /\ n * s \in Nat
           /\ (n * s) \div 16 \in Nat
           /\ ((n + 1) * s) \div 16 \in Nat
           /\ ((n + 1) * s) \div 16 = (n * s) \div 16 + s \div 16
           /\ s \div 16 \in Nat \ {0}
BY SMT DEF BlockSizes

\* The units of a block are an interval.
LEMMA SliceIsInterval ==
    ASSUME NEW n \in Nat, NEW s \in Nat, NEW total \in Nat
    PROVE  \E a, b \in Nat : Slice(n, s, total) = a..b
<1>1. PICK x \in Nat, y \in Nat : x = n * s /\ y = (n + 1) * s
  OBVIOUS
<1>2. x \div 16 + 1 \in Nat /\ y \div 16 \in Nat
  BY <1>1, SMT
<1>3. Slice(n, s, total) = x \div 16 + 1 .. IF y < total * 16 THEN y \div 16 ELSE total
  BY <1>1 DEF Slice
<1> QED  BY <1>2, <1>3

\* What a server reads in the Block1 option of a request.
LEMMA BlockIsRead ==
    ASSUME NEW q, NEW n \in BlockNumbers, IsBlock(q, n), size \in BlockSizes, upload \in Nat
    PROVE  /\ q.block1 # NoOption
           /\ BlockStart(q) = Start(n)
           /\ NextBlockToSend(q.block1) =
                IF (n + 1) * size < upload * 16 THEN n + 1 ELSE 0
<1> DEFINE more == (n + 1) * size < upload * 16
<1>1. more \in BOOLEAN
  OBVIOUS
<1>2. q.block1 = BlockOption(n, size, more)
  BY DEF IsBlock
<1> HIDE DEF more
<1>3. /\ Len(q.block1) \in 1..3
      /\ BlockNumber(q.block1) = n
      /\ HasNextBlock(q.block1) <=> more
      /\ BlockSize(q.block1) = size
  <2>1. /\ Len(BlockOption(n, size, more)) \in 1..3
        /\ BlockNumber(BlockOption(n, size, more)) = n
        /\ HasNextBlock(BlockOption(n, size, more)) <=> more
        /\ BlockSize(BlockOption(n, size, more)) = size
    BY <1>1, BlockOptionDecodes
  <2> QED  BY <1>2, <2>1, Zenon
<1>4. q.block1 # NoOption
  <2>1. Len(q.block1) # 0
    BY <1>3
  <2>2. Len(NoOption) = 0
    BY DEF NoOption
  <2> QED  BY <2>1, <2>2, Zenon
<1> USE DEF more
<1> QED
  BY <1>3, <1>4 DEF BlockStart, Start, NextBlockToSend, BlockNumbers

\* UploadInv holds initially; the next lemmas say that every action keeps it.
LEMMA UploadInit == Init => UploadInv
<1> SUFFICES ASSUME Init PROVE UploadInv
  OBVIOUS
<1>1. PICK t \in Transfers : mode = t.mode /\ upload = t.upload
  BY DEF Init
<1>2. upload \in Nat /\ (upload > 0 => mode = "plain")
  BY <1>1, TransferAssumption
<1>3. request = [mid |-> 0, to |-> IF mode = "multicast" THEN Group ELSE Server,
                 block1 |-> NoOption, block2 |-> NoOption, payload |-> 1..upload]
  BY DEF Init
<1>4. GoodRequest(request)
  <2>1. NoOption \in Seq(Byte) /\ 1..upload \in SUBSET Nat
    BY <1>2 DEF NoOption
  <2>2. \E a, b \in Nat : request.payload = a..b
    BY <1>2, <1>3
  <2> QED  BY <1>2, <1>3, <2>1, <2>2, HostAssumption DEF GoodRequest
<1>5. size = 0 /\ wire = {} /\ frames = {} /\ received = [h \in Hosts |-> 0]
  BY DEF Init
<1> QED  BY <1>2, <1>3, <1>4, <1>5 DEF UploadInv, IsBlockSize

\* A request or a frame that is good stays so while the size does not change and the
\* server gets no less.
LEMMA StaysGood ==
    ASSUME upload' = upload, size' = size, stage' # "idle" \/ stage' = stage,
           received[Server] \in Nat, received'[Server] \in Nat,
           received[Server] <= received'[Server], upload \in Nat, IsBlockSize(size)
    PROVE  /\ \A q : GoodRequest(q) => GoodRequest(q)'
           /\ \A f : GoodFrame(f) => GoodFrame(f)'
<1>1. ASSUME NEW n \in Nat, size \in BlockSizes, Start(n) <= received[Server]
      PROVE  Start(n)' <= received'[Server]
  <2>1. Start(n) \in Nat /\ Start(n)' = Start(n)
    BY <1>1, NextStart DEF Start
  <2> QED  BY <1>1, <2>1
<1>2. ASSUME NEW q, GoodRequest(q)  PROVE GoodRequest(q)'
  <2>1. ASSUME q.block1 # NoOption
        PROVE  /\ upload' > 0 /\ stage' # "idle" /\ size' \in BlockSizes
               /\ \E n \in BlockNumbers : IsBlock(q, n)'
    <3>1. upload > 0 /\ stage # "idle" /\ size \in BlockSizes
      BY <1>2, <2>1 DEF GoodRequest
    <3>2. PICK n \in BlockNumbers : IsBlock(q, n)
      BY <1>2, <2>1 DEF GoodRequest
    <3>3. IsBlock(q, n)'
      BY <1>1, <3>1, <3>2 DEF IsBlock, BlockNumbers
    <3> QED  BY <3>1, <3>3
  <2> QED  BY <1>2, <2>1 DEF GoodRequest
<1>3. ASSUME NEW f, GoodFrame(f)  PROVE GoodFrame(f)'
  <2>1. ASSUME NextBlockToSend(f.block1) > 0
        PROVE  /\ upload' > 0 /\ size' \in BlockSizes
               /\ \E n \in BlockNumbers :
                    NextBlockToSend(f.block1) = n + 1 /\ Start(n + 1)' <= received'[Server]
    <3>1. upload > 0 /\ size \in BlockSizes
      BY <1>3, <2>1 DEF GoodFrame
    <3>2. PICK n \in BlockNumbers :
            NextBlockToSend(f.block1) = n + 1 /\ Start(n + 1) <= received[Server]
      BY <1>3, <2>1 DEF GoodFrame
    <3>3. Start(n + 1)' <= received'[Server]
      BY <1>1, <3>1, <3>2 DEF BlockNumbers
    <3> QED  BY <3>1, <3>2, <3>3
  <2> QED  BY <1>3, <2>1 DEF GoodFrame
<1> QED  BY <1>2, <1>3

\* Sending a good request to the target of the exchange.
LEMMA SendToGood ==
    ASSUME UploadInv, NEW q, NEW host \in Hosts \cup {Group}, GoodRequest(q)',
           upload > 0 => host = Server, SendTo(q, host), stage' # "idle",
           upload' = upload, size' = size, received' = received
    PROVE  GoodRequest(request)' /\ \A p \in wire' : GoodRequest(p)'
<1>1. PICK m \in Nat : m = request.mid + 1
  BY DEF UploadInv, GoodRequest
<1>2. PICK sent : sent = [q EXCEPT !.mid = m]
  OBVIOUS
<1>3. PICK framed : framed = [sent EXCEPT !.to = host]
  OBVIOUS
<1>4. request' = sent /\ wire' = wire \cup {framed}
  BY <1>1, <1>2, <1>3 DEF SendTo
<1>5. GoodRequest(sent)'
  BY <1>2 DEF GoodRequest, IsBlock
<1>6. GoodRequest(framed)'
  BY <1>3, <1>5 DEF GoodRequest, IsBlock
<1>7. \A p \in wire : GoodRequest(p)'
  BY StaysGood, HostAssumption DEF UploadInv
<1>8. GoodRequest(request)'
  BY <1>4, <1>5 DEF GoodRequest, IsBlock
<1> QED  BY <1>4, <1>6, <1>7, <1>8

\* The requests the code builds from the internal request are good ones.
LEMMA SetToSendBlockGood ==
    ASSUME UploadInv, NEW n \in Nat, size \in BlockSizes, upload > 0,
           n \in BlockNumbers => Start(n) <= received[Server],
           upload' = upload, size' = size, received' = received, stage' # "idle",
           NEW q, GoodRequest(q)', NEW p, p = SetToSendBlock(q, n, size)
    PROVE  GoodRequest(p)'
<1>1. CASE n \notin BlockNumbers
  BY <1>1 DEF SetToSendBlock, CheckBlockNumber
<1>2. CASE n \in BlockNumbers
  <2> DEFINE v == BlockOption(n, size, (n + 1) * size < upload * 16)
             s == Slice(n, size, upload)
  <2>2. PICK a, b \in Nat : s = a..b
    <3>1. size \in Nat /\ upload \in Nat
      BY DEF BlockSizes, UploadInv
    <3> QED  BY <3>1, SliceIsInterval
  <2>3. p = [q EXCEPT !.payload = s, !.block1 = v]
    BY <1>2 DEF SetToSendBlock, CheckBlockNumber
  <2>4. v' = v /\ s' = s /\ Start(n)' = Start(n)
    BY DEF Slice, Start
  <2> HIDE DEF v, s
  <2>5. p.block1 = v /\ p.payload = s /\ p.to = q.to
        /\ p = [mid |-> p.mid, to |-> p.to, block1 |-> p.block1, block2 |-> p.block2,
                payload |-> p.payload]
        /\ p.mid = q.mid
    BY <2>3 DEF GoodRequest
  <2>6. IsBlock(p, n)'
    BY <1>2, <2>4, <2>5 DEF IsBlock, v, s
  <2> QED  BY <1>2, <2>2, <2>5, <2>6 DEF GoodRequest
<1> QED  BY <1>1, <1>2

\* A request for a block carries no Block1 option, so nothing is claimed of its block.
LEMMA SetToRequestBlockGood ==
    ASSUME NEW n, NEW s, NEW q, GoodRequest(q)', NEW p, p = SetToRequestBlock(q, n, s)
    PROVE  GoodRequest(p)'
<1>1. CASE p = q
  BY <1>1
<1>2. CASE p = [q EXCEPT !.block1 = NoOption, !.block2 = BlockOption(n, s, FALSE)]
  <2>1. /\ p = [mid |-> p.mid, to |-> p.to, block1 |-> p.block1, block2 |-> p.block2,
                payload |-> p.payload]
        /\ p.mid = q.mid /\ p.to = q.to /\ p.block1 = NoOption /\ p.payload = q.payload
    BY <1>2 DEF GoodRequest
  <2> QED  BY <2>1 DEF GoodRequest
<1> QED  BY <1>1, <1>2 DEF SetToRequestBlock

\* The size changes only before the transfer, or when there is no payload to number.
LEMMA UploadSetBlockSize ==
    ASSUME SizeWaits, UploadInv, NEW s, SetBlockSize(s)
    PROVE  UploadInv'
<1> USE DEF SetBlockSize, network
<1>1. upload' = upload /\ received' = received /\ stage' = stage /\ request' = request
      /\ wire' = wire /\ frames' = frames
  OBVIOUS
<1>2. IsBlockSize(size)'
  BY DEF UploadInv, IsBlockSize
<1>3. stage = "idle" \/ upload = 0
  OBVIOUS
<1>4. /\ request.block1 = NoOption
      /\ \A q \in wire : q.block1 = NoOption
      /\ \A f \in frames : ~ NextBlockToSend(f.block1) > 0
  BY <1>3 DEF UploadInv, GoodRequest, GoodFrame
<1>5. GoodRequest(request)' /\ (\A q \in wire : GoodRequest(q)')
  BY <1>1, <1>4 DEF UploadInv, GoodRequest
<1>6. \A f \in frames : GoodFrame(f)'
  BY <1>1, <1>4 DEF UploadInv, GoodFrame
<1> QED  BY <1>1, <1>2, <1>5, <1>6 DEF UploadInv

\* The first block starts at the beginning.
LEMMA UploadStart ==
    ASSUME UploadInv, StartRequest
    PROVE  UploadInv'
<1>1. upload' = upload /\ size' = size /\ received' = received /\ frames' = frames
      /\ stage = "idle" /\ stage' = "running"
  BY DEF StartRequest, network
<1>2. frames = {} /\ request.block1 = NoOption /\ GoodRequest(request)
      /\ upload \in Nat /\ IsBlockSize(size) /\ received \in [Hosts -> Nat]
  BY <1>1 DEF UploadInv
<1>3. PICK target : target = request.to
  OBVIOUS
<1>4. target \in Hosts \cup {Group} /\ (upload > 0 => target = Server)
  BY <1>2, <1>3 DEF GoodRequest
<1>5. PICK q0 : q0 = request
  OBVIOUS
<1>6. GoodRequest(q0)'
  BY <1>1, <1>2, <1>5 DEF GoodRequest
<1>7. PICK q1 : q1 = IF size > 0 THEN SetToRequestBlock(q0, 0, size) ELSE q0
  OBVIOUS
<1>8. GoodRequest(q1)'
  BY <1>6, <1>7, SetToRequestBlockGood
<1>9. PICK q2 : q2 = IF size > 0 /\ upload * 16 > size THEN SetToSendBlock(q1, 0, size) ELSE q1
  OBVIOUS
<1>10. GoodRequest(q2)'
  <2>1. CASE ~ (size > 0 /\ upload * 16 > size)
    BY <1>8, <1>9, <2>1
  <2>2. CASE size > 0 /\ upload * 16 > size
    <3>1. size \in BlockSizes
      BY <1>2, <2>2 DEF IsBlockSize
    <3>2. upload > 0
      BY <1>2, <2>2, <3>1 DEF BlockSizes
    <3>3. Start(0) = 0 /\ received[Server] \in Nat
      BY <1>2, <3>1, HostAssumption, SMT DEF Start, BlockSizes
    <3>4. q2 = SetToSendBlock(q1, 0, size) /\ stage' # "idle"
      BY <1>1, <1>9, <2>2
    <3> QED  BY <1>1, <1>8, <3>1, <3>2, <3>3, <3>4, SetToSendBlockGood
  <2> QED  BY <2>1, <2>2
<1>11. SendTo(q2, target)
  BY <1>3, <1>5, <1>7, <1>9 DEF StartRequest
<1>12. GoodRequest(request)' /\ \A p \in wire' : GoodRequest(p)'
  <2>1. stage' # "idle"
    BY <1>1
  <2> QED  BY <1>1, <1>4, <1>10, <1>11, <2>1, SendToGood
<1> QED  BY <1>1, <1>2, <1>12 DEF UploadInv, IsBlockSize

\* The next block to send starts where the block that the server took ends.
LEMMA UploadDeliver ==
    ASSUME UploadInv, NEW f \in frames, Deliver(f)
    PROVE  UploadInv'
<1>1. upload' = upload /\ size' = size /\ received' = received /\ stage = "running"
  BY DEF Deliver, OnFrameReceived
<1>2. frames' \subseteq frames /\ GoodFrame(f)
  BY DEF Deliver, UploadInv
<1>3. stage' \in {"running", "done", "failed"}
  BY DEF Deliver, OnFrameReceived, OnLastMessage
<1>4. received[Server] \in Nat /\ upload \in Nat /\ IsBlockSize(size)
  BY HostAssumption DEF UploadInv
<1>5. \A g \in frames' : GoodFrame(g)'
  BY <1>1, <1>2, <1>3, <1>4, StaysGood DEF UploadInv
<1>6. PICK q0 : q0 = request
  OBVIOUS
<1>7. GoodRequest(q0)'
  BY <1>1, <1>3, <1>4, <1>6, StaysGood DEF UploadInv
<1>8. PICK target : target = request.to
  OBVIOUS
<1>9. target \in Hosts \cup {Group} /\ (upload > 0 => target = Server)
  BY <1>8 DEF UploadInv, GoodRequest
<1>10. GoodRequest(request)' /\ \A p \in wire' : GoodRequest(p)'
  <2>1. CASE request' = request /\ wire' = wire
    <3>1. \A p : GoodRequest(p) => GoodRequest(p)'
      BY <1>1, <1>3, <1>4, StaysGood
    <3>2. \A p \in wire' : GoodRequest(p)'
      BY <2>1, <3>1 DEF UploadInv
    <3>3. GoodRequest(request)'
      BY <1>6, <1>7, <2>1 DEF GoodRequest, IsBlock
    <3> QED  BY <3>2, <3>3
  <2>2. CASE NextBlockToSend(f.block1) > 0
             /\ SendTo(SetToSendBlock(request, NextBlockToSend(f.block1), size), request.to)
    <3>1. PICK n \in BlockNumbers :
            NextBlockToSend(f.block1) = n + 1 /\ Start(n + 1) <= received[Server]
      BY <1>2, <2>2 DEF GoodFrame
    <3>2. upload > 0 /\ size \in BlockSizes /\ n + 1 \in Nat
      BY <1>2, <2>2 DEF GoodFrame, BlockNumbers
    <3>3. PICK p : p = SetToSendBlock(q0, n + 1, size)
      OBVIOUS
    <3>4. GoodRequest(p)'
      BY <1>1, <1>3, <1>7, <3>1, <3>2, <3>3, SetToSendBlockGood
    <3>5. SendTo(p, target)
      BY <1>6, <1>8, <2>2, <3>1, <3>3
    <3> QED  BY <1>1, <1>3, <1>9, <3>4, <3>5, SendToGood
  <2>3. CASE \E n, s : SendTo(SetToRequestBlock(request, n, s), f.from)
    <3>1. PICK n, s : SendTo(SetToRequestBlock(request, n, s), f.from)
      BY <2>3
    <3>2. PICK p : p = SetToRequestBlock(q0, n, s)
      OBVIOUS
    <3>3. GoodRequest(p)'
      BY <1>7, <3>2, SetToRequestBlockGood
    <3>4. SendTo(p, f.from)
      BY <1>6, <3>1, <3>2
    <3>5. f.from \in Hosts \cup {Group} /\ (upload > 0 => f.from = Server)
      BY <1>2 DEF GoodFrame
    <3> QED  BY <1>1, <1>3, <3>3, <3>4, <3>5, SendToGood
  <2> QED
    BY <2>1, <2>2, <2>3 DEF Deliver, OnFrameReceived, OnLastMessage, Decoded
<1> QED  BY <1>1, <1>3, <1>4, <1>5, <1>10 DEF UploadInv, IsBlockSize

\* Nothing is sent when the exchange is forgotten.
LEMMA UploadExpire ==
    ASSUME UploadInv, Expire
    PROVE  UploadInv'
<1>1. upload' = upload /\ size' = size /\ received' = received /\ request' = request
      /\ wire' = wire /\ frames' = frames /\ stage' \in {"done", "failed"}
  BY DEF Expire, network
<1>2. received[Server] \in Nat /\ upload \in Nat /\ IsBlockSize(size)
  BY HostAssumption DEF UploadInv
<1>3. /\ \A q : GoodRequest(q) => GoodRequest(q)'
      /\ \A f : GoodFrame(f) => GoodFrame(f)'
  BY <1>1, <1>2, StaysGood
<1>4. GoodRequest(request)'
  BY <1>1, <1>3 DEF UploadInv, GoodRequest, IsBlock
<1> QED  BY <1>1, <1>3, <1>4 DEF UploadInv, IsBlockSize

\* What the server takes grows, and covers the block it has taken.
LEMMA UploadAnswer ==
    ASSUME UploadInv, NEW q \in wire, NEW h \in Hosts, Answer(q, h)
    PROVE  UploadInv'
<1>1. /\ upload' = upload /\ size' = size /\ stage' = stage /\ stage = "running"
      /\ request' = request /\ wire' = wire /\ q.to \in {h, Group}
  BY DEF Answer, client
<1>2. /\ upload \in Nat /\ IsBlockSize(size) /\ received \in [Hosts -> Nat]
      /\ GoodRequest(q)
  BY DEF UploadInv
<1>3. upload > 0 => h = Server
  BY <1>1, <1>2, HostAssumption DEF GoodRequest
<1>4. PICK a \in Nat, b \in Nat : q.payload = a..b
  BY <1>2 DEF GoodRequest
<1>5. PICK r \in Nat : r = received[h]
  BY <1>2
<1>6. PICK top : top = Max({r} \cup (a..b))
  OBVIOUS
<1>7. top \in Nat /\ top >= r /\ \A x \in a..b : top >= x
  <2>1. /\ Max({r} \cup (a..b)) \in {r} \cup (a..b)
        /\ \A x \in {r} \cup (a..b) : Max({r} \cup (a..b)) >= x
    BY MaxOfInterval
  <2> QED  BY <1>6, <2>1
<1>8. received' = received \/ received' = [received EXCEPT ![h] = top]
  BY <1>4, <1>5, <1>6 DEF Answer, Take, Refuse
<1>9. /\ received' \in [Hosts -> Nat]
      /\ received[Server] \in Nat /\ received'[Server] \in Nat
      /\ received[Server] <= received'[Server]
  BY <1>2, <1>5, <1>7, <1>8, HostAssumption
<1>10. /\ \A p : GoodRequest(p) => GoodRequest(p)'
       /\ \A f : GoodFrame(f) => GoodFrame(f)'
  BY <1>1, <1>2, <1>9, StaysGood
<1>11. GoodRequest(request)' /\ (\A p \in wire' : GoodRequest(p)')
  BY <1>1, <1>10 DEF UploadInv, GoodRequest, IsBlock
<1>12. PICK f : frames' = frames \cup {f} /\ f.from = h
               /\ (NextBlockToSend(f.block1) > 0 =>
                      f.block1 = q.block1 /\ received' = [received EXCEPT ![h] = top])
  <2>1. CASE Refuse(q, h)
    <3> DEFINE g == [mid |-> q.mid, from |-> h, error |-> TRUE, block1 |-> NoOption,
                     block2 |-> NoOption, payload |-> <<>>]
    <3>1. frames' = frames \cup {g} /\ g.from = h /\ ~ NextBlockToSend(g.block1) > 0
      BY <2>1 DEF Refuse, NextBlockToSend
    <3> QED  BY <3>1
  <2>2. CASE Take(q, h)
    <3>1. received' = [received EXCEPT ![h] = top]
      BY <1>4, <1>5, <1>6, <2>2 DEF Take
    <3>2. CASE NextBlockToSend(q.block1) > 0
      <4> DEFINE g == [mid |-> q.mid, from |-> h, error |-> FALSE, block1 |-> q.block1,
                       block2 |-> NoOption, payload |-> <<>>]
      <4>1. frames' = frames \cup {g} /\ g.from = h /\ g.block1 = q.block1
        BY <2>2, <3>2 DEF Take
      <4> QED  BY <3>1, <4>1
    <3>3. CASE ~ NextBlockToSend(q.block1) > 0
      <4> DEFINE g == ContentFrame(q, h)
      <4>1. frames' = frames \cup {g}
        BY <2>2, <3>3 DEF Take
      <4>2. g.from = h /\ g.block1 = q.block1
        BY DEF ContentFrame
      <4> QED  BY <3>1, <3>3, <4>1, <4>2
    <3> QED  BY <3>2, <3>3
  <2> QED  BY <2>1, <2>2 DEF Answer
<1>13. GoodFrame(f)'
  <2>1. ASSUME NextBlockToSend(f.block1) > 0
        PROVE  /\ upload' > 0 /\ size' \in BlockSizes
               /\ \E n \in BlockNumbers :
                    NextBlockToSend(f.block1) = n + 1 /\ Start(n + 1)' <= received'[Server]
    <3>1. q.block1 = f.block1 /\ received' = [received EXCEPT ![h] = top]
      BY <1>12, <2>1
    <3>2. q.block1 # NoOption
      BY <2>1, <3>1 DEF NextBlockToSend
    <3>3. upload > 0 /\ size \in BlockSizes
      BY <1>2, <3>2 DEF GoodRequest
    <3>4. PICK n \in BlockNumbers : IsBlock(q, n)
      BY <1>2, <3>2 DEF GoodRequest
    <3>5. n \in Nat /\ (n + 1) * size < upload * 16 /\ NextBlockToSend(f.block1) = n + 1
      <4>1. NextBlockToSend(q.block1) = IF (n + 1) * size < upload * 16 THEN n + 1 ELSE 0
        BY <1>2, <3>3, <3>4, BlockIsRead
      <4>2. n \in Nat
        BY DEF BlockNumbers
      <4> QED  BY <2>1, <3>1, <4>1, <4>2
    <3>6. /\ Start(n) \in Nat /\ Start(n + 1) \in Nat
          /\ Start(n) + 1 <= Start(n + 1)
      BY <3>3, <3>5, NextStart DEF Start
    <3>7. q.payload = Start(n) + 1 .. Start(n + 1)
      BY <3>4, <3>5 DEF IsBlock, Slice, Start
    <3>8. Start(n + 1) \in a..b
      BY <1>4, <3>6, <3>7
    <3>9. Start(n + 1) <= top
      BY <1>7, <3>6, <3>8
    <3>10. received'[Server] = top /\ Start(n + 1)' = Start(n + 1)
      BY <1>1, <1>2, <1>3, <3>1, <3>3 DEF Start
    <3> QED  BY <1>1, <3>3, <3>5, <3>9, <3>10
  <2>2. f.from \in Hosts /\ (upload' > 0 => f.from = Server)
    BY <1>1, <1>3, <1>12
  <2> QED  BY <2>1, <2>2 DEF GoodFrame
<1>14. \A g \in frames' : GoodFrame(g)'
  BY <1>10, <1>12, <1>13 DEF UploadInv
<1> QED  BY <1>1, <1>2, <1>9, <1>11, <1>14 DEF UploadInv, IsBlockSize

\* While the user leaves the block size alone during an upload, no block of the payload
\* is sent before the server has all that precedes it, for payloads and sizes of any
\* length and however requests and responses are delayed, lost, repeated or reordered.
THEOREM UploadsLeaveNoGap ==
    ASSUME SizeWaits
    PROVE  Spec => []UploadLeavesNoGap
<1>1. UploadInv /\ [Next]_vars => UploadInv'
  <2> SUFFICES ASSUME UploadInv, [Next]_vars PROVE UploadInv'
    OBVIOUS
  <2>1. CASE \E s \in SizeArguments : SetBlockSize(s)
    BY <2>1, UploadSetBlockSize
  <2>2. CASE StartRequest
    BY <2>2, UploadStart
  <2>3. CASE \E f \in frames : Deliver(f)
    BY <2>3, UploadDeliver
  <2>4. CASE Expire
    BY <2>4, UploadExpire
  <2>5. CASE \E q \in wire, h \in Hosts : Answer(q, h)
    BY <2>5, UploadAnswer
  <2>6. CASE UNCHANGED vars
    BY <2>6 DEF vars, UploadInv, GoodRequest, GoodFrame, IsBlock, Start
  <2> QED  BY <2>1, <2>2, <2>3, <2>4, <2>5, <2>6 DEF Next
<1>2. UploadInv => UploadLeavesNoGap
  <2> SUFFICES ASSUME UploadInv, NEW q \in wire, q.block1 # NoOption
               PROVE  BlockStart(q) <= received[Server]
    BY DEF UploadLeavesNoGap
  <2>1. upload \in Nat /\ size \in BlockSizes
    BY DEF UploadInv, GoodRequest
  <2>2. PICK n \in BlockNumbers : IsBlock(q, n)
    BY DEF UploadInv, GoodRequest
  <2>3. BlockStart(q) = Start(n)
    BY <2>1, <2>2, BlockIsRead
  <2> QED  BY <2>2, <2>3 DEF IsBlock
<1> QED  BY UploadInit, <1>1, <1>2, PTL DEF Spec
-----------------------------------------------------------------------------
(***************************************************************************)
(* Downloads.  A host that is asked for block n has answered the requests  *)
(* for all blocks before n, whatever block size is set meanwhile.  The     *)
(* property speaks of block n - 1 only, which is not enough: a number      *)
(* above 20 bits is refused by setToRequestBlock() and the request that    *)
(* goes out then asks again for the block the last request asked for, of   *)
(* another host perhaps.                                                   *)
(***************************************************************************)
Asks(q) == IF q.block2 = NoOption THEN 0 ELSE BlockNumber(q.block2)

\* Host h has answered a request for block j that was sent before m.
Has(h, j, m) == \E p \in wire : p.mid < m /\ p.mid \in answered[h] /\ Asks(p) = j

Readable(v) == v # NoOption => BlockNumber(v) \in BlockNumbers /\ BlockSize(v) \in BlockSizes

TurnRequest(q) ==
    /\ q = [mid |-> q.mid, to |-> q.to, block1 |-> q.block1, block2 |-> q.block2,
            payload |-> q.payload]
    /\ q.mid \in Nat /\ q.to \in Hosts \cup {Group} /\ Readable(q.block2)
    /\ upload > 0 => q.to = Server
    /\ upload = 0 => q.block1 = NoOption

InTurn(q) ==
    /\ q.mid <= request.mid
    /\ q.to = Group => Asks(q) = 0
    /\ q.to \in Hosts => \A j \in 0..(Asks(q) - 1) : Has(q.to, j, q.mid)

TurnFrame(f) ==
    /\ f.from \in Hosts /\ Readable(f.block2)
    /\ upload > 0 => f.from = Server
    /\ upload = 0 => f.block1 = NoOption
    /\ f.block2 # NoOption =>
          \A j \in 0..BlockNumber(f.block2) : Has(f.from, j, request.mid + 1)

TurnInv ==
    /\ upload \in Nat /\ IsBlockSize(size) /\ answered \in [Hosts -> SUBSET Nat]
    /\ IF stage = "idle"
       THEN wire = {} /\ frames = {} /\ request.block1 = NoOption /\ request.block2 = NoOption
       ELSE \E q \in wire : q.block2 = request.block2
    /\ TurnRequest(request)
    /\ \A q \in wire : TurnRequest(q) /\ InTurn(q)
    /\ \A f \in frames : TurnFrame(f)

\* What the code writes into an option can be read, whatever the size.
LEMMA WrittenIsReadable ==
    ASSUME NEW n \in BlockNumbers, NEW s \in BlockSizes, NEW more \in BOOLEAN,
           NEW v, v = BlockOption(n, s, more)
    PROVE  v # NoOption /\ BlockNumber(v) = n /\ Readable(v)
<1>1. Len(v) \in 1..3 /\ BlockNumber(v) = n /\ BlockSize(v) = s
  BY BlockOptionDecodes
<1>2. Len(NoOption) = 0
  BY DEF NoOption
<1>3. v # NoOption
  BY <1>1, <1>2
<1> QED  BY <1>1, <1>3 DEF Readable

\* The number a request asks for is a block number.
LEMMA AsksNumber ==
    ASSUME NEW q, TurnRequest(q)
    PROVE  Asks(q) \in BlockNumbers /\ Asks(q) \in Nat
BY DEF TurnRequest, Readable, Asks, BlockNumbers

\* What a host has answered, it has answered for good.
LEMMA HasMore ==
    ASSUME wire \subseteq wire', \A h \in Hosts : answered[h] \subseteq answered'[h],
           \A p \in wire : p.mid \in Nat,
           NEW h \in Hosts, NEW j, NEW m \in Nat, NEW n \in Nat, m <= n, Has(h, j, m)
    PROVE  Has(h, j, n)'
<1>1. PICK p \in wire : p.mid < m /\ p.mid \in answered[h] /\ Asks(p) = j
  BY DEF Has
<1>2. p \in wire' /\ p.mid < n /\ p.mid \in answered'[h] /\ Asks(p)' = j
  BY <1>1 DEF Asks
<1> QED  BY <1>2 DEF Has

\* A request or a frame that keeps its turn does so after every step.
LEMMA TurnStays ==
    ASSUME TurnInv, wire \subseteq wire', \A h \in Hosts : answered[h] \subseteq answered'[h],
           upload' = upload, request'.mid \in Nat, request.mid <= request'.mid
    PROVE  /\ \A q \in wire : TurnRequest(q)' /\ InTurn(q)'
           /\ \A f \in frames : TurnFrame(f)'
<1>1. (\A p \in wire : p.mid \in Nat) /\ request.mid \in Nat
  BY DEF TurnInv, TurnRequest
<1>2. ASSUME NEW q \in wire  PROVE TurnRequest(q)' /\ InTurn(q)'
  <2>1. TurnRequest(q) /\ InTurn(q) /\ q.mid \in Nat
    BY <1>1 DEF TurnInv
  <2>2. TurnRequest(q)'
    BY <2>1 DEF TurnRequest, Readable
  <2>3. Asks(q)' = Asks(q)
    BY DEF Asks
  <2>4. ASSUME q.to \in Hosts, NEW j \in 0..(Asks(q) - 1)  PROVE Has(q.to, j, q.mid)'
    <3>1. Has(q.to, j, q.mid)
      BY <2>1, <2>4 DEF InTurn
    <3> QED  BY <1>1, <2>1, <2>4, <3>1, HasMore
  <2>5. q.mid <= request'.mid
    BY <1>1, <2>1 DEF InTurn
  <2> QED  BY <2>1, <2>2, <2>3, <2>4, <2>5 DEF InTurn
<1>3. ASSUME NEW f \in frames  PROVE TurnFrame(f)'
  <2>1. TurnFrame(f)
    BY DEF TurnInv
  <2>2. ASSUME f.block2 # NoOption, NEW j \in 0..BlockNumber(f.block2)
        PROVE  Has(f.from, j, request.mid + 1)'
    <3>1. Has(f.from, j, request.mid + 1) /\ f.from \in Hosts
      BY <2>1, <2>2 DEF TurnFrame
    <3>2. PICK m \in Nat, n \in Nat : m = request.mid + 1 /\ n = request'.mid + 1 /\ m <= n
      BY <1>1
    <3>3. Has(f.from, j, n)'
      BY <1>1, <3>1, <3>2, HasMore
    <3> QED  BY <3>2, <3>3 DEF Has
  <2> QED  BY <2>1, <2>2 DEF TurnFrame, Readable
<1> QED  BY <1>2, <1>3

\* A request sent to a host that has answered those for all blocks before it.
LEMMA SendInTurn ==
    ASSUME TurnInv, NEW q, TurnRequest(q), NEW host \in Hosts \cup {Group}, SendTo(q, host),
           upload > 0 => host = Server,
           host = Group => Asks(q) = 0,
           host \in Hosts => \A j \in 0..(Asks(q) - 1) : Has(host, j, request.mid + 1),
           stage' # "idle", upload' = upload, size' = size, answered' = answered,
           frames' \subseteq frames
    PROVE  TurnInv'
<1>1. PICK m \in Nat : m = request.mid + 1 /\ request.mid \in Nat
  BY DEF TurnInv, TurnRequest
<1>2. PICK sent : sent = [q EXCEPT !.mid = m]
  OBVIOUS
<1>3. PICK framed : framed = [sent EXCEPT !.to = host]
  OBVIOUS
<1>4. request' = sent /\ wire' = wire \cup {framed}
  BY <1>1, <1>2, <1>3 DEF SendTo
<1>5. /\ sent = [mid |-> m, to |-> q.to, block1 |-> q.block1, block2 |-> q.block2,
                 payload |-> q.payload]
      /\ framed = [mid |-> m, to |-> host, block1 |-> q.block1, block2 |-> q.block2,
                   payload |-> q.payload]
  BY <1>2, <1>3 DEF TurnRequest
<1>6. TurnRequest(request)' /\ TurnRequest(framed)'
  BY <1>1, <1>4, <1>5 DEF TurnRequest, Readable
<1>7. /\ \A p \in wire : TurnRequest(p)' /\ InTurn(p)'
      /\ \A f \in frames : TurnFrame(f)'
  <2>1. wire \subseteq wire' /\ request'.mid = m /\ request.mid <= request'.mid
    BY <1>1, <1>4, <1>5
  <2> QED  BY <1>1, <2>1, TurnStays
<1>8. InTurn(framed)'
  <2>1. Asks(framed)' = Asks(q) /\ framed.mid = m /\ framed.to = host /\ request'.mid = m
    BY <1>4, <1>5 DEF Asks
  <2>2. ASSUME host \in Hosts, NEW j \in 0..(Asks(q) - 1)  PROVE Has(host, j, m)'
    <3>1. Has(host, j, m)
      BY <1>1, <2>2
    <3>2. \A p \in wire : p.mid \in Nat
      BY DEF TurnInv, TurnRequest
    <3>3. wire \subseteq wire'
      BY <1>4
    <3> QED  BY <1>1, <2>2, <3>1, <3>2, <3>3, HasMore
  <2>3. host = Group => Asks(framed)' = 0
    BY <2>1
  <2>4. \A j \in 0..(Asks(framed)' - 1) : host \in Hosts => Has(host, j, m)'
    BY <2>1, <2>2
  <2> QED  BY <1>1, <2>1, <2>3, <2>4 DEF InTurn
<1>9. \E p \in wire' : p.block2 = request'.block2
  BY <1>4, <1>5
<1>10. upload' \in Nat /\ IsBlockSize(size') /\ answered' \in [Hosts -> SUBSET Nat]
  BY DEF TurnInv
<1>11. IsBlockSize(size)'
  BY <1>10 DEF IsBlockSize
<1> QED  BY <1>4, <1>6, <1>7, <1>8, <1>9, <1>10, <1>11 DEF TurnInv

\* TurnInv holds initially; the next lemmas say that every action keeps it.
LEMMA TurnInit == Init => TurnInv
<1> SUFFICES ASSUME Init PROVE TurnInv
  OBVIOUS
<1>1. PICK t \in Transfers : mode = t.mode /\ upload = t.upload
  BY DEF Init
<1>2. upload \in Nat /\ (upload > 0 => mode = "plain")
  BY <1>1, TransferAssumption
<1>3. request = [mid |-> 0, to |-> IF mode = "multicast" THEN Group ELSE Server,
                 block1 |-> NoOption, block2 |-> NoOption, payload |-> 1..upload]
  BY DEF Init
<1>4. TurnRequest(request)
  BY <1>2, <1>3, HostAssumption DEF TurnRequest, Readable
<1>5. size = 0 /\ wire = {} /\ frames = {} /\ answered = [h \in Hosts |-> {}] /\ stage = "idle"
  BY DEF Init
<1> QED  BY <1>2, <1>3, <1>4, <1>5 DEF TurnInv, IsBlockSize

\* The block size is not the size of a request that was sent.
LEMMA TurnSetBlockSize ==
    ASSUME TurnInv, NEW s, SetBlockSize(s)
    PROVE  TurnInv'
<1>1. upload' = upload /\ stage' = stage /\ request' = request /\ wire' = wire
      /\ frames' = frames /\ answered' = answered
  BY DEF SetBlockSize, network
<1>2. IsBlockSize(size)'
  BY DEF SetBlockSize, TurnInv, IsBlockSize
<1>3. /\ \A q \in wire : TurnRequest(q)' /\ InTurn(q)'
      /\ \A f \in frames : TurnFrame(f)'
  <2>1. request.mid \in Nat
    BY DEF TurnInv, TurnRequest
  <2> QED  BY <1>1, <2>1, TurnStays
<1>4. TurnRequest(request)'
  BY <1>1 DEF TurnInv, TurnRequest, Readable
<1> QED  BY <1>1, <1>2, <1>3, <1>4 DEF TurnInv

\* The requests the code builds can be read.
LEMMA BuiltRequests ==
    ASSUME TurnInv, NEW q, TurnRequest(q)
    PROVE  /\ \A n, s : upload > 0 =>
                 /\ TurnRequest(SetToSendBlock(q, n, s))
                 /\ SetToSendBlock(q, n, s).block2 = q.block2
           /\ \A n, s : s \in BlockSizes =>
                 /\ TurnRequest(SetToRequestBlock(q, n, s))
                 /\ Asks(SetToRequestBlock(q, n, s)) = IF n \in BlockNumbers THEN n ELSE Asks(q)
<1>0. upload \in Nat
  BY DEF TurnInv
<1>1. ASSUME NEW n, NEW s, upload > 0, NEW p, p = SetToSendBlock(q, n, s)
      PROVE  TurnRequest(p) /\ p.block2 = q.block2
  <2>1. CASE p = q
    BY <2>1
  <2>2. CASE p = [q EXCEPT !.payload = Slice(n, s, upload),
                           !.block1 = BlockOption(n, s, (n + 1) * s < upload * 16)]
    <3>1. /\ p = [mid |-> p.mid, to |-> p.to, block1 |-> p.block1, block2 |-> p.block2,
                  payload |-> p.payload]
          /\ p.mid = q.mid /\ p.to = q.to /\ p.block2 = q.block2
      BY <2>2 DEF TurnRequest
    <3> QED  BY <1>0, <1>1, <3>1 DEF TurnRequest
  <2> QED  BY <1>1, <2>1, <2>2 DEF SetToSendBlock
<1>2. ASSUME NEW n, NEW s \in BlockSizes, NEW p, p = SetToRequestBlock(q, n, s)
      PROVE  TurnRequest(p) /\ Asks(p) = IF n \in BlockNumbers THEN n ELSE Asks(q)
  <2>1. CASE n \notin BlockNumbers
    BY <1>2, <2>1 DEF SetToRequestBlock, CheckBlockNumber
  <2>2. CASE n \in BlockNumbers
    <3>1. PICK v : v = BlockOption(n, s, FALSE)
      OBVIOUS
    <3>2. v # NoOption /\ BlockNumber(v) = n /\ Readable(v)
      BY <2>2, <3>1, WrittenIsReadable
    <3>3. p = [q EXCEPT !.block1 = NoOption, !.block2 = v]
      BY <1>2, <2>2, <3>1 DEF SetToRequestBlock, CheckBlockNumber
    <3>4. /\ p = [mid |-> p.mid, to |-> p.to, block1 |-> p.block1, block2 |-> p.block2,
                  payload |-> p.payload]
          /\ p.mid = q.mid /\ p.to = q.to /\ p.block2 = v /\ p.block1 = NoOption
      BY <3>3 DEF TurnRequest
    <3>5. TurnRequest(p)
      BY <3>2, <3>4 DEF TurnRequest
    <3> QED  BY <2>2, <3>2, <3>4, <3>5 DEF Asks
  <2> QED  BY <2>1, <2>2
<1> QED  BY <1>1, <1>2

\* Every first request asks for block 0, if for any.
LEMMA TurnStart ==
    ASSUME TurnInv, StartRequest
    PROVE  TurnInv'
<1>1. upload' = upload /\ size' = size /\ answered' = answered /\ frames' = frames
      /\ stage = "idle" /\ stage' = "running"
  BY DEF StartRequest, network
<1>2. /\ request.block2 = NoOption /\ TurnRequest(request) /\ upload \in Nat /\ IsBlockSize(size)
      /\ request.to \in Hosts \cup {Group} /\ (upload > 0 => request.to = Server)
  BY <1>1 DEF TurnInv, TurnRequest
<1>3. PICK asking : asking = IF size > 0 THEN SetToRequestBlock(request, 0, size) ELSE request
  OBVIOUS
<1>4. TurnRequest(asking) /\ Asks(asking) = 0
  <2>1. CASE size > 0
    <3>1. size \in BlockSizes /\ 0 \in BlockNumbers
      BY <1>2, <2>1 DEF IsBlockSize, BlockNumbers
    <3> QED  BY <1>2, <1>3, <2>1, <3>1, BuiltRequests
  <2>2. CASE ~ size > 0
    BY <1>2, <1>3, <2>2 DEF Asks
  <2> QED  BY <2>1, <2>2
<1>5. PICK first : first = IF size > 0 /\ upload * 16 > size THEN SetToSendBlock(asking, 0, size)
                                                             ELSE asking
  OBVIOUS
<1>6. TurnRequest(first) /\ Asks(first) = 0
  <2>1. CASE size > 0 /\ upload * 16 > size
    <3>1. upload > 0
      BY <1>2, <2>1 DEF IsBlockSize, BlockSizes
    <3>2. TurnRequest(first) /\ first.block2 = asking.block2
      BY <1>4, <1>5, <2>1, <3>1, BuiltRequests
    <3> QED  BY <1>4, <3>2 DEF Asks
  <2>2. CASE ~ (size > 0 /\ upload * 16 > size)
    BY <1>4, <1>5, <2>2
  <2> QED  BY <2>1, <2>2
<1>7. SendTo(first, request.to)
  BY <1>3, <1>5 DEF StartRequest
<1>8. \A j \in 0..(Asks(first) - 1) : Has(request.to, j, request.mid + 1)
  BY <1>6
<1> QED  BY <1>1, <1>2, <1>6, <1>7, <1>8, SendInTurn

\* The host that sent a block has answered the requests for all blocks before it.
LEMMA TurnDeliver ==
    ASSUME TurnInv, NEW f \in frames, Deliver(f)
    PROVE  TurnInv'
<1>1. /\ upload' = upload /\ size' = size /\ answered' = answered
      /\ stage = "running" /\ stage' \in {"running", "done", "failed"}
      /\ frames' \subseteq frames
  BY DEF Deliver, OnFrameReceived, OnLastMessage
<1>2. TurnFrame(f) /\ TurnRequest(request) /\ upload \in Nat /\ IsBlockSize(size)
      /\ request.mid \in Nat
  BY DEF TurnInv, TurnRequest
<1>3. PICK w \in wire : w.block2 = request.block2
  BY <1>1 DEF TurnInv
<1>4. /\ TurnRequest(w) /\ InTurn(w) /\ Asks(w) = Asks(request) /\ w.mid \in Nat
      /\ w.mid <= request.mid + 1 /\ request.mid + 1 \in Nat
  BY <1>2, <1>3 DEF TurnInv, Asks, TurnRequest, InTurn
<1>5. CASE request' = request /\ wire' = wire
  <2>1. /\ \A q \in wire : TurnRequest(q)' /\ InTurn(q)'
        /\ \A g \in frames : TurnFrame(g)'
    BY <1>1, <1>2, <1>5, TurnStays
  <2>2. TurnRequest(request)'
    BY <1>1, <1>2, <1>5 DEF TurnRequest, Readable
  <2>3. IsBlockSize(size)' /\ answered' \in [Hosts -> SUBSET Nat]
    BY <1>1, <1>2 DEF IsBlockSize, TurnInv
  <2> QED  BY <1>1, <1>2, <1>3, <1>5, <2>1, <2>2, <2>3 DEF TurnInv
<1>6. CASE NextBlockToSend(f.block1) > 0
           /\ SendTo(SetToSendBlock(request, NextBlockToSend(f.block1), size), request.to)
  <2>1. upload > 0 /\ request.to = Server /\ w.to = Server /\ Server \in Hosts /\ Server # Group
    BY <1>2, <1>4, <1>6, HostAssumption DEF TurnFrame, TurnRequest, NextBlockToSend
  <2>2. PICK q : q = SetToSendBlock(request, NextBlockToSend(f.block1), size)
    OBVIOUS
  <2>3. TurnRequest(q) /\ q.block2 = request.block2
    BY <1>2, <2>1, <2>2, BuiltRequests
  <2>4. Asks(q) = Asks(w)
    BY <1>3, <2>3 DEF Asks
  <2>5. ASSUME NEW j \in 0..(Asks(q) - 1)  PROVE Has(Server, j, request.mid + 1)
    <3>1. Has(Server, j, w.mid)
      BY <1>4, <2>1, <2>4, <2>5 DEF InTurn
    <3>2. PICK p \in wire : p.mid < w.mid /\ p.mid \in answered[Server] /\ Asks(p) = j
      BY <3>1 DEF Has
    <3>3. p.mid \in Nat
      BY DEF TurnInv, TurnRequest
    <3>4. p.mid < request.mid + 1
      BY <1>4, <3>2, <3>3
    <3> QED  BY <3>2, <3>4 DEF Has
  <2>6. SendTo(q, Server) /\ stage' # "idle"
    BY <1>1, <1>6, <2>1, <2>2
  <2> QED  BY <1>1, <2>1, <2>3, <2>5, <2>6, SendInTurn
<1>7. CASE /\ f.block2 # NoOption
           /\ SendTo(SetToRequestBlock(request, BlockNumber(f.block2) + 1, BlockSize(f.block2)),
                     f.from)
  <2>1. PICK n \in Nat : n = BlockNumber(f.block2) /\ n \in BlockNumbers
    BY <1>2, <1>7 DEF TurnFrame, Readable, BlockNumbers
  <2>2. /\ BlockSize(f.block2) \in BlockSizes /\ f.from \in Hosts /\ f.from # Group
        /\ (upload > 0 => f.from = Server)
        /\ \A j \in 0..n : Has(f.from, j, request.mid + 1)
    BY <1>2, <1>7, <2>1, HostAssumption DEF TurnFrame, Readable
  <2>3. PICK q : q = SetToRequestBlock(request, n + 1, BlockSize(f.block2))
    OBVIOUS
  <2>4. TurnRequest(q) /\ Asks(q) = IF n + 1 \in BlockNumbers THEN n + 1 ELSE Asks(request)
    BY <1>2, <2>2, <2>3, BuiltRequests
  <2>5. Asks(request) \in BlockNumbers
    BY <1>2, AsksNumber
  <2>6. Asks(q) \in Nat /\ Asks(q) - 1 <= n
    BY <2>1, <2>4, <2>5 DEF BlockNumbers
  <2>7. \A j \in 0..(Asks(q) - 1) : Has(f.from, j, request.mid + 1)
    BY <2>2, <2>6
  <2>8. SendTo(q, f.from) /\ stage' # "idle"
    BY <1>1, <1>7, <2>1, <2>3
  <2> QED  BY <1>1, <2>2, <2>4, <2>7, <2>8, SendInTurn
<1> QED
  BY <1>5, <1>6, <1>7 DEF Deliver, OnFrameReceived, OnLastMessage, Decoded

\* Nothing is sent when the exchange is forgotten.
LEMMA TurnExpire ==
    ASSUME TurnInv, Expire
    PROVE  TurnInv'
<1>1. /\ upload' = upload /\ size' = size /\ answered' = answered /\ request' = request
      /\ wire' = wire /\ frames' = frames /\ stage = "running" /\ stage' \in {"done", "failed"}
  BY DEF Expire, network
<1>2. /\ \A q \in wire : TurnRequest(q)' /\ InTurn(q)'
      /\ \A f \in frames : TurnFrame(f)'
  <2>1. request.mid \in Nat
    BY DEF TurnInv, TurnRequest
  <2> QED  BY <1>1, <2>1, TurnStays
<1>3. TurnRequest(request)' /\ IsBlockSize(size)'
  BY <1>1 DEF TurnInv, TurnRequest, Readable, IsBlockSize
<1> QED  BY <1>1, <1>2, <1>3 DEF TurnInv

\* The block a host sends is the one the request asks for, and no larger than it may be.
LEMMA TurnContent ==
    ASSUME NEW q, TurnRequest(q), NEW h
    PROVE  LET f == ContentFrame(q, h)
           IN  /\ f.from = h /\ f.block1 = q.block1
               /\ Readable(f.block2)
               /\ f.block2 # NoOption => BlockNumber(f.block2) = Asks(q)
<1> DEFINE s == IF q.block2 = NoOption THEN ServerSize
                ELSE Min({ServerSize, BlockSize(q.block2)})
           n == IF q.block2 = NoOption THEN 0 ELSE BlockNumber(q.block2)
           f == ContentFrame(q, h)
<1>1. s \in BlockSizes
  <2>1. ServerSize \in BlockSizes
    BY SizeAssumption
  <2>2. ASSUME NEW t \in BlockSizes  PROVE Min({ServerSize, t}) \in {ServerSize, t}
    <3>1. \E x \in {ServerSize, t} : \A y \in {ServerSize, t} : x <= y
      <4>1. ServerSize \in Nat /\ t \in Nat
        BY <2>1 DEF BlockSizes
      <4>2. CASE ServerSize <= t
        BY <4>1, <4>2
      <4>3. CASE ~ ServerSize <= t
        BY <4>1, <4>3
      <4> QED  BY <4>2, <4>3
    <3> QED  BY <3>1 DEF Min
  <2> QED  BY <2>1, <2>2 DEF TurnRequest, Readable
<1>2. n = Asks(q) /\ n \in BlockNumbers
  BY AsksNumber DEF Asks
<1> DEFINE more == (n + 1) * s < length * 16
<1>3. more \in BOOLEAN
  OBVIOUS
<1>4. f.from = h /\ f.block1 = q.block1
      /\ f.block2 = IF q.block2 = NoOption /\ length * 16 <= s THEN NoOption
                    ELSE BlockOption(n, s, more)
  BY DEF ContentFrame
<1> HIDE DEF s, n, f, more
<1>5. PICK v : v = BlockOption(n, s, more)
  OBVIOUS
<1>6. v # NoOption /\ BlockNumber(v) = n /\ Readable(v)
  BY <1>1, <1>2, <1>3, <1>5, WrittenIsReadable
<1>7. f.block2 \in {NoOption, v}
  BY <1>4, <1>5
<1>8. Readable(f.block2) /\ (f.block2 # NoOption => BlockNumber(f.block2) = Asks(q))
  BY <1>2, <1>6, <1>7 DEF Readable
<1> QED  BY <1>4, <1>8 DEF f

\* A host answers a request for a block only when it has answered those before.
LEMMA TurnAnswer ==
    ASSUME TurnInv, NEW q \in wire, NEW h \in Hosts, Answer(q, h)
    PROVE  TurnInv'
<1>1. /\ upload' = upload /\ size' = size /\ stage' = stage /\ stage = "running"
      /\ request' = request /\ wire' = wire /\ q.to \in {h, Group}
      /\ answered' = [answered EXCEPT ![h] = @ \cup {q.mid}]
  BY DEF Answer, client
<1>2. TurnRequest(q) /\ InTurn(q) /\ q.mid \in Nat /\ request.mid \in Nat
      /\ q.mid <= request.mid /\ answered \in [Hosts -> SUBSET Nat] /\ upload \in Nat
  BY DEF TurnInv, TurnRequest, InTurn
<1>3. /\ answered' \in [Hosts -> SUBSET Nat]
      /\ \A g \in Hosts : answered[g] \subseteq answered'[g]
      /\ q.mid \in answered'[h]
  BY <1>1, <1>2
<1>4. /\ \A p \in wire : TurnRequest(p)' /\ InTurn(p)'
      /\ \A f \in frames : TurnFrame(f)'
  BY <1>1, <1>2, <1>3, TurnStays
<1>5. PICK f : frames' = frames \cup {f} /\ f.from = h /\ f.block1 \in {NoOption, q.block1}
               /\ Readable(f.block2)
               /\ (f.block2 # NoOption => BlockNumber(f.block2) = Asks(q))
  <2>1. CASE Refuse(q, h)
    <3> DEFINE g == [mid |-> q.mid, from |-> h, error |-> TRUE, block1 |-> NoOption,
                     block2 |-> NoOption, payload |-> <<>>]
    <3>1. frames' = frames \cup {g} /\ g.from = h /\ g.block1 = NoOption /\ g.block2 = NoOption
      BY <2>1 DEF Refuse
    <3> QED  BY <3>1 DEF Readable
  <2>2. CASE Take(q, h) /\ NextBlockToSend(q.block1) > 0
    <3> DEFINE g == [mid |-> q.mid, from |-> h, error |-> FALSE, block1 |-> q.block1,
                     block2 |-> NoOption, payload |-> <<>>]
    <3>1. frames' = frames \cup {g} /\ g.from = h /\ g.block1 = q.block1 /\ g.block2 = NoOption
      BY <2>2 DEF Take
    <3> QED  BY <3>1 DEF Readable
  <2>3. CASE Take(q, h) /\ ~ NextBlockToSend(q.block1) > 0
    <3>1. frames' = frames \cup {ContentFrame(q, h)}
      BY <2>3 DEF Take
    <3> QED  BY <1>2, <3>1, TurnContent
  <2> QED  BY <2>1, <2>2, <2>3 DEF Answer
<1>6. TurnFrame(f)'
  <2>1. (upload' > 0 => f.from = Server) /\ (upload' = 0 => f.block1 = NoOption)
    BY <1>1, <1>2, <1>5, HostAssumption DEF TurnRequest
  <2>2. ASSUME f.block2 # NoOption, NEW j \in 0..BlockNumber(f.block2)
        PROVE  Has(h, j, request.mid + 1)'
    <3>1. BlockNumber(f.block2) = Asks(q) /\ Asks(q) \in Nat
      BY <1>2, <1>5, <2>2, AsksNumber
    <3>2. CASE j = Asks(q)
      BY <1>1, <1>2, <1>3, <3>2 DEF Has, Asks
    <3>3. CASE j < Asks(q)
      <4>1. q.to = h
        BY <1>1, <1>2, <2>2, <3>1, <3>3 DEF InTurn
      <4>2. Has(h, j, q.mid)
        BY <1>2, <2>2, <3>1, <3>3, <4>1 DEF InTurn
      <4>3. PICK p \in wire : p.mid < q.mid /\ p.mid \in answered[h] /\ Asks(p) = j
        BY <4>2 DEF Has
      <4>4. p.mid \in Nat
        BY DEF TurnInv, TurnRequest
      <4>5. p.mid < request.mid + 1 /\ p.mid \in answered'[h]
        BY <1>2, <1>3, <4>3, <4>4
      <4> QED  BY <1>1, <4>3, <4>5 DEF Has, Asks
    <3> QED  BY <2>2, <3>1, <3>2, <3>3
  <2>3. Readable(f.block2)'
    BY <1>5 DEF Readable
  <2> QED  BY <1>5, <2>1, <2>2, <2>3 DEF TurnFrame
<1>7. TurnRequest(request)' /\ IsBlockSize(size)'
  BY <1>1 DEF TurnInv, TurnRequest, Readable, IsBlockSize
<1>8. \A g \in frames' : TurnFrame(g)'
  BY <1>4, <1>5, <1>6
<1>9. \E p \in wire' : p.block2 = request'.block2
  BY <1>1 DEF TurnInv
<1> QED  BY <1>1, <1>2, <1>3, <1>4, <1>7, <1>8, <1>9 DEF TurnInv

\* A block after the first is asked for from a host that has answered the request for the
\* block before, for any number of hosts and blocks, however their answers are delayed,
\* repeated or reordered, and whatever block size the user sets meanwhile.
THEOREM BlocksKeepTheirTurn == Spec => []BlocksAskedInTurn
<1>1. TurnInv /\ [Next]_vars => TurnInv'
  <2> SUFFICES ASSUME TurnInv, [Next]_vars PROVE TurnInv'
    OBVIOUS
  <2>1. CASE \E s \in SizeArguments : SetBlockSize(s)
    BY <2>1, TurnSetBlockSize
  <2>2. CASE StartRequest
    BY <2>2, TurnStart
  <2>3. CASE \E f \in frames : Deliver(f)
    BY <2>3, TurnDeliver
  <2>4. CASE Expire
    BY <2>4, TurnExpire
  <2>5. CASE \E q \in wire, h \in Hosts : Answer(q, h)
    BY <2>5, TurnAnswer
  <2>6. CASE UNCHANGED vars
    <3>1. upload' = upload /\ size' = size /\ stage' = stage /\ request' = request
          /\ wire' = wire /\ answered' = answered /\ frames' = frames
      BY <2>6 DEF vars
    <3>2. /\ \A q \in wire : TurnRequest(q)' /\ InTurn(q)'
          /\ \A f \in frames : TurnFrame(f)'
      <4>1. request.mid \in Nat
        BY DEF TurnInv, TurnRequest
      <4> QED  BY <3>1, <4>1, TurnStays
    <3>3. TurnRequest(request)' /\ IsBlockSize(size)'
      BY <3>1 DEF TurnInv, TurnRequest, Readable, IsBlockSize
    <3> QED  BY <3>1, <3>2, <3>3 DEF TurnInv
  <2> QED  BY <2>1, <2>2, <2>3, <2>4, <2>5, <2>6 DEF Next
<1>2. TurnInv => BlocksAskedInTurn
  <2> SUFFICES ASSUME TurnInv, NEW q \in wire, q.block2 # NoOption, BlockNumber(q.block2) > 0
               PROVE  \E p \in wire :
                        /\ p.mid < q.mid /\ q.to \in Hosts /\ p.mid \in answered[q.to]
                        /\ BlockNumber(q.block2) =
                             (IF p.block2 = NoOption THEN 0 ELSE BlockNumber(p.block2)) + 1
    BY DEF BlocksAskedInTurn
  <2>1. PICK n \in Nat : n = Asks(q) /\ n = BlockNumber(q.block2) /\ n > 0
    BY AsksNumber DEF TurnInv, Asks
  <2>2. q.to \in Hosts
    <3>1. TurnRequest(q) /\ InTurn(q)
      BY DEF TurnInv
    <3>2. q.to # Group
      BY <2>1, <3>1 DEF InTurn
    <3> QED  BY <3>1, <3>2 DEF TurnRequest
  <2>3. n - 1 \in 0..(Asks(q) - 1)
    BY <2>1
  <2>4. Has(q.to, n - 1, q.mid)
    BY <2>2, <2>3 DEF TurnInv, InTurn
  <2>5. PICK p \in wire : p.mid < q.mid /\ p.mid \in answered[q.to] /\ Asks(p) = n - 1
    BY <2>4 DEF Has
  <2> QED  BY <2>1, <2>2, <2>5 DEF Asks
<1> QED  BY TurnInit, <1>1, <1>2, PTL DEF Spec

(***************************************************************************)
(* Merging.  The blocks of a list are put together in the order of their   *)
(* numbers.  What is needed of numbers, of FlattenSeq and of Ascending is  *)
(* proved of sets of numbers: the library's induction takes an operator.   *)
(***************************************************************************)

\* A set of numbers has a least one.
LEMMA LeastNumber ==
    ASSUME NEW T \in SUBSET Nat, T # {}
    PROVE  \E i \in T : \A j \in T : i <= j
<1> DEFINE less == {pair \in Nat \X Nat : pair[1] < pair[2]}
<1>1. IsWellFoundedOn(less, Nat)
  BY NatLessThanWellFounded DEF OpToRel
<1>2. \A i, j \in Nat : i < j => <<i, j>> \in less
  OBVIOUS
<1> HIDE DEF less
<1>3. PICK i \in T : \A j \in T : ~ (<<j, i>> \in less)
  BY <1>1, WFMin
<1>4. \A j \in T : i <= j
  <2> SUFFICES ASSUME NEW j \in T, j < i PROVE FALSE
    OBVIOUS
  <2>1. <<j, i>> \in less
    BY <1>2
  <2> QED  BY <1>3, <2>1
<1> QED  BY <1>4

\* A set of numbers that has 0 and with each number the next one has them all.
LEMMA Induction ==
    ASSUME NEW P \in SUBSET Nat, 0 \in P, \A k \in P : k + 1 \in P
    PROVE  P = Nat
<1> DEFINE T == Nat \ P
<1> SUFFICES ASSUME T # {} PROVE FALSE
  OBVIOUS
<1>1. PICK n \in T : \A j \in T : n <= j
  <2>1. T \in SUBSET Nat
    OBVIOUS
  <2> HIDE DEF T
  <2> QED  BY <2>1, LeastNumber
<1>2. n - 1 \in Nat /\ ~ (n <= n - 1) /\ (n - 1) + 1 = n
  OBVIOUS
<1>3. n - 1 \in P
  BY <1>1, <1>2
<1> QED  BY <1>2, <1>3

\* The sequences FlattenSeq passes through, one for each of the N sequences in G.
Flattens(V, N, G, F) ==
    /\ F \in [1..N -> Seq(V)]
    /\ F[1] = G[1] /\ \A i \in 2..N : F[i] = F[i - 1] \o G[i]
    /\ FlattenSeq(G) = F[N]

\* The equation of FlattenSeq has a solution, and that is all that matters of it.
LEMMA FlattenSteps ==
    ASSUME NEW V, NEW N \in Nat \ {0}, NEW G \in [1..N -> Seq(V)]
    PROVE  \E F : Flattens(V, N, G, F)
<1> DEFINE Solves(F, n) == F = [i \in 1..n |-> IF i = 1 THEN G[i] ELSE F[i - 1] \o G[i]]
           P == {n \in Nat : n + 1 <= N => \E F : Solves(F, n + 1)}
<1>1. 0 \in P
  <2> DEFINE F == [i \in 1..1 |-> G[i]]
  <2>1. F = [i \in 1..1 |-> IF i = 1 THEN G[i] ELSE F[i - 1] \o G[i]]
    OBVIOUS
  <2>2. Solves(F, 0 + 1)
    BY <2>1
  <2> HIDE DEF Solves, F
  <2> QED  BY <2>2
<1>2. ASSUME NEW n \in P  PROVE n + 1 \in P
  <2>0. n \in Nat /\ (n + 1) + 1 = n + 2
    OBVIOUS
  <2> SUFFICES ASSUME n + 2 <= N  PROVE \E F : Solves(F, n + 2)
    <3> HIDE DEF Solves
    <3> QED  BY <2>0
  <2>1. PICK F : Solves(F, n + 1)
    <3> HIDE DEF Solves
    <3>1. n + 1 <= N
      BY <2>0
    <3> QED  BY <3>1
  <2> DEFINE H == [i \in 1..(n + 2) |-> IF i = n + 2 THEN F[n + 1] \o G[n + 2] ELSE F[i]]
  <2>2. ASSUME NEW i \in 1..(n + 2)
        PROVE  H[i] = IF i = 1 THEN G[i] ELSE H[i - 1] \o G[i]
    <3>1. n \in Nat
      OBVIOUS
    <3>2. CASE i = n + 2
      <4>1. i # 1 /\ i - 1 = n + 1 /\ i - 1 \in 1..(n + 2) /\ i - 1 # n + 2
        BY <3>1, <3>2
      <4> QED  BY <3>2, <4>1
    <3>3. CASE i # n + 2
      <4>1. i \in 1..(n + 1) /\ H[i] = F[i]
        BY <3>1, <3>3
      <4>2. F[i] = IF i = 1 THEN G[i] ELSE F[i - 1] \o G[i]
        BY <2>1, <4>1
      <4>3. i # 1 => i - 1 \in 1..(n + 2) /\ i - 1 # n + 2
        BY <3>1, <4>1
      <4> QED  BY <4>1, <4>2, <4>3
    <3> QED  BY <3>2, <3>3
  <2>3. H = [i \in 1..(n + 2) |-> H[i]]
    OBVIOUS
  <2> HIDE DEF H
  <2>4. Solves(H, n + 2)
    BY <2>2, <2>3
  <2> QED  BY <2>4
<1>3. P = Nat
  <2> HIDE DEF P
  <2>1. P \in SUBSET Nat
    BY DEF P
  <2> QED  BY <1>1, <1>2, <2>1, Induction
<1>4. \E F : Solves(F, N)
  <2> HIDE DEF Solves
  <2>1. N - 1 \in P /\ (N - 1) + 1 = N
    <3>1. N - 1 \in Nat /\ (N - 1) + 1 = N
      OBVIOUS
    <3> QED  BY <1>3, <3>1
  <2> QED  BY <2>1
<1>5. PICK F : Solves(F, N) /\ FlattenSeq(G) = F[N]
  <2> DEFINE E == CHOOSE F : Solves(F, N)
  <2>1. Solves(E, N)
    <3> HIDE DEF Solves
    <3> QED  BY <1>4
  <2>2. Len(G) = N
    OBVIOUS
  <2>3. FlattenSeq(G) = E[N]
    BY <2>2 DEF FlattenSeq
  <2> HIDE DEF Solves, E
  <2> QED  BY <2>1, <2>3
<1>6. DOMAIN F = 1..N /\ F = [i \in 1..N |-> F[i]] /\ F[1] = G[1]
      /\ \A i \in 2..N : F[i] = F[i - 1] \o G[i]
  <2>1. F = [i \in 1..N |-> IF i = 1 THEN G[i] ELSE F[i - 1] \o G[i]]
    BY <1>5
  <2>2. DOMAIN F = 1..N /\ \A i \in 1..N : F[i] = IF i = 1 THEN G[i] ELSE F[i - 1] \o G[i]
    BY <2>1
  <2>3. F = [i \in 1..N |-> F[i]]
    BY <2>1, Zenon
  <2>4. 1 \in 1..N /\ \A i \in 2..N : i \in 1..N /\ i # 1
    OBVIOUS
  <2> QED  BY <2>2, <2>3, <2>4
<1> HIDE DEF Solves
<1> DEFINE Q == {n \in Nat : n + 1 <= N => F[n + 1] \in Seq(V)}
<1>7. 0 \in Q
  BY <1>6
<1>8. ASSUME NEW n \in Q  PROVE n + 1 \in Q
  <2>0. n \in Nat /\ (n + 1) + 1 = n + 2
    OBVIOUS
  <2> SUFFICES ASSUME n + 2 <= N  PROVE F[n + 2] \in Seq(V)
    BY <2>0
  <2>1. n + 2 \in 2..N /\ (n + 2) - 1 = n + 1 /\ F[n + 1] \in Seq(V)
    OBVIOUS
  <2>2. F[n + 2] = F[n + 1] \o G[n + 2] /\ G[n + 2] \in Seq(V)
    <3>1. G[n + 2] \in Seq(V)
      BY <2>1
    <3> QED  BY <1>6, <2>1, <3>1
  <2> QED  BY <2>1, <2>2
<1>9. Q = Nat
  <2> HIDE DEF Q
  <2>1. Q \in SUBSET Nat
    BY DEF Q
  <2> QED  BY <1>7, <1>8, <2>1, Induction
<1>10. \A i \in 1..N : F[i] \in Seq(V)
  <2> TAKE i \in 1..N
  <2>1. i - 1 \in Nat /\ (i - 1) + 1 = i /\ i <= N
    OBVIOUS
  <2> QED  BY <1>9, <2>1
<1>11. F \in [1..N -> Seq(V)]
  BY <1>6, <1>10
<1> QED  BY <1>5, <1>6, <1>11 DEF Flattens

Increases(o) == \A j, k \in DOMAIN o : j < k => o[j] < o[k]

\* The numbers of a finite set can be put in order.
LEMMA AscendingOrders ==
    ASSUME NEW S \in SUBSET Nat, IsFiniteSet(S)
    PROVE  /\ Cardinality(S) \in Nat
           /\ Ascending(S) \in [1..Cardinality(S) -> S] /\ Increases(Ascending(S))
<1> DEFINE P == {n \in Nat : \A T \in SUBSET Nat : IsFiniteSet(T) /\ Cardinality(T) = n =>
                                \E o \in [1..n -> T] : Increases(o)}
<1>1. 0 \in P
  <2> SUFFICES ASSUME NEW T \in SUBSET Nat  PROVE \E o \in [1..0 -> T] : Increases(o)
    OBVIOUS
  <2> DEFINE o == [k \in 1..0 |-> 0]
  <2>1. o \in [1..0 -> T] /\ Increases(o)
    BY DEF Increases
  <2> QED  BY <2>1
<1>2. ASSUME NEW n \in P  PROVE n + 1 \in P
  <2> SUFFICES ASSUME NEW T \in SUBSET Nat, IsFiniteSet(T), Cardinality(T) = n + 1
               PROVE  \E o \in [1..(n + 1) -> T] : Increases(o)
    OBVIOUS
  <2>1. T # {}
    BY FS_EmptySet
  <2>2. PICK m \in T : \A j \in T : m <= j
    BY <2>1, LeastNumber
  <2>3. IsFiniteSet(T \ {m}) /\ Cardinality(T \ {m}) = n
    <3>1. IsFiniteSet(T \ {m}) /\ Cardinality(T \ {m}) = Cardinality(T) - 1
      BY FS_RemoveElement
    <3>2. n \in Nat
      OBVIOUS
    <3> QED  BY <3>1, <3>2
  <2>4. PICK o \in [1..n -> T \ {m}] : Increases(o)
    BY <2>3
  <2> DEFINE p == [k \in 1..(n + 1) |-> IF k = 1 THEN m ELSE o[k - 1]]
  <2>5. ASSUME NEW k \in 1..(n + 1)
        PROVE  p[k] \in T /\ (k # 1 => k - 1 \in 1..n /\ p[k] = o[k - 1] /\ p[k] \in T \ {m})
    <3>1. CASE k = 1
      BY <3>1
    <3>2. CASE k # 1
      <4>1. n \in Nat
        OBVIOUS
      <4>2. k - 1 \in 1..n
        BY <3>2, <4>1
      <4> QED  BY <3>2, <4>2
    <3> QED  BY <3>1, <3>2
  <2>6. p \in [1..(n + 1) -> T] /\ p[1] = m
    <3>1. 1 \in 1..(n + 1)
      OBVIOUS
    <3> QED  BY <2>5, <3>1
  <2> HIDE DEF p
  <2>7. ASSUME NEW j \in 1..(n + 1), NEW k \in 1..(n + 1), j < k  PROVE p[j] < p[k]
    <3>1. k # 1 /\ p[k] \in T \ {m} /\ p[k] = o[k - 1] /\ k - 1 \in 1..n
      BY <2>5, <2>7
    <3>2. CASE j = 1
      <4>1. p[k] \in T /\ p[k] # m /\ m <= p[k] /\ p[j] = m /\ m \in Nat /\ p[k] \in Nat
        BY <2>2, <2>6, <3>1, <3>2
      <4> QED  BY <4>1
    <3>3. CASE j # 1
      <4>1. p[j] = o[j - 1] /\ j - 1 \in 1..n /\ j - 1 < k - 1
        BY <2>5, <2>7, <3>3
      <4> QED  BY <2>4, <3>1, <4>1 DEF Increases
    <3> QED  BY <3>2, <3>3
  <2>8. Increases(p)
    BY <2>6, <2>7 DEF Increases
  <2> QED  BY <2>6, <2>8
<1>3. P = Nat
  <2> HIDE DEF P
  <2>1. P \in SUBSET Nat
    BY DEF P
  <2> QED  BY <1>1, <1>2, <2>1, Induction
<1>4. Cardinality(S) \in Nat
  BY FS_CardinalityType
<1>5. \E o \in [1..Cardinality(S) -> S] : Increases(o)
  BY <1>3, <1>4
<1> HIDE DEF P
<1> QED  BY <1>4, <1>5 DEF Ascending, Increases

\* The numbers from 0 to n are their own order.
LEMMA AscendingInterval ==
    ASSUME NEW n \in Nat
    PROVE  Ascending(0..n) = [k \in 1..(n + 1) |-> k - 1]
<1>1. IsFiniteSet(0..n) /\ Cardinality(0..n) = n + 1 /\ 0..n \in SUBSET Nat
  <2>1. IsFiniteSet(0..n) /\ Cardinality(0..n) = IF 0 > n THEN 0 ELSE n - 0 + 1
    BY FS_Interval
  <2> QED  BY <2>1
<1>2. PICK o \in [1..(n + 1) -> 0..n] : o = Ascending(0..n) /\ Increases(o)
  BY <1>1, AscendingOrders
<1>3. \A j, k \in 1..(n + 1) : j < k => o[j] < o[k]
  BY <1>2 DEF Increases
<1> DEFINE P == {k \in Nat : k <= n => o[k + 1] >= k}
           Q == {k \in Nat : k <= n => o[(n + 1) - k] <= n - k}
<1>4. 0 \in P /\ 0 \in Q
  <2>1. 1 \in 1..(n + 1) /\ n + 1 \in 1..(n + 1) /\ (n + 1) - 0 = n + 1
    OBVIOUS
  <2> QED  BY <2>1
<1>5. ASSUME NEW k \in P  PROVE k + 1 \in P
  <2> SUFFICES ASSUME k + 1 <= n  PROVE o[k + 2] >= k + 1
    OBVIOUS
  <2>1. k \in Nat /\ k + 1 \in 1..(n + 1) /\ k + 2 \in 1..(n + 1) /\ k + 1 < k + 2
    OBVIOUS
  <2>2. o[k + 1] < o[k + 2] /\ o[k + 1] >= k /\ o[k + 1] \in 0..n /\ o[k + 2] \in 0..n
    BY <1>3, <2>1
  <2> QED  BY <2>1, <2>2
<1>6. ASSUME NEW k \in Q  PROVE k + 1 \in Q
  <2> SUFFICES ASSUME k + 1 <= n  PROVE o[(n + 1) - (k + 1)] <= n - (k + 1)
    OBVIOUS
  <2> DEFINE a == (n + 1) - (k + 1)
             b == (n + 1) - k
  <2>1. k \in Nat /\ a \in 1..(n + 1) /\ b \in 1..(n + 1) /\ a < b
    OBVIOUS
  <2>2. o[b] <= n - k
    OBVIOUS
  <2> HIDE DEF a, b
  <2>3. o[a] < o[b] /\ o[a] \in 0..n /\ o[b] \in 0..n
    BY <1>3, <2>1
  <2>4. o[a] <= n - (k + 1)
    BY <2>1, <2>2, <2>3
  <2> QED  BY <2>4 DEF a
<1>7. P = Nat /\ Q = Nat
  <2> HIDE DEF P, Q
  <2>1. P \in SUBSET Nat /\ Q \in SUBSET Nat
    BY DEF P, Q
  <2>2. P = Nat
    BY <1>4, <1>5, <2>1, Induction
  <2>3. Q = Nat
    BY <1>4, <1>6, <2>1, Induction
  <2> QED  BY <2>2, <2>3
<1>8. ASSUME NEW k \in 1..(n + 1)  PROVE o[k] = k - 1
  <2>1. k - 1 \in Nat /\ (k - 1) + 1 = k /\ k - 1 <= n
    OBVIOUS
  <2>2. (n + 1) - k \in Nat /\ (n + 1) - ((n + 1) - k) = k /\ (n + 1) - k <= n
        /\ n - ((n + 1) - k) = k - 1
    OBVIOUS
  <2>3. o[k] >= k - 1
    BY <1>7, <2>1
  <2>4. o[k] <= k - 1
    <3>1. (n + 1) - k \in Q
      <4> HIDE DEF Q
      <4> QED  BY <1>7, <2>2
    <3>2. o[(n + 1) - ((n + 1) - k)] <= n - ((n + 1) - k)
      BY <2>2, <3>1
    <3> HIDE DEF Q
    <3> QED  BY <2>2, <3>2
  <2>5. o[k] \in Nat
    OBVIOUS
  <2> HIDE DEF P, Q
  <2> QED  BY <2>3, <2>4, <2>5
<1> QED  BY <1>2, <1>8

(***************************************************************************)
(* Contents.  Served(q) is the size of the blocks that answer q.  Block n  *)
(* of the content, in blocks of s bytes, is the units after First(n, s) up *)
(* to Upto(n, s).                                                          *)
(***************************************************************************)
Served(q) == IF q.block2 = NoOption THEN ServerSize ELSE Min({ServerSize, BlockSize(q.block2)})
First(n, s) == (n * s) \div 16
Upto(n, s) == IF (n + 1) * s < length * 16 THEN First(n + 1, s) ELSE length
Units(h, n, s) == SubSeq(Whole(h), First(n, s) + 1, Upto(n, s))

\* Blocks are not empty, and each begins where the one before ends.
LEMMA BlocksTouch ==
    ASSUME NEW n \in Nat, NEW s \in BlockSizes, length \in Nat \ {0}, n * s < length * 16
    PROVE  /\ First(n, s) \in Nat /\ Upto(n, s) \in Nat /\ First(0, s) = 0
           /\ First(n, s) < Upto(n, s) /\ Upto(n, s) <= length
           /\ (n + 1) * s < length * 16 => Upto(n, s) = First(n + 1, s)
<1>1. PICK u \in Nat \ {0} : s = 16 * u
  <2>1. s \div 16 \in Nat \ {0} /\ s = 16 * (s \div 16)
    BY SMT DEF BlockSizes
  <2> QED  BY <2>1
<1>2. ASSUME NEW k \in Nat  PROVE First(k, s) = k * u /\ k * s = 16 * (k * u) /\ k * u \in Nat
  <2>1. k * s = 16 * (k * u) /\ k * u \in Nat
    BY <1>1
  <2>2. ASSUME NEW x \in Nat  PROVE (16 * x) \div 16 = x
    BY SMT
  <2> QED  BY <2>1, <2>2 DEF First
<1>3. (n + 1) * u = n * u + u
  BY <1>1
<1>4. 0 * u = 0 /\ n + 1 \in Nat
  BY <1>1
<1>5. /\ First(n, s) = n * u /\ n * s = 16 * (n * u) /\ n * u \in Nat
      /\ First(n + 1, s) = n * u + u /\ (n + 1) * s = 16 * (n * u + u)
      /\ First(0, s) = 0
  BY <1>2, <1>3, <1>4
<1>6. PICK a \in Nat : a = n * u
  BY <1>5
<1> QED  BY <1>1, <1>5, <1>6 DEF Upto

\* A block ends behind where it begins, in whatever order they are taken.
LEMMA BlocksInOrder ==
    ASSUME NEW j \in Nat, NEW n \in Nat, NEW s \in BlockSizes, NEW l \in Nat
    PROVE  /\ j <= n /\ n * s < l => j * s < l
           /\ j * s < l /\ ~ (n + 1) * s < l => j <= n
BY SMT DEF BlockSizes

\* The content of a host is a sequence of all its units.
LEMMA WholeType ==
    ASSUME NEW h \in Hosts, length \in Nat
    PROVE  /\ Whole(h) \in Seq(Hosts \X Nat) /\ Len(Whole(h)) = length
BY DEF Whole

\* Two pieces of a sequence that touch.
LEMMA PiecesTouch ==
    ASSUME NEW V, NEW w \in Seq(V), NEW a \in Nat, NEW b \in Nat, a <= b, b <= Len(w)
    PROVE  SubSeq(w, 1, a) \o SubSeq(w, a + 1, b) = SubSeq(w, 1, b)
<1> DEFINE x == SubSeq(w, 1, a)
           y == SubSeq(w, a + 1, b)
           z == SubSeq(w, 1, b)
<1>1. x \in Seq(V) /\ Len(x) = a /\ \A i \in 1..a : x[i] = w[i]
  OBVIOUS
<1>2. y \in Seq(V) /\ Len(y) = b - a /\ \A i \in 1..(b - a) : y[i] = w[a + i]
  <2>1. y \in Seq(V) /\ Len(y) = b - a
    OBVIOUS
  <2>2. \A i \in 1..(b - a) : y[i] = w[(a + 1) + i - 1] /\ (a + 1) + i - 1 = a + i
    OBVIOUS
  <2> HIDE DEF y
  <2> QED  BY <2>1, <2>2
<1>3. z \in Seq(V) /\ Len(z) = b /\ \A i \in 1..b : z[i] = w[i]
  OBVIOUS
<1> HIDE DEF x, y, z
<1>4. (x \o y) \in Seq(V) /\ Len(x \o y) = b
  <2>1. (x \o y) \in Seq(V)
    BY <1>1, <1>2
  <2>2. Len(x \o y) = Len(x) + Len(y)
    BY <1>1, <1>2, ConcatProperties
  <2> QED  BY <1>1, <1>2, <2>1, <2>2
<1>5. \A i \in 1..b : (x \o y)[i] = z[i]
  <2> TAKE i \in 1..b
  <2>1. CASE i <= a
    BY <1>1, <1>2, <1>3, <2>1
  <2>2. CASE ~ i <= a
    <3>1. (x \o y)[i] = y[i - a] /\ i - a \in 1..(b - a) /\ a + (i - a) = i
      BY <1>1, <1>2, <2>2
    <3> QED  BY <1>2, <1>3, <3>1
  <2> QED  BY <2>1, <2>2
<1>6. x \o y = z
  BY <1>3, <1>4, <1>5, SeqEqual
<1> QED  BY <1>6 DEF x, y, z

\* A block of the content that there is has units.
LEMMA UnitsType ==
    ASSUME NEW h \in Hosts, NEW n \in Nat, NEW s \in BlockSizes, length \in Nat \ {0},
           n * s < length * 16
    PROVE  Units(h, n, s) \in Seq(Hosts \X Nat) /\ Units(h, n, s) # <<>>
<1>1. PICK a \in Nat, b \in Nat : a = First(n, s) /\ b = Upto(n, s) /\ a < b /\ b <= length
  BY BlocksTouch
<1>2. PICK w \in Seq(Hosts \X Nat) : w = Whole(h) /\ Len(w) = length
  BY WholeType
<1>3. SubSeq(w, a + 1, b) \in Seq(Hosts \X Nat) /\ Len(SubSeq(w, a + 1, b)) = b - a
  BY <1>1, <1>2
<1>4. Len(SubSeq(w, a + 1, b)) # 0
  BY <1>1, <1>3
<1> QED  BY <1>1, <1>2, <1>3, <1>4 DEF Units

\* What a server cuts from its content is the block.
LEMMA ServerCuts ==
    ASSUME NEW h, NEW n \in Nat, NEW s \in BlockSizes, length \in Nat \ {0}, n * s < length * 16
    PROVE  SubSeq(Whole(h), (n * s) \div 16 + 1,
                  (n * s) \div 16 + Cardinality(Slice(n, s, length))) = Units(h, n, s)
<1>1. PICK a \in Nat, b \in Nat : a = First(n, s) /\ b = Upto(n, s) /\ a < b
  BY BlocksTouch
<1>2. Slice(n, s, length) = a + 1 .. b
  BY <1>1 DEF Slice, First, Upto
<1>3. Cardinality(a + 1 .. b) = b - a
  <2>1. Cardinality(a + 1 .. b) = IF a + 1 > b THEN 0 ELSE b - (a + 1) + 1
    BY FS_Interval
  <2> QED  BY <1>1, <2>1
<1>4. a + (b - a) = b
  OBVIOUS
<1> QED  BY <1>1, <1>2, <1>3, <1>4 DEF Units, First

\* The least number of a set is in it.
LEMMA MinOfSome ==
    ASSUME NEW T \in SUBSET Nat, T # {}
    PROVE  Min(T) \in T
<1>1. \E x \in T : \A y \in T : x <= y
  BY LeastNumber
<1> QED  BY <1>1 DEF Min

\* The replies whose payloads are merged.
Mine(rs, h) == {i \in DOMAIN rs : /\ rs[i].payload # <<>>
                                  /\ mode = "multicast" => rs[i].from = h}

\* When all blocks are there, and what is there are blocks, the merged payload is the
\* whole content, whatever came twice and in whatever order.
LEMMA MergedIsWhole ==
    ASSUME NEW h \in Hosts, NEW rs \in Seq(InternalReply), NEW s \in BlockSizes,
           length \in Nat \ {0}, NEW n \in Nat, n * s < length * 16, ~ (n + 1) * s < length * 16,
           \A i \in Mine(rs, h) : rs[i].number * s < length * 16
                                  /\ rs[i].payload = Units(h, rs[i].number, s),
           \A j \in 0..n : \E i \in Mine(rs, h) : rs[i].number = j
    PROVE  Merged(rs, h) = Whole(h)
<1>1. Mine(rs, h) \in SUBSET Nat /\ \A i \in Mine(rs, h) : rs[i].number \in Nat
  <2>1. \A i \in DOMAIN rs : i \in Nat /\ rs[i].number \in Nat
    <3>1. \A i \in DOMAIN rs : i \in Nat /\ rs[i] \in InternalReply
      OBVIOUS
    <3> QED  BY <3>1 DEF InternalReply
  <2> QED  BY <2>1 DEF Mine
<1>2. {rs[i].number : i \in Mine(rs, h)} = 0..n
  <2>1. \A i \in Mine(rs, h) : rs[i].number \in 0..n
    <3>1. length * 16 \in Nat
      OBVIOUS
    <3> TAKE i \in Mine(rs, h)
    <3>2. rs[i].number <= n /\ rs[i].number \in Nat
      BY <1>1, <3>1, BlocksInOrder
    <3> QED  BY <3>2
  <2> QED  BY <2>1
<1> DEFINE Least(k) == Min({i \in Mine(rs, h) : rs[i].number = k - 1})
           G == [k \in 1..(n + 1) |-> rs[Least(k)].payload]
<1>3. Merged(rs, h) = FlattenSeq(G)
  <2> DEFINE filled == Mine(rs, h)
             order == Ascending({rs[i].number : i \in filled})
  <2>1. Merged(rs, h) = FlattenSeq([k \in DOMAIN order |->
            rs[Min({i \in filled : rs[i].number = order[k]})].payload])
    BY DEF Merged, Mine
  <2>2. order = [k \in 1..(n + 1) |-> k - 1]
    BY <1>2, AscendingInterval
  <2>3. DOMAIN order = 1..(n + 1) /\ \A k \in 1..(n + 1) : order[k] = k - 1
    BY <2>2
  <2> HIDE DEF order
  <2>4. [k \in DOMAIN order |-> rs[Min({i \in filled : rs[i].number = order[k]})].payload] = G
    BY <2>3
  <2> QED  BY <2>1, <2>4
<1>4. \A k \in 1..(n + 1) : k - 1 \in Nat /\ (k - 1) * s < length * 16
  <2> TAKE k \in 1..(n + 1)
  <2>1. k - 1 \in Nat /\ k - 1 <= n /\ length * 16 \in Nat
    OBVIOUS
  <2> QED  BY <2>1, BlocksInOrder
<1>5. \A k \in 1..(n + 1) : G[k] = Units(h, k - 1, s)
  <2> TAKE k \in 1..(n + 1)
  <2> DEFINE T == {i \in Mine(rs, h) : rs[i].number = k - 1}
  <2>1. k - 1 \in 0..n
    OBVIOUS
  <2>2. T \in SUBSET Nat /\ T # {}
    BY <1>1, <2>1
  <2>3. Min(T) \in T
    <3> HIDE DEF T
    <3> QED  BY <2>2, MinOfSome
  <2>4. Least(k) \in Mine(rs, h) /\ rs[Least(k)].number = k - 1 /\ G[k] = rs[Least(k)].payload
    BY <2>3
  <2> HIDE DEF G, Least, T
  <2> QED  BY <2>4
<1>6. G \in [1..(n + 1) -> Seq(Hosts \X Nat)]
  <2>1. \A k \in 1..(n + 1) : Units(h, k - 1, s) \in Seq(Hosts \X Nat)
    BY <1>4, UnitsType
  <2>2. G = [k \in 1..(n + 1) |-> G[k]]
    OBVIOUS
  <2> HIDE DEF G
  <2> QED  BY <1>5, <2>1, <2>2
<1> HIDE DEF G
<1>7. n + 1 \in Nat \ {0}
  OBVIOUS
<1>8. PICK F \in [1..(n + 1) -> Seq(Hosts \X Nat)] :
          /\ F[1] = G[1] /\ \A i \in 2..(n + 1) : F[i] = F[i - 1] \o G[i]
          /\ FlattenSeq(G) = F[n + 1]
  <2>1. PICK N \in Nat \ {0} : N = n + 1
    BY <1>7
  <2>2. PICK V : V = Hosts \X Nat
    OBVIOUS
  <2>3. PICK H \in [1..N -> Seq(V)] : H = G
    BY <1>6, <2>1, <2>2
  <2>4. \E F : Flattens(V, N, H, F)
    BY FlattenSteps
  <2> QED  BY <2>1, <2>2, <2>3, <2>4 DEF Flattens
<1> DEFINE P == {k \in Nat : k <= n => F[k + 1] = SubSeq(Whole(h), 1, Upto(k, s))}
<1>9. 0 \in P
  <2>1. 1 \in 1..(n + 1) /\ 1 - 1 = 0
    OBVIOUS
  <2>2. F[1] = Units(h, 0, s) /\ 0 * s < length * 16
    BY <1>4, <1>5, <1>8, <2>1
  <2>3. First(0, s) = 0 /\ 0 + 1 = 1
    BY <2>2, BlocksTouch
  <2>4. Units(h, 0, s) = SubSeq(Whole(h), 1, Upto(0, s))
    BY <2>3 DEF Units
  <2> QED  BY <2>2, <2>3, <2>4
<1>10. ASSUME NEW k \in P  PROVE k + 1 \in P
  <2>0. k \in Nat /\ (k + 1) + 1 = k + 2
    OBVIOUS
  <2> SUFFICES ASSUME k + 1 <= n  PROVE F[k + 2] = SubSeq(Whole(h), 1, Upto(k + 1, s))
    BY <2>0
  <2>1. /\ k + 2 \in 2..(n + 1) /\ k + 2 \in 1..(n + 1) /\ (k + 2) - 1 = k + 1
        /\ k + 1 \in 1..(n + 1) /\ k <= n
    BY <2>0
  <2>2. F[k + 2] = F[k + 1] \o G[k + 2] /\ G[k + 2] = Units(h, k + 1, s)
    <3>1. \A i \in 2..(n + 1) : F[i] = F[i - 1] \o G[i]
      BY <1>8
    <3> HIDE DEF P
    <3> QED  BY <1>5, <2>1, <3>1
  <2>3. F[k + 1] = SubSeq(Whole(h), 1, Upto(k, s))
    BY <2>1
  <2>4. (k + 1) * s < length * 16 /\ k * s < length * 16
    <3>1. (k + 1) * s < length * 16
      BY <1>4, <2>1
    <3>2. k * s < length * 16
      <4>1. (k + 1) - 1 = k
        BY <2>0
      <4> QED  BY <1>4, <2>1, <4>1
    <3> QED  BY <3>1, <3>2
  <2>5. Upto(k, s) = First(k + 1, s) /\ Upto(k, s) \in Nat
    BY <2>0, <2>4, BlocksTouch
  <2>6. /\ Upto(k + 1, s) \in Nat /\ First(k + 1, s) < Upto(k + 1, s) /\ Upto(k + 1, s) <= length
    BY <2>0, <2>4, BlocksTouch
  <2>7. PICK a \in Nat, b \in Nat : a = Upto(k, s) /\ b = Upto(k + 1, s) /\ a <= b /\ b <= length
    BY <2>5, <2>6
  <2>8. Whole(h) \in Seq(Hosts \X Nat) /\ Len(Whole(h)) = length
    BY WholeType
  <2>9. SubSeq(Whole(h), 1, a) \o SubSeq(Whole(h), a + 1, b) = SubSeq(Whole(h), 1, b)
    BY <2>7, <2>8, PiecesTouch
  <2> QED  BY <2>2, <2>3, <2>5, <2>7, <2>9 DEF Units
<1>11. P = Nat
  <2> HIDE DEF P
  <2>1. P \in SUBSET Nat
    BY DEF P
  <2> QED  BY <1>9, <1>10, <2>1, Induction
<1>12. F[n + 1] = SubSeq(Whole(h), 1, length)
  <2>1. F[n + 1] = SubSeq(Whole(h), 1, Upto(n, s))
    <3>1. n \in P
      <4> HIDE DEF P
      <4> QED  BY <1>11
    <3> QED  BY <3>1
  <2>2. Upto(n, s) = length
    BY DEF Upto
  <2> QED  BY <2>1, <2>2
<1>13. SubSeq(Whole(h), 1, length) = Whole(h)
  <2>1. Whole(h) \in Seq(Hosts \X Nat) /\ Len(Whole(h)) = length
    BY WholeType
  <2> QED  BY <2>1
<1> QED  BY <1>3, <1>8, <1>12, <1>13

\* What is merged is a payload.
LEMMA MergedType ==
    ASSUME NEW h, NEW rs \in Seq(InternalReply)
    PROVE  Merged(rs, h) \in Payload
<1> DEFINE filled == Mine(rs, h)
           S == {rs[i].number : i \in filled}
           o == Ascending(S)
           G == [k \in DOMAIN o |-> rs[Min({i \in filled : rs[i].number = o[k]})].payload]
<1>1. Merged(rs, h) = FlattenSeq(G)
  <2>1. Merged(rs, h) = FlattenSeq([k \in DOMAIN o |->
            rs[Min({i \in filled : rs[i].number = o[k]})].payload])
    BY DEF Merged, Mine
  <2> QED  BY <2>1
<1>2. \A i \in DOMAIN rs : i \in Nat /\ rs[i].number \in Nat /\ rs[i].payload \in Seq(Hosts \X Nat)
  <2>1. \A i \in DOMAIN rs : i \in Nat /\ rs[i] \in InternalReply
    OBVIOUS
  <2> QED  BY <2>1 DEF InternalReply, Payload
<1>3. IsFiniteSet(filled) /\ filled \in SUBSET Nat
  <2>1. PICK n \in Nat : DOMAIN rs = 1..n
    OBVIOUS
  <2>2. IsFiniteSet(1..n)
    BY <2>1, FS_Interval
  <2>3. filled \in SUBSET (1..n)
    BY <2>1 DEF Mine
  <2>4. PICK D \in SUBSET (1..n) : D = filled
    BY <2>3
  <2>5. IsFiniteSet(D)
    BY <2>2, FS_Subset
  <2> HIDE DEF filled
  <2> QED  BY <2>4, <2>5
<1>4. S \in SUBSET Nat
  BY <1>2 DEF Mine
<1>5. IsFiniteSet(S)
  <2> DEFINE f == [i \in filled |-> rs[i].number]
  <2>1. f \in Surjection(filled, S)
    BY DEF Surjection
  <2>2. PICK T, g : T = S /\ g = f
    OBVIOUS
  <2>3. PICK D : D = filled
    OBVIOUS
  <2>4. IsFiniteSet(D) /\ g \in Surjection(D, T)
    <3> HIDE DEF f, filled, S
    <3> QED  BY <1>3, <2>1, <2>2, <2>3
  <2>5. IsFiniteSet(T)
    BY <2>4, FS_Surjection
  <2> HIDE DEF S
  <2> QED  BY <2>2, <2>5
<1>6. PICK N \in Nat : N = Cardinality(S) /\ o \in [1..N -> S]
  <2>1. PICK T : T = S
    OBVIOUS
  <2>2. T \in SUBSET Nat /\ IsFiniteSet(T)
    <3> HIDE DEF S
    <3> QED  BY <1>4, <1>5, <2>1
  <2>3. Cardinality(T) \in Nat /\ Ascending(T) \in [1..Cardinality(T) -> T]
    BY <2>2, AscendingOrders
  <2> HIDE DEF S
  <2> QED  BY <2>1, <2>3
<1>7. ASSUME NEW k \in 1..N  PROVE G[k] \in Seq(Hosts \X Nat)
  <2> DEFINE T == {i \in filled : rs[i].number = o[k]}
  <2>1. o[k] \in S
    <3> HIDE DEF o, S
    <3> QED  BY <1>6
  <2>2. T \in SUBSET Nat /\ T # {}
    <3> HIDE DEF o
    <3> QED  BY <1>3, <2>1
  <2>3. Min(T) \in T
    <3> HIDE DEF T
    <3> QED  BY <2>2, MinOfSome
  <2>4. Min(T) \in DOMAIN rs
    <3> HIDE DEF o
    <3> QED  BY <2>3 DEF Mine
  <2>5. k \in DOMAIN o
    <3> HIDE DEF o, S
    <3> QED  BY <1>6
  <2>6. G[k] = rs[Min(T)].payload
    <3> HIDE DEF o, filled
    <3> QED  BY <2>5
  <2> HIDE DEF G, T
  <2> QED  BY <1>2, <2>4, <2>6
<1>8. DOMAIN G = 1..N /\ G = [k \in 1..N |-> G[k]]
  <2>1. DOMAIN o = 1..N
    <3> HIDE DEF o, S
    <3> QED  BY <1>6
  <2> HIDE DEF o, filled
  <2> QED  BY <2>1
<1> HIDE DEF G
<1>9. G \in [1..N -> Seq(Hosts \X Nat)]
  BY <1>7, <1>8
<1>10. FlattenSeq(G) \in Seq(Hosts \X Nat)
  <2>1. CASE N = 0
    <3>1. G = <<>>
      BY <1>8, <2>1
    <3>2. FlattenSeq(<<>>) = <<>>
      BY DEF FlattenSeq
    <3>3. <<>> \in Seq(Hosts \X Nat)
      OBVIOUS
    <3> QED  BY <3>1, <3>2, <3>3
  <2>2. CASE N # 0
    <3>1. PICK V : V = Hosts \X Nat
      OBVIOUS
    <3>2. PICK H \in [1..N -> Seq(V)] : H = G
      BY <1>9, <3>1
    <3>3. \E F : Flattens(V, N, H, F)
      <4>1. N \in Nat \ {0}
        BY <2>2
      <4> QED  BY <4>1, FlattenSteps
    <3>4. FlattenSeq(H) \in Seq(V)
      BY <2>2, <3>3 DEF Flattens
    <3> QED  BY <3>1, <3>2, <3>4
  <2> QED  BY <2>1, <2>2
<1> QED  BY <1>1, <1>10 DEF Payload

(***************************************************************************)
(* Sizes.  All answers to a request are cut in one size, which is what     *)
(* makes the numbers of the blocks agree.                                  *)
(***************************************************************************)

\* What is read from any value of a Block option is a number.
LEMMA ReadNumbers ==
    ASSUME NEW v \in Block
    PROVE  /\ NextBlockToSend(v) \in Nat
           /\ v # NoOption => BlockNumber(v) \in Nat /\ BlockSize(v) \in Nat
<1>1. CASE v = NoOption
  BY <1>1 DEF NextBlockToSend
<1>2. CASE v # NoOption
  <2>1. v \in Seq(Byte) /\ Len(v) \in Nat \ {0}
    BY <1>2, EmptySeq DEF Block, NoOption
  <2>2. v[Len(v)] \in Byte /\ \A i \in 1..Len(v) : v[i] \in Byte
    BY <2>1
  <2>3. PICK b \in 0..255 : b = LastByte(v)
    BY <2>2 DEF LastByte, Byte
  <2>4. PICK c \in Nat : c = IF Len(v) = 3 THEN v[1] * 4096 + v[2] * 16
                             ELSE IF Len(v) = 2 THEN v[1] * 16 ELSE 0
    <3>1. CASE Len(v) = 3
      <4>1. v[1] \in Nat /\ v[2] \in Nat
        BY <2>2, <3>1 DEF Byte
      <4> QED  BY <3>1, <4>1
    <3>2. CASE Len(v) = 2
      <4>1. v[1] \in Nat
        BY <2>2, <3>2 DEF Byte
      <4> QED  BY <3>2, <4>1
    <3>3. CASE Len(v) # 3 /\ Len(v) # 2
      BY <3>3
    <3> QED  BY <3>1, <3>2, <3>3
  <2>5. b \div 16 \in Nat /\ b % 8 \in 0..7
    BY SMT
  <2>6. BlockNumber(v) \in Nat
    BY <2>3, <2>4, <2>5 DEF BlockNumber
  <2>7. BlockSize(v) \in Nat
    BY <2>3, <2>5 DEF BlockSize
  <2> QED  BY <1>2, <2>6, <2>7 DEF NextBlockToSend
<1> QED  BY <1>1, <1>2

\* The least of two numbers.
LEMMA MinOfTwo ==
    ASSUME NEW a \in Nat, NEW b \in Nat
    PROVE  Min({a, b}) = IF a <= b THEN a ELSE b
<1> DEFINE S == {a, b}
           m == IF a <= b THEN a ELSE b
<1>1. m \in S /\ (\A y \in S : m <= y) /\ \A x \in S : (\A y \in S : x <= y) => x = m
  OBVIOUS
<1>2. Min(S) = CHOOSE x \in S : \A y \in S : x <= y
  BY DEF Min
<1> HIDE DEF S, m
<1>3. Min(S) = m
  BY <1>1, <1>2
<1> QED  BY <1>3 DEF S, m

\* The size of the blocks that answer a request.
LEMMA ServedSize ==
    ASSUME NEW q, Readable(q.block2)
    PROVE  /\ Served(q) \in BlockSizes /\ Served(q) <= ServerSize /\ Served(q) \in Nat
           /\ q.block2 # NoOption /\ BlockSize(q.block2) <= ServerSize
                => Served(q) = BlockSize(q.block2)
<1>1. ServerSize \in BlockSizes /\ \A x \in BlockSizes : x \in Nat
  BY SizeAssumption DEF BlockSizes
<1>2. CASE q.block2 = NoOption
  BY <1>1, <1>2 DEF Served
<1>3. CASE q.block2 # NoOption
  <2>1. PICK t \in BlockSizes : t = BlockSize(q.block2)
    BY <1>3 DEF Readable
  <2>2. Served(q) = IF ServerSize <= t THEN ServerSize ELSE t
    BY <1>1, <1>3, <2>1, MinOfTwo DEF Served
  <2> QED  BY <1>1, <2>1, <2>2
<1> QED  BY <1>2, <1>3

\* A request that is answered in blocks of s bytes, for a block there is.
SizedRequest(q, s) ==
    /\ Readable(q.block2) /\ Served(q) = s /\ Asks(q) * s < length * 16
    /\ mode # "multicast" => q.to = Server
    /\ upload = 0 => q.block1 = NoOption
    /\ q.payload \in SUBSET (1..upload)

\* A frame that carries a block of the content, in blocks of s bytes.
IsContent(f, s) ==
    /\ Asks(f) \in BlockNumbers /\ Asks(f) * s < length * 16
    /\ f.payload = Units(f.from, Asks(f), s)
    /\ IF f.block2 = NoOption THEN length * 16 <= s
       ELSE /\ HasNextBlock(f.block2) <=> (Asks(f) + 1) * s < length * 16
            /\ BlockSize(f.block2) = s

SizedFrame(f, s) ==
    /\ mode # "multicast" => f.from = Server
    /\ upload = 0 => f.block1 = NoOption
    /\ ~f.error => IF NextBlockToSend(f.block1) > 0 THEN f.payload = <<>> /\ f.block2 = NoOption
                   ELSE IsContent(f, s)

SizeInv ==
    /\ stage = "idle" => /\ wire = {} /\ frames = {} /\ replies = <<>> /\ handed = {}
                         /\ request.block1 = NoOption /\ request.block2 = NoOption
    /\ SizedRequest(request, Served(request))
    /\ \A q \in wire : SizedRequest(q, Served(request))
    /\ \A f \in frames : SizedFrame(f, Served(request))

\* What never changes.
Fixed == mode' = mode /\ upload' = upload /\ length' = length

\* What the transfer is, which never changes.
LEMMA Constants ==
    ASSUME TypeOK
    PROVE  /\ mode \in {"plain", "observe", "multicast"} /\ upload \in Nat /\ length \in Nat \ {0}
           /\ upload > 0 => mode = "plain"
           /\ ServerSize \in BlockSizes /\ ServerSize \in Nat
<1>1. PICK t \in Transfers : mode = t.mode /\ upload = t.upload /\ length = t.length
  BY DEF TypeOK
<1>2. t \in [mode : {"plain", "observe", "multicast"}, upload : Nat, length : Nat \ {0}]
      /\ (t.upload > 0 => t.mode = "plain")
  BY TransferAssumption
<1>3. ServerSize \in BlockSizes /\ ServerSize \in Nat
  BY SizeAssumption DEF BlockSizes
<1> QED  BY <1>1, <1>2, <1>3

\* Whether a request or a frame is sized is a matter of what never changes.
LEMMA StaysSized ==
    ASSUME Fixed
    PROVE  /\ \A q, s : SizedRequest(q, s) => SizedRequest(q, s)'
           /\ \A f, s : SizedFrame(f, s) => SizedFrame(f, s)'
<1>1. ASSUME NEW q, NEW s, SizedRequest(q, s)  PROVE SizedRequest(q, s)'
  BY <1>1 DEF Fixed, SizedRequest, Readable, Served, Asks
<1>2. ASSUME NEW h, NEW n, NEW s  PROVE Units(h, n, s)' = Units(h, n, s)
  BY DEF Fixed, Units, Whole, Upto, First
<1>3. ASSUME NEW f, NEW s, SizedFrame(f, s)  PROVE SizedFrame(f, s)'
  <2>1. Asks(f)' = Asks(f)
    BY DEF Asks
  <2>2. IsContent(f, s) => IsContent(f, s)'
    BY <1>2, <2>1 DEF Fixed, IsContent
  <2> QED  BY <1>3, <2>2 DEF Fixed, SizedFrame
<1> QED  BY <1>1, <1>3

\* What a request becomes that asks for block n in blocks of t bytes.
LEMMA AsksForBlock ==
    ASSUME NEW q \in Request, NEW n \in BlockNumbers, NEW t \in BlockSizes,
           NEW p, p = SetToRequestBlock(q, n, t)
    PROVE  /\ p \in Request /\ Readable(p.block2) /\ Asks(p) = n
           /\ p.block1 = NoOption /\ p.mid = q.mid /\ p.to = q.to /\ p.payload = q.payload
           /\ p.block2 # NoOption /\ BlockSize(p.block2) = t
<1>1. PICK v : v = BlockOption(n, t, FALSE)
  OBVIOUS
<1>2. v \in Seq(Byte) /\ Len(v) \in 1..3 /\ BlockNumber(v) = n /\ BlockSize(v) = t
  BY <1>1, BlockOptionDecodes
<1>3. v # NoOption /\ Readable(v)
  BY <1>1, WrittenIsReadable
<1>4. p = [q EXCEPT !.block1 = NoOption, !.block2 = v]
  BY <1>1 DEF SetToRequestBlock, CheckBlockNumber
<1>5. NoOption \in Seq(Byte)
  BY DEF NoOption
<1>6. /\ p \in Request /\ p.block1 = NoOption /\ p.block2 = v
      /\ p.mid = q.mid /\ p.to = q.to /\ p.payload = q.payload
  BY <1>2, <1>4, <1>5 DEF Request, Block
<1> QED  BY <1>2, <1>3, <1>6 DEF Asks

\* What a request becomes that carries block n of the payload.  A size of 0 is written
\* as the smallest one.
LEMMA CarriesBlock ==
    ASSUME NEW q \in Request, NEW n \in BlockNumbers, IsBlockSize(size), upload \in Nat \ {0},
           NEW p, p = SetToSendBlock(q, n, size)
    PROVE  /\ p \in Request /\ p.block2 = q.block2 /\ p.mid = q.mid /\ p.to = q.to
           /\ p.payload = Slice(n, size, upload)
           /\ p.block1 # NoOption /\ BlockNumber(p.block1) = n
           /\ HasNextBlock(p.block1) <=> (n + 1) * size < upload * 16
           /\ size > 0 => BlockSize(p.block1) = size
           /\ \E a, b \in Nat : p.payload = a..b
           /\ p.payload \in SUBSET (1..upload)
<1>1. PICK m \in BOOLEAN : m <=> (n + 1) * size < upload * 16
  OBVIOUS
<1>2. PICK v : v = BlockOption(n, size, m)
  OBVIOUS
<1>3. v = BlockOption(n, IF size = 0 THEN 16 ELSE size, m)
  <2>1. CASE size = 0
    <3>1. SizeBits(0) = SizeBits(16)
      BY SMT DEF SizeBits
    <3> QED  BY <1>2, <2>1, <3>1 DEF BlockOption
  <2>2. CASE size # 0
    BY <1>2, <2>2
  <2> QED  BY <2>1, <2>2
<1>4. PICK t \in BlockSizes : t = IF size = 0 THEN 16 ELSE size
  BY DEF IsBlockSize, BlockSizes
<1>5. v = BlockOption(n, t, m)
  BY <1>3, <1>4
<1>6. /\ v \in Seq(Byte) /\ BlockNumber(v) = n /\ (HasNextBlock(v) <=> m) /\ BlockSize(v) = t
  BY <1>5, BlockOptionDecodes
<1>7. v # NoOption
  BY <1>5, WrittenIsReadable
<1>8. p = [q EXCEPT !.payload = Slice(n, size, upload), !.block1 = v]
  <2>1. BlockOption(n, size, (n + 1) * size < upload * 16) = v
    <3>1. ((n + 1) * size < upload * 16) = m
      BY <1>1
    <3> QED  BY <1>2, <3>1
  <2> QED  BY <2>1 DEF SetToSendBlock, CheckBlockNumber
<1>9. size \in Nat /\ n \in Nat
  BY DEF IsBlockSize, BlockSizes, BlockNumbers
<1>10. PICK a \in Nat, b \in Nat : Slice(n, size, upload) = a..b
  BY <1>9, SliceIsInterval
<1>11. Slice(n, size, upload) \in SUBSET (1..upload)
  <2>1. PICK x \in Nat, y \in Nat : x = n * size /\ y = (n + 1) * size
    BY <1>9
  <2>2. x \div 16 + 1 >= 1 /\ x \div 16 \in Nat /\ (y < upload * 16 => y \div 16 <= upload)
        /\ y \div 16 \in Nat
    BY <2>1, SMT
  <2>3. Slice(n, size, upload)
          = x \div 16 + 1 .. IF y < upload * 16 THEN y \div 16 ELSE upload
    BY <2>1 DEF Slice
  <2> QED  BY <2>2, <2>3
<1>12. a..b \in SUBSET Nat
  OBVIOUS
<1>13. /\ p \in Request /\ p.block1 = v /\ p.block2 = q.block2
       /\ p.mid = q.mid /\ p.to = q.to /\ p.payload = Slice(n, size, upload)
  BY <1>6, <1>8, <1>10, <1>12 DEF Request, Block
<1>14. size > 0 => t = size
  BY <1>4
<1> QED  BY <1>1, <1>6, <1>7, <1>10, <1>11, <1>13, <1>14

\* A request that is sent gets an id and, on the wire, its receiver.
LEMMA SentTyped ==
    ASSUME TypeOK, NEW q \in Request, NEW host \in Hosts \cup {Group}, SendTo(q, host),
           NEW s, SizedRequest(q, s), mode # "multicast" => host = Server
    PROVE  /\ request' \in Request /\ wire' \subseteq Request
           /\ SizedRequest(request', s) /\ Served(request') = s
           /\ \E p \in Request :
                 /\ wire' = wire \cup {p} /\ SizedRequest(p, s)
                 /\ p.mid = request.mid + 1 /\ p.to = host /\ p.block1 = q.block1
                 /\ p.block2 = q.block2 /\ p.payload = q.payload
           /\ request'.mid = request.mid + 1 /\ request'.to = q.to /\ request'.block1 = q.block1
           /\ request'.block2 = q.block2 /\ request'.payload = q.payload
<1>1. PICK m \in Nat : m = request.mid + 1
  BY DEF TypeOK, Request
<1>2. PICK r : r = [q EXCEPT !.mid = m]
  OBVIOUS
<1>3. PICK p : p = [r EXCEPT !.to = host]
  OBVIOUS
<1>4. request' = r /\ wire' = wire \cup {p}
  BY <1>1, <1>2, <1>3 DEF SendTo
<1>5. /\ r \in Request /\ r.mid = m /\ r.to = q.to /\ r.block1 = q.block1
      /\ r.block2 = q.block2 /\ r.payload = q.payload
  BY <1>2 DEF Request
<1>6. /\ p \in Request /\ p.mid = m /\ p.to = host /\ p.block1 = q.block1
      /\ p.block2 = q.block2 /\ p.payload = q.payload
  BY <1>3, <1>5 DEF Request
<1>7. SizedRequest(r, s) /\ SizedRequest(p, s) /\ Served(r) = s
  <2>1. Served(r) = Served(q) /\ Served(p) = Served(q) /\ Asks(r) = Asks(q) /\ Asks(p) = Asks(q)
    BY <1>5, <1>6 DEF Served, Asks
  <2> QED  BY <1>5, <1>6, <2>1 DEF SizedRequest
<1>8. wire' \subseteq Request
  BY <1>4, <1>6 DEF TypeOK
<1> QED  BY <1>1, <1>4, <1>5, <1>6, <1>7, <1>8

\* The greatest of a number and of units of the payload.
LEMMA MaxOfUnits ==
    ASSUME NEW r \in Nat, NEW n \in Nat, NEW U \in SUBSET (1..n)
    PROVE  /\ Max({r} \cup U) \in {r} \cup U /\ Max({r} \cup U) \in Nat
           /\ \A y \in {r} \cup U : y <= Max({r} \cup U)
<1> DEFINE S == {r} \cup U
           bounds == {m \in Nat : \A y \in S : y <= m}
<1>1. S \in SUBSET Nat /\ bounds \in SUBSET Nat /\ r + n \in bounds
  OBVIOUS
<1>2. PICK m \in bounds : \A b \in bounds : m <= b
  <2> HIDE DEF bounds
  <2> QED  BY <1>1, LeastNumber
<1>3. m \in S
  <2> SUFFICES ASSUME m \notin S  PROVE FALSE
    OBVIOUS
  <2>1. m \in Nat /\ r <= m /\ r # m /\ r \in Nat
    BY <1>2
  <2>2. m - 1 \in Nat
    BY <2>1
  <2>3. \A y \in S : y <= m - 1
    <3> TAKE y \in S
    <3>1. y <= m /\ y # m /\ y \in Nat
      BY <1>1, <1>2
    <3> HIDE DEF S
    <3> QED  BY <2>1, <3>1
  <2>4. m - 1 \in bounds
    BY <2>2, <2>3
  <2>5. m <= m - 1
    BY <1>2, <2>4
  <2> QED  BY <2>1, <2>5
<1>4. \E x \in S : \A y \in S : x >= y
  <2>1. \A y \in S : m >= y
    BY <1>2
  <2> QED  BY <1>3, <2>1
<1> HIDE DEF S
<1>5. Max(S) \in S /\ \A y \in S : Max(S) >= y
  BY <1>4 DEF Max
<1>6. \A y \in S : y \in Nat
  BY <1>1
<1> QED  BY <1>5, <1>6 DEF S

\* What is decoded from a frame is a reply.
LEMMA DecodedType ==
    ASSUME NEW f \in Frame
    PROVE  Decoded(f) \in InternalReply
<1>1. /\ f.from \in Hosts /\ f.error \in BOOLEAN /\ f.payload \in Payload
      /\ f.block1 \in Block /\ f.block2 \in Block
  BY DEF Frame
<1>2. NextBlockToSend(f.block1) \in Nat
  BY <1>1, ReadNumbers
<1>3. f.block2 # NoOption => BlockNumber(f.block2) \in Nat /\ BlockSize(f.block2) \in Nat
  BY <1>1, ReadNumbers
<1>4. (f.block2 # NoOption /\ HasNextBlock(f.block2)) \in BOOLEAN
  BY DEF HasNextBlock
<1> QED  BY <1>1, <1>2, <1>3, <1>4 DEF Decoded, InternalReply

\* The replies with the one that is decoded from a frame.
LEMMA ReplyAdded ==
    ASSUME TypeOK, NEW f \in frames
    PROVE  /\ Append(replies, Decoded(f)) \in Seq(InternalReply)
           /\ Len(Append(replies, Decoded(f))) = Len(replies) + 1
           /\ Len(replies) \in Nat
<1>1. f \in Frame /\ replies \in Seq(InternalReply)
  BY DEF TypeOK
<1>2. PICK d \in InternalReply : d = Decoded(f)
  BY <1>1, DecodedType
<1> QED  BY <1>1, <1>2

\* The frame with the block that a request asks for.
LEMMA ContentSized ==
    ASSUME TypeOK, NEW q \in Request, NEW s, SizedRequest(q, s), NEW h \in Hosts,
           mode # "multicast" => h = Server, ~ NextBlockToSend(q.block1) > 0,
           NEW f, f = ContentFrame(q, h)
    PROVE  /\ f \in Frame /\ SizedFrame(f, s) /\ IsContent(f, s)
           /\ f.from = h /\ ~f.error /\ f.block1 = q.block1 /\ Asks(f) = Asks(q)
<1>1. s \in BlockSizes /\ s = Served(q) /\ s \in Nat
  BY ServedSize DEF SizedRequest
<1>2. Asks(q) \in BlockNumbers /\ Asks(q) \in Nat
  BY DEF SizedRequest, Readable, Asks, BlockNumbers
<1>3. PICK n \in BlockNumbers : n = Asks(q) /\ n \in Nat
  BY <1>2
<1>4. n * s < length * 16 /\ length \in Nat \ {0}
  BY <1>3, Constants DEF SizedRequest
<1>5. PICK m \in BOOLEAN : m <=> (n + 1) * s < length * 16
  OBVIOUS
<1>6. PICK u : u = Units(h, n, s)
  OBVIOUS
<1>7. u \in Payload
  BY <1>1, <1>3, <1>4, <1>6, UnitsType DEF Payload
<1>8. PICK v : v = BlockOption(n, s, m)
  OBVIOUS
<1>9. v \in Block /\ BlockNumber(v) = n /\ (HasNextBlock(v) <=> m) /\ BlockSize(v) = s
  BY <1>1, <1>8, BlockOptionDecodes DEF Block
<1>10. v # NoOption
  BY <1>1, <1>8, WrittenIsReadable
<1>11. PICK w : w = IF q.block2 = NoOption /\ length * 16 <= s THEN NoOption ELSE v
  OBVIOUS
<1>12. f = [mid |-> q.mid, from |-> h, error |-> FALSE, block1 |-> q.block1,
            block2 |-> w, payload |-> u]
  <2> DEFINE t == IF q.block2 = NoOption THEN ServerSize
                  ELSE Min({ServerSize, BlockSize(q.block2)})
             k == IF q.block2 = NoOption THEN 0 ELSE BlockNumber(q.block2)
  <2>1. t = s /\ k = n
    BY <1>1, <1>3 DEF Served, Asks
  <2>2. ContentFrame(q, h) =
          [mid |-> q.mid, from |-> h, error |-> FALSE, block1 |-> q.block1,
           block2 |-> IF q.block2 = NoOption /\ length * 16 <= t THEN NoOption
                      ELSE BlockOption(k, t, (k + 1) * t < length * 16),
           payload |-> SubSeq(Whole(h), (k * t) \div 16 + 1,
                              (k * t) \div 16 + Cardinality(Slice(k, t, length)))]
    BY DEF ContentFrame
  <2> HIDE DEF t, k
  <2>3. BlockOption(n, s, (n + 1) * s < length * 16) = v
    <3>1. ((n + 1) * s < length * 16) = m
      BY <1>5
    <3> QED  BY <1>8, <3>1
  <2>4. SubSeq(Whole(h), (n * s) \div 16 + 1,
               (n * s) \div 16 + Cardinality(Slice(n, s, length))) = u
    BY <1>1, <1>3, <1>4, <1>6, ServerCuts
  <2> QED  BY <1>11, <2>1, <2>2, <2>3, <2>4
<1>13. /\ f.mid = q.mid /\ f.from = h /\ f.error = FALSE /\ f.block1 = q.block1
       /\ f.block2 = w /\ f.payload = u
  BY <1>12
<1>14. w \in Block
  BY <1>9, <1>11 DEF Block, NoOption
<1>15. f \in Frame
  <2>1. q.mid \in Nat /\ q.block1 \in Block
    BY DEF Request
  <2> QED  BY <1>7, <1>12, <1>14, <2>1 DEF Frame
<1>16. Asks(f) = n
  <2>1. CASE w = NoOption
    BY <1>3, <1>10, <1>11, <1>13, <2>1 DEF Asks
  <2>2. CASE w # NoOption
    BY <1>9, <1>11, <1>13, <2>2 DEF Asks
  <2> QED  BY <2>1, <2>2
<1>17. IsContent(f, s)
  <2>1. CASE w = NoOption
    <3>1. length * 16 <= s
      BY <1>10, <1>11, <2>1
    <3> QED  BY <1>4, <1>6, <1>13, <1>16, <2>1, <3>1 DEF IsContent
  <2>2. CASE w # NoOption
    <3>1. w = v
      BY <1>11, <2>2
    <3>2. HasNextBlock(f.block2) <=> (Asks(f) + 1) * s < length * 16
      BY <1>5, <1>9, <1>13, <1>16, <3>1
    <3> QED  BY <1>4, <1>6, <1>9, <1>13, <1>16, <2>2, <3>1, <3>2 DEF IsContent
  <2> QED  BY <2>1, <2>2
<1>18. SizedFrame(f, s)
  BY <1>13, <1>17 DEF SizedFrame, SizedRequest
<1> QED  BY <1>3, <1>13, <1>15, <1>16, <1>17, <1>18

\* A frame that answers a request: one with content carries the block that was asked for,
\* and what the request carried has been taken.
AnswersWith(f, q, h) ==
    /\ f.from = h /\ SizedFrame(f, Served(request))
    /\ ~f.error /\ ~ (NextBlockToSend(f.block1) > 0) =>
         /\ Asks(f) = Asks(q) /\ ~ (NextBlockToSend(q.block1) > 0)
         /\ q.block1 # NoOption => BlockStart(q) <= received[h]
         /\ received' = [received EXCEPT ![h] = Max({received[h]} \cup q.payload)]

\* What answering a request does.
LEMMA AnswerSteps ==
    ASSUME TypeOK, SizeInv, NEW q \in wire, NEW h \in Hosts, Answer(q, h)
    PROVE  /\ Fixed /\ UNCHANGED client /\ stage = "running" /\ q.to \in {h, Group}
           /\ mode # "multicast" => h = Server
           /\ answered' = [answered EXCEPT ![h] = @ \cup {q.mid}]
           /\ repeats' \in Nat /\ repeats' <= MaxRepeats /\ repeats <= repeats'
           /\ repeats' = 0 => q.mid \notin answered[h]
           /\ \/ received' = received
              \/ received' = [received EXCEPT ![h] = Max({received[h]} \cup q.payload)]
           /\ \E f \in Frame : frames' = frames \cup {f} /\ AnswersWith(f, q, h)
<1>1. /\ UNCHANGED client /\ stage = "running" /\ q.to \in {h, Group}
      /\ answered' = [answered EXCEPT ![h] = @ \cup {q.mid}]
      /\ Counted(q.mid \in answered[h])
  BY DEF Answer
<1>2. Fixed
  BY <1>1 DEF client, Fixed
<1>3. q \in Request /\ SizedRequest(q, Served(request)) /\ repeats \in 0..MaxRepeats
      /\ MaxRepeats \in Nat
  BY BoundAssumption DEF TypeOK, SizeInv
<1>4. mode # "multicast" => h = Server
  BY <1>1, <1>3, HostAssumption DEF SizedRequest
<1>5. /\ repeats' \in Nat /\ repeats' <= MaxRepeats /\ repeats <= repeats'
      /\ repeats' = 0 => q.mid \notin answered[h]
  BY <1>1, <1>3 DEF Counted
<1>6. \/ received' = received
      \/ received' = [received EXCEPT ![h] = Max({received[h]} \cup q.payload)]
  BY DEF Answer, Take, Refuse
<1>7. \E f \in Frame : frames' = frames \cup {f} /\ AnswersWith(f, q, h)
  <2>0. q.mid \in Nat /\ q.block1 \in Block /\ NoOption \in Block /\ <<>> \in Payload
    BY <1>3 DEF Request, Block, Payload, NoOption
  <2>1. CASE Refuse(q, h)
    <3>1. PICK f : f = [mid |-> q.mid, from |-> h, error |-> TRUE, block1 |-> NoOption,
                        block2 |-> NoOption, payload |-> <<>>]
      OBVIOUS
    <3>2. f \in Frame /\ f.from = h /\ f.error = TRUE /\ f.block1 = NoOption
      BY <2>0, <3>1 DEF Frame
    <3>3. SizedFrame(f, Served(request))
      BY <1>4, <3>2 DEF SizedFrame
    <3>4. frames' = frames \cup {f}
      BY <2>1, <3>1 DEF Refuse
    <3> QED  BY <3>2, <3>3, <3>4 DEF AnswersWith
  <2>2. CASE Take(q, h) /\ NextBlockToSend(q.block1) > 0
    <3>1. PICK f : f = [mid |-> q.mid, from |-> h, error |-> FALSE, block1 |-> q.block1,
                        block2 |-> NoOption, payload |-> <<>>]
      OBVIOUS
    <3>2. /\ f \in Frame /\ f.from = h /\ f.block1 = q.block1
          /\ f.block2 = NoOption /\ f.payload = <<>>
      BY <2>0, <3>1 DEF Frame
    <3>3. SizedFrame(f, Served(request))
      BY <1>3, <1>4, <2>2, <3>2 DEF SizedFrame, SizedRequest
    <3>4. frames' = frames \cup {f}
      BY <2>2, <3>1 DEF Take
    <3> QED  BY <2>2, <3>2, <3>3, <3>4 DEF AnswersWith
  <2>3. CASE Take(q, h) /\ ~ NextBlockToSend(q.block1) > 0
    <3>1. PICK f : f = ContentFrame(q, h)
      OBVIOUS
    <3>2. /\ frames' = frames \cup {f}
          /\ received' = [received EXCEPT ![h] = Max({received[h]} \cup q.payload)]
          /\ q.block1 # NoOption => BlockStart(q) <= received[h]
      BY <2>3, <3>1 DEF Take
    <3>3. f \in Frame /\ SizedFrame(f, Served(request)) /\ f.from = h /\ Asks(f) = Asks(q)
      <4>1. PICK s : s = Served(request)
        OBVIOUS
      <4>2. SizedRequest(q, s)
        BY <1>3, <4>1
      <4>3. f \in Frame /\ SizedFrame(f, s) /\ f.from = h /\ Asks(f) = Asks(q)
        BY <1>3, <1>4, <2>3, <3>1, <4>2, ContentSized
      <4> QED  BY <4>1, <4>3
    <3> QED  BY <2>3, <3>2, <3>3 DEF AnswersWith
  <2> QED  BY <2>1, <2>2, <2>3 DEF Answer
<1> QED  BY <1>1, <1>2, <1>4, <1>5, <1>6, <1>7

\* What a frame that arrives does: it fails the transfer, sends a block, asks for one or
\* ends the content.
LEMMA DeliverSteps ==
    ASSUME TypeOK, SizeInv, NEW f \in frames, Deliver(f)
    PROVE  /\ Fixed /\ size' = size /\ stage = "running" /\ stage' \in {"running", "done", "failed"}
           /\ answered' = answered /\ received' = received
           /\ frames' \subseteq frames /\ repeats' \in Nat /\ repeats' <= MaxRepeats
           /\ repeats <= repeats' /\ (repeats' = 0 => frames' = frames \ {f})
           /\ \/ /\ f.error /\ stage' = "failed" /\ replies' = <<>>
                 /\ UNCHANGED <<request, wire, handed>>
              \/ /\ ~f.error /\ NextBlockToSend(f.block1) > 0 /\ upload > 0
                 /\ f.payload = <<>> /\ UNCHANGED <<stage, handed>>
                 /\ SendTo(SetToSendBlock(request, NextBlockToSend(f.block1), size), request.to)
                 /\ replies' = Append(replies, Decoded(f))
              \/ /\ ~f.error /\ NextBlockToSend(f.block1) = 0 /\ IsContent(f, Served(request))
                 /\ (Asks(f) + 1) * Served(request) < length * 16
                 /\ SendTo(SetToRequestBlock(request, Asks(f) + 1, Served(request)), f.from)
                 /\ replies' = Append(replies, Decoded(f)) /\ UNCHANGED <<stage, handed>>
              \/ /\ ~f.error /\ NextBlockToSend(f.block1) = 0 /\ IsContent(f, Served(request))
                 /\ ~ (Asks(f) + 1) * Served(request) < length * 16
                 /\ OnLastMessage(Append(replies, Decoded(f)), f.from)
<1>1. /\ Fixed /\ size' = size /\ stage = "running" /\ stage' \in {"running", "done", "failed"}
      /\ answered' = answered /\ received' = received
  BY DEF Deliver, OnFrameReceived, OnLastMessage, Fixed
<1>2. f \in Frame /\ SizedFrame(f, Served(request)) /\ repeats \in 0..MaxRepeats
      /\ MaxRepeats \in Nat
  BY BoundAssumption DEF TypeOK, SizeInv
<1>3. frames' \subseteq frames /\ repeats' \in Nat /\ repeats' <= MaxRepeats
      /\ repeats <= repeats' /\ (repeats' = 0 => frames' = frames \ {f})
  BY <1>2 DEF Deliver, Counted
<1>4. PICK next \in Nat : next = NextBlockToSend(f.block1)
  BY <1>2, ReadNumbers DEF Frame
<1>5. PICK n, more : n = Asks(f) /\ more = (f.block2 # NoOption /\ HasNextBlock(f.block2))
  OBVIOUS
<1>6. /\ Decoded(f).error = f.error /\ Decoded(f).next = next /\ Decoded(f).from = f.from
      /\ Decoded(f).number = n /\ Decoded(f).more = more
      /\ Decoded(f).size = IF f.block2 = NoOption THEN 0 ELSE BlockSize(f.block2)
  BY <1>4, <1>5 DEF Decoded, Asks
<1>7. PICK s : s = Served(request)
  OBVIOUS
<1>8. ASSUME ~f.error, next = 0
      PROVE  /\ IsContent(f, s)
             /\ more => (n + 1) * s < length * 16 /\ BlockSize(f.block2) = s
             /\ ~more => ~ (n + 1) * s < length * 16
  <2>1. IsContent(f, s)
    BY <1>2, <1>4, <1>7, <1>8 DEF SizedFrame
  <2>2. CASE f.block2 # NoOption
    BY <1>5, <2>1, <2>2 DEF IsContent
  <2>3. CASE f.block2 = NoOption
    <3>1. n = 0 /\ ~more /\ length * 16 <= s
      BY <1>5, <2>1, <2>3 DEF IsContent, Asks
    <3>2. s \in Nat /\ length \in Nat
      BY <1>7, ServedSize, Constants DEF SizeInv, SizedRequest
    <3>3. ~ (n + 1) * s < length * 16
      BY <3>1, <3>2
    <3> QED  BY <2>1, <3>1, <3>3
  <2> QED  BY <2>2, <2>3
<1>9. CASE Decoded(f).error /\ stage' = "failed" /\ replies' = <<>>
           /\ UNCHANGED <<request, wire, handed>>
  BY <1>1, <1>3, <1>6, <1>9
<1>10. CASE /\ ~Decoded(f).error /\ Decoded(f).next > 0
            /\ SendTo(SetToSendBlock(request, Decoded(f).next, size), request.to)
            /\ replies' = Append(replies, Decoded(f)) /\ UNCHANGED <<stage, handed>>
  <2>1. f.payload = <<>> /\ ~f.error /\ next > 0
    BY <1>2, <1>4, <1>6, <1>10 DEF SizedFrame
  <2>2. upload > 0
    <3>1. f.block1 # NoOption
      BY <1>4, <2>1 DEF NextBlockToSend
    <3>2. upload # 0 /\ upload \in Nat
      BY <1>2, <3>1, Constants DEF SizedFrame
    <3> QED  BY <3>2
  <2> QED  BY <1>1, <1>3, <1>4, <1>6, <1>10, <2>1, <2>2
<1>11. CASE /\ ~Decoded(f).error /\ Decoded(f).next = 0 /\ Decoded(f).more
            /\ SendTo(SetToRequestBlock(request, Decoded(f).number + 1, Decoded(f).size),
                      Decoded(f).from)
            /\ replies' = Append(replies, Decoded(f)) /\ UNCHANGED <<stage, handed>>
  <2>1. ~f.error /\ next = 0 /\ more /\ f.block2 # NoOption
    BY <1>5, <1>6, <1>11
  <2>2. IsContent(f, s) /\ (n + 1) * s < length * 16 /\ Decoded(f).size = s
    BY <1>6, <1>8, <2>1
  <2>3. SendTo(SetToRequestBlock(request, n + 1, s), f.from)
    BY <1>6, <1>11, <2>2
  <2> QED  BY <1>1, <1>3, <1>4, <1>5, <1>7, <1>11, <2>1, <2>2, <2>3
<1>12. CASE /\ ~Decoded(f).error /\ Decoded(f).next = 0 /\ ~Decoded(f).more
            /\ OnLastMessage(Append(replies, Decoded(f)), Decoded(f).from)
  <2>1. ~f.error /\ next = 0 /\ ~more
    BY <1>6, <1>12
  <2>2. IsContent(f, s) /\ ~ (n + 1) * s < length * 16
    BY <1>8, <2>1
  <2> QED  BY <1>1, <1>3, <1>4, <1>5, <1>6, <1>7, <1>12, <2>1, <2>2
<1> QED
  BY <1>9, <1>10, <1>11, <1>12 DEF Deliver, OnFrameReceived

\* The sizes are inductive together with the types.
StaticInv == TypeOK /\ SizeInv

\* Before the request is sent, its payload is whole and nothing is on its way.
LEMMA StaticInit == Init => StaticInv
<1> SUFFICES ASSUME Init  PROVE StaticInv
  OBVIOUS
<1>1. PICK t \in Transfers : mode = t.mode /\ upload = t.upload /\ length = t.length
  BY DEF Init
<1>2. t \in [mode : {"plain", "observe", "multicast"}, upload : Nat, length : Nat \ {0}]
  BY TransferAssumption
<1>3. [mode |-> mode, upload |-> upload, length |-> length] = t
  BY <1>1, <1>2
<1>4. upload \in Nat /\ length \in Nat \ {0}
  BY <1>1, <1>2
<1>5. request = [mid |-> 0, to |-> IF mode = "multicast" THEN Group ELSE Server,
                 block1 |-> NoOption, block2 |-> NoOption, payload |-> 1..upload]
  BY DEF Init
<1>6. request \in Request
  <2>1. 1..upload \in SUBSET Nat /\ NoOption \in Seq(Byte)
    BY <1>4 DEF NoOption
  <2> QED  BY <1>5, <2>1, HostAssumption DEF Request, Block
<1>7. 0 \in 0..MaxRepeats /\ <<>> \in Seq(InternalReply)
  BY BoundAssumption
<1>8. TypeOK
  BY <1>1, <1>3, <1>6, <1>7 DEF Init, TypeOK
<1>9. SizedRequest(request, Served(request))
  <2>1. Readable(request.block2) /\ Asks(request) = 0 /\ request.payload = 1..upload
        /\ request.block1 = NoOption /\ (mode # "multicast" => request.to = Server)
    BY <1>5 DEF Readable, Asks
  <2>2. Served(request) \in Nat
    BY <2>1, ServedSize
  <2>3. Asks(request) * Served(request) < length * 16
    BY <1>4, <2>1, <2>2
  <2> QED  BY <2>1, <2>3 DEF SizedRequest
<1>10. wire = {} /\ frames = {} /\ replies = <<>> /\ handed = {}
       /\ request.block1 = NoOption /\ request.block2 = NoOption
  BY <1>5 DEF Init
<1> QED  BY <1>8, <1>9, <1>10 DEF StaticInv, SizeInv

\* Nothing of what SizeInv is about changes.
LEMMA SizesStay ==
    ASSUME SizeInv, Fixed, request' = request, wire' = wire, frames' \subseteq frames,
           stage' = "idle" => stage = "idle" /\ replies' = replies /\ handed' = handed
    PROVE  SizeInv'
<1>1. Served(request)' = Served(request)
  BY DEF Served
<1>2. PICK s : s = Served(request)
  OBVIOUS
<1>3. /\ SizedRequest(request, s) /\ \A q \in wire : SizedRequest(q, s)
      /\ \A f \in frames : SizedFrame(f, s)
  BY <1>2 DEF SizeInv
<1>4. SizedRequest(request, s)'
  BY <1>3 DEF Fixed, SizedRequest, Readable, Served, Asks
<1>5. /\ \A q \in wire' : SizedRequest(q, s)'
      /\ \A f \in frames' : SizedFrame(f, s)'
  BY <1>3, StaysSized
<1>6. /\ \A q \in wire' : SizedRequest(q, Served(request))'
      /\ \A f \in frames' : SizedFrame(f, Served(request))'
      /\ SizedRequest(request, Served(request))'
  BY <1>1, <1>2, <1>4, <1>5 DEF SizedRequest, SizedFrame, IsContent
<1> QED  BY <1>6 DEF SizeInv

\* A request that is sent keeps the sizes.
LEMMA SizesOfSent ==
    ASSUME TypeOK, Fixed, NEW q \in Request, NEW host \in Hosts \cup {Group}, SendTo(q, host),
           NEW s, SizedRequest(q, s), mode # "multicast" => host = Server,
           \A p \in wire : SizedRequest(p, s), \A f \in frames' : SizedFrame(f, s),
           stage' # "idle"
    PROVE  SizeInv' /\ request' \in Request /\ wire' \subseteq Request
<1>1. /\ request' \in Request /\ wire' \subseteq Request
      /\ SizedRequest(request', s) /\ Served(request') = s
      /\ \A p \in wire' : SizedRequest(p, s)
  BY SentTyped
<1>2. Served(request)' = s
  BY <1>1 DEF Served
<1>3. /\ \A p \in wire' : SizedRequest(p, s)'
      /\ \A f \in frames' : SizedFrame(f, s)'
  BY <1>1, StaysSized
<1>4. SizedRequest(request, s)'
  BY <1>1 DEF Fixed, SizedRequest, Readable, Served, Asks
<1>5. /\ \A p \in wire' : SizedRequest(p, Served(request))'
      /\ \A f \in frames' : SizedFrame(f, Served(request))'
      /\ SizedRequest(request, Served(request))'
  BY <1>2, <1>3, <1>4 DEF SizedRequest, SizedFrame, IsContent
<1> QED  BY <1>1, <1>5 DEF SizeInv

\* The size that the user sets is for the blocks of the payload alone.
LEMMA StaticSetBlockSize ==
    ASSUME StaticInv, NEW a, SetBlockSize(a)
    PROVE  StaticInv'
<1>1. /\ Fixed /\ stage' = stage /\ request' = request /\ replies' = replies /\ handed' = handed
      /\ wire' = wire /\ answered' = answered /\ received' = received /\ frames' = frames
      /\ repeats' = repeats
  BY DEF SetBlockSize, network, Fixed
<1>2. size' \in {0} \cup BlockSizes
  BY DEF SetBlockSize, StaticInv, TypeOK, IsBlockSize
<1>3. TypeOK'
  BY <1>1, <1>2 DEF StaticInv, TypeOK, Fixed
<1>4. SizeInv'
  BY <1>1, SizesStay DEF StaticInv
<1> QED  BY <1>3, <1>4 DEF StaticInv

\* An exchange that is forgotten leaves the requests and frames as they are.
LEMMA StaticExpire ==
    ASSUME StaticInv, Expire
    PROVE  StaticInv'
<1>1. /\ Fixed /\ size' = size /\ stage' \in {"done", "failed"} /\ request' = request
      /\ replies' = <<>> /\ handed' = handed
      /\ wire' = wire /\ answered' = answered /\ received' = received /\ frames' = frames
      /\ repeats' = repeats
  BY DEF Expire, network, Fixed
<1>2. <<>> \in Seq(InternalReply)
  OBVIOUS
<1>3. TypeOK'
  BY <1>1, <1>2 DEF StaticInv, TypeOK, Fixed
<1>4. SizeInv'
  BY <1>1, SizesStay DEF StaticInv
<1> QED  BY <1>3, <1>4 DEF StaticInv

\* What stays of a request that carries a block.
LEMMA CarriedStays ==
    ASSUME NEW q \in Request, NEW n \in BlockNumbers, IsBlockSize(size), upload \in Nat \ {0},
           NEW p, p = SetToSendBlock(q, n, size)
    PROVE  /\ p \in Request /\ p.block2 = q.block2 /\ p.to = q.to
           /\ p.payload \in SUBSET (1..upload)
BY CarriesBlock

\* The first request: its size is the size of the transfer.
LEMMA StartSteps ==
    ASSUME StaticInv, StartRequest
    PROVE  /\ Fixed /\ stage = "idle" /\ stage' = "running" /\ wire = {} /\ frames' = {}
           /\ replies' = <<>> /\ handed' = {} /\ UNCHANGED network /\ size' = size
           /\ \E q \in Request :
                 /\ SizedRequest(q, Served(q)) /\ SendTo(q, request.to) /\ q.to = request.to
                 /\ Asks(q) = 0
                 /\ \/ q.payload = request.payload /\ q.block1 = NoOption
                    \/ \E p \in Request : upload > 0 /\ size > 0 /\ q = SetToSendBlock(p, 0, size)
<1>1. /\ Fixed /\ stage = "idle" /\ stage' = "running" /\ UNCHANGED network /\ size' = size
      /\ replies' = replies /\ handed' = handed
  BY DEF StartRequest, Fixed
<1>2. wire = {} /\ frames = {} /\ replies = <<>> /\ handed = {} /\ frames' = {}
      /\ request.block1 = NoOption /\ request.block2 = NoOption
  BY <1>1 DEF StaticInv, SizeInv, network
<1>3. /\ request \in Request /\ SizedRequest(request, Served(request)) /\ upload \in Nat
      /\ length \in Nat \ {0} /\ IsBlockSize(size)
  BY Constants DEF StaticInv, SizeInv, TypeOK, IsBlockSize
<1>4. 0 \in BlockNumbers
  BY DEF BlockNumbers
<1>5. PICK asking : asking = IF size > 0 THEN SetToRequestBlock(request, 0, size) ELSE request
  OBVIOUS
<1>6. /\ asking \in Request /\ asking.to = request.to /\ asking.payload = request.payload
      /\ asking.block1 = NoOption /\ Asks(asking) = 0 /\ Readable(asking.block2)
  <2>1. CASE size > 0
    <3>1. size \in BlockSizes /\ asking = SetToRequestBlock(request, 0, size)
      BY <1>3, <1>5, <2>1 DEF IsBlockSize
    <3> QED  BY <1>3, <1>4, <3>1, AsksForBlock
  <2>2. CASE ~ size > 0
    BY <1>2, <1>3, <1>5, <2>2 DEF Asks, SizedRequest
  <2> QED  BY <2>1, <2>2
<1>7. PICK s : s = Served(asking)
  OBVIOUS
<1>8. SizedRequest(asking, s)
  <2>1. s \in Nat
    BY <1>6, <1>7, ServedSize
  <2>2. Asks(asking) * s < length * 16
    BY <1>3, <1>6, <2>1
  <2> QED  BY <1>3, <1>6, <1>7, <2>2 DEF SizedRequest
<1>9. PICK first : first = IF size > 0 /\ upload * 16 > size
                           THEN SetToSendBlock(asking, 0, size) ELSE asking
  OBVIOUS
<1>10. SendTo(first, request.to)
  BY <1>5, <1>9 DEF StartRequest
<1>13. SizedRequest(asking, Served(asking))
  BY <1>7, <1>8
<1>11. CASE size > 0 /\ upload * 16 > size
  <2>1. upload \in Nat \ {0} /\ size > 0
    <3>1. size \in BlockSizes
      BY <1>3, <1>11 DEF IsBlockSize
    <3> QED  BY <1>3, <1>11, <3>1 DEF BlockSizes
  <2>2. first = SetToSendBlock(asking, 0, size)
    BY <1>9, <1>11
  <2>3. /\ first \in Request /\ first.block2 = asking.block2 /\ first.to = asking.to
        /\ first.payload \in SUBSET (1..upload)
    <3>1. PICK n : n = 0 /\ n \in BlockNumbers
      BY <1>4
    <3>2. first = SetToSendBlock(asking, n, size)
      BY <2>2, <3>1
    <3> HIDE DEF SetToSendBlock, IsBlockSize
    <3> QED  BY <1>3, <1>6, <2>1, <3>1, <3>2, CarriedStays
  <2>4. Served(first) = s /\ Asks(first) = 0
    BY <1>6, <1>7, <2>3 DEF Served, Asks
  <2>5. SizedRequest(first, s)
    BY <1>6, <1>8, <2>1, <2>3, <2>4 DEF SizedRequest
  <2>6. SizedRequest(first, Served(first))
    BY <2>4, <2>5
  <2> QED  BY <1>1, <1>2, <1>6, <1>10, <2>1, <2>2, <2>3, <2>4, <2>6
<1>12. CASE ~ (size > 0 /\ upload * 16 > size)
  <2>1. first = asking
    BY <1>9, <1>12
  <2> QED  BY <1>1, <1>2, <1>6, <1>10, <1>13, <2>1
<1> QED  BY <1>11, <1>12

\* The first request sets the size of the transfer.
LEMMA StaticStart ==
    ASSUME StaticInv, StartRequest
    PROVE  StaticInv'
<1>1. /\ Fixed /\ stage = "idle" /\ stage' = "running" /\ wire = {} /\ frames' = {}
      /\ replies' = <<>> /\ handed' = {} /\ UNCHANGED network /\ size' = size
  BY StartSteps
<1>2. PICK q \in Request : SizedRequest(q, Served(q)) /\ SendTo(q, request.to)
  BY StartSteps
<1>3. PICK host \in Hosts \cup {Group} :
         host = request.to /\ (mode # "multicast" => host = Server)
  BY DEF StaticInv, TypeOK, Request, SizeInv, SizedRequest
<1>7. PICK s : s = Served(q) /\ SizedRequest(q, s)
  BY <1>2
<1>4. SizeInv' /\ request' \in Request /\ wire' \subseteq Request
  <2>1. /\ \A p \in wire : SizedRequest(p, s) /\ \A f \in frames' : SizedFrame(f, s)
        /\ stage' # "idle" /\ TypeOK /\ SendTo(q, host)
    BY <1>1, <1>2, <1>3 DEF StaticInv
  <2> QED  BY <1>1, <1>3, <1>7, <2>1, SizesOfSent
<1>5. <<>> \in Seq(InternalReply)
  OBVIOUS
<1>6. TypeOK'
  BY <1>1, <1>4, <1>5 DEF StaticInv, TypeOK, Fixed, network
<1> QED  BY <1>4, <1>6 DEF StaticInv

\* An answer is a frame of the size of the transfer.
LEMMA StaticAnswer ==
    ASSUME StaticInv, NEW q \in wire, NEW h \in Hosts, Answer(q, h)
    PROVE  StaticInv'
<1>0. TypeOK /\ SizeInv
  BY DEF StaticInv
<1>1. /\ Fixed /\ UNCHANGED client /\ stage = "running" /\ repeats' \in Nat /\ repeats' <= MaxRepeats
      /\ answered' = [answered EXCEPT ![h] = @ \cup {q.mid}]
  BY <1>0, AnswerSteps
<1>2. PICK f \in Frame : frames' = frames \cup {f} /\ SizedFrame(f, Served(request))
  BY <1>0, AnswerSteps DEF AnswersWith
<1>3. received' \in [Hosts -> Nat]
  <2>1. PICK U \in SUBSET (1..upload) : U = q.payload
    BY <1>0 DEF SizeInv, SizedRequest
  <2>2. PICK r \in Nat : r = received[h]
    BY <1>0 DEF TypeOK
  <2>3. upload \in Nat
    BY <1>0, Constants
  <2>4. Max({r} \cup U) \in Nat
    BY <2>3, MaxOfUnits
  <2>5. \/ received' = received
        \/ received' = [received EXCEPT ![h] = Max({received[h]} \cup q.payload)]
    BY <1>0, AnswerSteps
  <2> QED  BY <1>0, <2>1, <2>2, <2>4, <2>5 DEF TypeOK
<1>4. answered' \in [Hosts -> SUBSET Nat]
  <2>1. q.mid \in Nat /\ answered \in [Hosts -> SUBSET Nat]
    BY <1>0 DEF TypeOK, Request
  <2> QED  BY <1>1, <2>1
<1>5. repeats' \in 0..MaxRepeats
  BY <1>1, BoundAssumption
<1>6. TypeOK'
  BY <1>0, <1>1, <1>2, <1>3, <1>4, <1>5 DEF TypeOK, client, Fixed
<1>7. SizeInv'
  <2>1. PICK s : s = Served(request)
    OBVIOUS
  <2>2. Served(request)' = s
    BY <1>1, <2>1 DEF Served, client
  <2>3. /\ SizedRequest(request, s) /\ \A p \in wire' : SizedRequest(p, s)
        /\ \A g \in frames' : SizedFrame(g, s)
    BY <1>0, <1>1, <1>2, <2>1 DEF SizeInv, client
  <2>4. SizedRequest(request, s)'
    BY <1>1, <2>3 DEF Fixed, SizedRequest, Readable, Served, Asks, client
  <2>5. /\ \A p \in wire' : SizedRequest(p, s)'
        /\ \A g \in frames' : SizedFrame(g, s)'
    BY <1>1, <2>3, StaysSized
  <2>6. /\ \A p \in wire' : SizedRequest(p, Served(request))'
        /\ \A g \in frames' : SizedFrame(g, Served(request))'
        /\ SizedRequest(request, Served(request))'
    BY <2>2, <2>4, <2>5 DEF SizedRequest, SizedFrame, IsContent
  <2>7. stage' # "idle"
    BY <1>1 DEF client
  <2> QED  BY <2>6, <2>7 DEF SizeInv
<1> QED  BY <1>6, <1>7 DEF StaticInv

\* The requests a frame leads to are of the size of the transfer.
LEMMA NextSent ==
    ASSUME StaticInv, NEW f \in frames, Deliver(f), ~f.error,
           NextBlockToSend(f.block1) > 0 \/ (Asks(f) + 1) * Served(request) < length * 16
    PROVE  \E q \in Request, host \in Hosts :
              /\ SizedRequest(q, Served(request)) /\ SendTo(q, host) /\ q.to = request.to
              /\ mode # "multicast" => host = Server
              /\ \/ /\ ~f.error /\ NextBlockToSend(f.block1) > 0 /\ Asks(q) = Asks(request)
                    /\ q = SetToSendBlock(request, NextBlockToSend(f.block1), size)
                    /\ upload > 0
                 \/ /\ ~f.error /\ NextBlockToSend(f.block1) = 0 /\ IsContent(f, Served(request))
                    /\ (Asks(f) + 1) * Served(request) < length * 16
                    /\ host = f.from /\ q.payload = request.payload
                    /\ \/ q.block1 = NoOption /\ Asks(q) = Asks(f) + 1
                       \/ q = request /\ Asks(q) <= Asks(f)
<1>0. TypeOK /\ SizeInv
  BY DEF StaticInv
<1>1. PICK s \in BlockSizes : s = Served(request) /\ s <= ServerSize
  BY <1>0, ServedSize DEF SizeInv, SizedRequest
<1>2. request \in Request /\ SizedRequest(request, s) /\ upload \in Nat /\ length \in Nat \ {0}
      /\ IsBlockSize(size)
  BY <1>0, <1>1, Constants DEF TypeOK, SizeInv, IsBlockSize
<1>3. f \in Frame /\ SizedFrame(f, s)
  BY <1>0, <1>1 DEF TypeOK, SizeInv
<1>4. CASE /\ ~f.error /\ NextBlockToSend(f.block1) > 0 /\ upload > 0
           /\ SendTo(SetToSendBlock(request, NextBlockToSend(f.block1), size), request.to)
  <2>1. PICK n \in Nat : n = NextBlockToSend(f.block1)
    BY <1>3, ReadNumbers DEF Frame
  <2>2. PICK q : q = SetToSendBlock(request, n, size)
    OBVIOUS
  <2>3. /\ q \in Request /\ q.block2 = request.block2 /\ q.to = request.to
        /\ q.payload \in SUBSET (1..upload)
    <3>1. CASE n \in BlockNumbers
      <4>1. upload \in Nat \ {0}
        BY <1>2, <1>4
      <4> QED  BY <1>2, <2>2, <3>1, <4>1, CarriesBlock
    <3>2. CASE n \notin BlockNumbers
      BY <1>2, <2>2, <3>2 DEF SetToSendBlock, CheckBlockNumber, SizedRequest
    <3> QED  BY <3>1, <3>2
  <2>4. Served(q) = Served(request) /\ Asks(q) = Asks(request)
    BY <2>3 DEF Served, Asks
  <2>5. SizedRequest(q, s)
    BY <1>2, <1>4, <2>3, <2>4 DEF SizedRequest
  <2>6. mode = "plain" /\ request.to = Server
    BY <1>0, <1>2, <1>4, Constants DEF SizedRequest
  <2>7. SendTo(q, Server) /\ Server \in Hosts
    BY <1>4, <2>1, <2>2, <2>6, HostAssumption
  <2> QED  BY <1>1, <1>4, <2>1, <2>2, <2>3, <2>4, <2>5, <2>7
<1>5. CASE /\ ~f.error /\ NextBlockToSend(f.block1) = 0 /\ IsContent(f, Served(request))
           /\ (Asks(f) + 1) * Served(request) < length * 16
           /\ SendTo(SetToRequestBlock(request, Asks(f) + 1, Served(request)), f.from)
  <2>1. PICK n \in BlockNumbers : n = Asks(f) /\ n \in Nat
    BY <1>5 DEF IsContent, BlockNumbers
  <2>2. PICK q : q = SetToRequestBlock(request, n + 1, s)
    OBVIOUS
  <2>3. SendTo(q, f.from) /\ (n + 1) * s < length * 16
    BY <1>1, <1>5, <2>1, <2>2
  <2>4. f.from \in Hosts /\ (mode # "multicast" => f.from = Server)
    BY <1>3 DEF Frame, SizedFrame
  <2>5. CASE n + 1 \in BlockNumbers
    <3>1. /\ q \in Request /\ Readable(q.block2) /\ Asks(q) = n + 1
          /\ q.block1 = NoOption /\ q.to = request.to /\ q.payload = request.payload
          /\ q.block2 # NoOption /\ BlockSize(q.block2) = s
      BY <1>2, <2>2, <2>5, AsksForBlock
    <3>2. Served(q) = s
      BY <1>1, <3>1, ServedSize
    <3>3. SizedRequest(q, s)
      BY <1>2, <2>3, <3>1, <3>2 DEF SizedRequest
    <3> QED  BY <1>1, <1>5, <2>1, <2>3, <2>4, <3>1, <3>3
  <2>6. CASE n + 1 \notin BlockNumbers
    <3>1. q = request
      BY <2>2, <2>6 DEF SetToRequestBlock, CheckBlockNumber
    <3>2. Asks(request) \in BlockNumbers
      BY <1>2 DEF SizedRequest, Readable, Asks, BlockNumbers
    <3>3. Asks(q) <= n
      BY <2>1, <2>6, <3>1, <3>2 DEF BlockNumbers
    <3> QED  BY <1>1, <1>2, <1>5, <2>1, <2>3, <2>4, <3>1, <3>3
  <2> QED  BY <2>5, <2>6
<1>6. NextBlockToSend(f.block1) \in Nat
  BY <1>3, ReadNumbers DEF Frame
<1> QED  BY <1>0, <1>4, <1>5, <1>6, DeliverSteps

\* What is handed over is a payload.
LEMMA HandsOver ==
    ASSUME StaticInv, NEW f \in frames, NEW all \in Seq(InternalReply), Len(all) >= 1,
           NEW host \in Hosts, OnLastMessage(all, host)
    PROVE  /\ FinalPayload(all, host) \in Payload
           /\ replies' \in Seq(InternalReply)
           /\ handed' = handed \cup {[from |-> host, payload |-> FinalPayload(all, host)]}
           /\ handed' \subseteq [from : Hosts, payload : Payload]
           /\ stage' = IF mode = "plain" THEN "done" ELSE stage
           /\ request' = request /\ wire' = wire
<1>1. PICK content : content = FinalPayload(all, host)
  OBVIOUS
<1>2. content \in Payload
  <2>1. CASE Len(all) = 1
    <3>1. all[1] \in InternalReply
      BY <2>1
    <3> QED  BY <1>1, <2>1, <3>1 DEF FinalPayload, InternalReply
  <2>2. CASE Len(all) # 1
    BY <1>1, <2>2, MergedType DEF FinalPayload
  <2> QED  BY <2>1, <2>2
<1>3. /\ handed' = handed \cup {[from |-> host, payload |-> content]}
      /\ stage' = IF mode = "plain" THEN "done" ELSE stage
      /\ replies' = IF mode = "multicast"
                    THEN [all EXCEPT ![Len(all)].payload = content] ELSE <<>>
      /\ request' = request /\ wire' = wire
  BY <1>1 DEF OnLastMessage
<1>4. replies' \in Seq(InternalReply)
  <2>1. PICK l \in 1..Len(all) : l = Len(all)
    OBVIOUS
  <2>2. all[l] \in InternalReply
    OBVIOUS
  <2>3. PICK r : r = [all[l] EXCEPT !.payload = content]
    OBVIOUS
  <2>4. r \in InternalReply
    BY <1>2, <2>2, <2>3 DEF InternalReply
  <2>5. [all EXCEPT ![Len(all)].payload = content] = [all EXCEPT ![l] = r]
    BY <2>1, <2>3
  <2>6. [all EXCEPT ![l] = r] \in Seq(InternalReply)
    BY <2>4
  <2>7. <<>> \in Seq(InternalReply)
    OBVIOUS
  <2> QED  BY <1>3, <2>5, <2>6, <2>7
<1>5. handed' \subseteq [from : Hosts, payload : Payload]
  BY <1>2, <1>3 DEF StaticInv, TypeOK
<1> QED  BY <1>1, <1>2, <1>3, <1>4, <1>5

\* A frame that arrives leads to a request of the same size, if to any.
LEMMA StaticDeliver ==
    ASSUME StaticInv, NEW f \in frames, Deliver(f)
    PROVE  StaticInv'
<1>0. TypeOK /\ SizeInv
  BY DEF StaticInv
<1>1. /\ Fixed /\ size' = size /\ stage = "running" /\ stage' \in {"running", "done", "failed"}
      /\ answered' = answered /\ received' = received /\ frames' \subseteq frames
      /\ repeats' \in Nat /\ repeats' <= MaxRepeats
  BY <1>0, DeliverSteps
<1>2. PICK all \in Seq(InternalReply) :
         /\ all = Append(replies, Decoded(f)) /\ Len(all) >= 1
  <2>1. /\ Append(replies, Decoded(f)) \in Seq(InternalReply)
        /\ Len(Append(replies, Decoded(f))) = Len(replies) + 1 /\ Len(replies) \in Nat
    BY <1>0, ReplyAdded
  <2>2. PICK all : all = Append(replies, Decoded(f))
    OBVIOUS
  <2>3. all \in Seq(InternalReply) /\ Len(all) >= 1
    BY <2>1, <2>2
  <2> QED  BY <2>2, <2>3
<1>3. f \in Frame /\ <<>> \in Seq(InternalReply) /\ request.mid \in Nat
  BY <1>0 DEF TypeOK, Request
<1>4. repeats' \in 0..MaxRepeats
  BY <1>1, BoundAssumption
<1>5. ASSUME replies' \in Seq(InternalReply), handed' \subseteq [from : Hosts, payload : Payload],
             request' \in Request, wire' \subseteq Request, SizeInv'
      PROVE  StaticInv'
  <2>1. TypeOK'
    BY <1>0, <1>1, <1>4, <1>5 DEF TypeOK, Fixed
  <2> QED  BY <1>5, <2>1 DEF StaticInv
<1>6. ASSUME UNCHANGED <<request, wire>>
      PROVE  SizeInv' /\ request' \in Request /\ wire' \subseteq Request
  <2>1. SizeInv'
    BY <1>0, <1>1, <1>6, SizesStay
  <2> QED  BY <1>0, <1>6, <2>1 DEF TypeOK
<1>7. ASSUME ~f.error, replies' = all, UNCHANGED <<stage, handed>>,
             NextBlockToSend(f.block1) > 0 \/ (Asks(f) + 1) * Served(request) < length * 16
      PROVE  StaticInv'
  <2>2. PICK q \in Request, host \in Hosts : 
           /\ SizedRequest(q, Served(request)) /\ SendTo(q, host)
           /\ mode # "multicast" => host = Server
    BY <1>7, NextSent
  <2>3. PICK s : s = Served(request)
    OBVIOUS
  <2>4. /\ SizedRequest(q, s) /\ \A r \in wire : SizedRequest(r, s)
        /\ \A g \in frames' : SizedFrame(g, s)
    BY <1>0, <1>1, <2>2, <2>3 DEF SizeInv
  <2>5. SizeInv' /\ request' \in Request /\ wire' \subseteq Request
    BY <1>0, <1>1, <2>2, <2>4, SizesOfSent
  <2>6. handed' \subseteq [from : Hosts, payload : Payload]
    BY <1>0, <1>7 DEF TypeOK
  <2> QED  BY <1>2, <1>5, <1>7, <2>5, <2>6
<1>8. CASE stage' = "failed" /\ replies' = <<>> /\ UNCHANGED <<request, wire, handed>>
  BY <1>0, <1>3, <1>5, <1>6, <1>8 DEF TypeOK
<1>9. CASE OnLastMessage(all, f.from)
  <2>1. PICK host \in Hosts : host = f.from
    BY <1>3 DEF Frame
  <2>2. /\ replies' \in Seq(InternalReply) /\ handed' \subseteq [from : Hosts, payload : Payload]
        /\ request' = request /\ wire' = wire
    BY <1>2, <1>9, <2>1, HandsOver
  <2> QED  BY <1>5, <1>6, <2>2
<1>10. CASE /\ ~f.error /\ replies' = all /\ UNCHANGED <<stage, handed>>
            /\ NextBlockToSend(f.block1) > 0 \/ (Asks(f) + 1) * Served(request) < length * 16
  BY <1>7, <1>10
<1> QED  BY <1>0, <1>2, <1>8, <1>9, <1>10, DeliverSteps

\* In every reachable state all requests are answered, and all frames cut, in one size,
\* whatever sizes the user sets meanwhile and the servers prefer: the numbers of the blocks
\* that SetToRequestBlock asks for count blocks of the size of the first answer.
THEOREM StaticHolds == Spec => []StaticInv
<1>1. ASSUME StaticInv, [Next]_vars
      PROVE  StaticInv'
  <2>1. CASE Next
    BY <1>1, <2>1, StaticSetBlockSize, StaticStart, StaticDeliver, StaticExpire, StaticAnswer
       DEF Next
  <2>2. CASE UNCHANGED vars
    <3>1. /\ Fixed /\ size' = size /\ stage' = stage /\ request' = request /\ replies' = replies
          /\ handed' = handed /\ wire' = wire /\ answered' = answered /\ received' = received
          /\ frames' = frames /\ repeats' = repeats
      BY <2>2 DEF vars, Fixed
    <3>2. TypeOK'
      BY <1>1, <3>1 DEF StaticInv, TypeOK, Fixed
    <3>3. SizeInv'
      BY <1>1, <3>1, SizesStay DEF StaticInv
    <3> QED  BY <3>2, <3>3 DEF StaticInv
  <2> QED  BY <1>1, <2>1, <2>2
<1> QED  BY <1>1, StaticInit, PTL DEF Spec

\* The state keeps its types: what is decoded from a frame, merged from the replies or put
\* into a request is what the next handler expects.
THEOREM TypeCorrect == Spec => []TypeOK
<1>1. StaticInv => TypeOK
  BY DEF StaticInv
<1> QED  BY <1>1, StaticHolds, PTL

(***************************************************************************)
(* Chains.  Live(q, h): host h may still answer request q.  While it may,  *)
(* or a frame of it is on its way, the blocks that come before the one     *)
(* that is asked for or carried are among the replies, and nothing else    *)
(* is among those of the host.                                             *)
(***************************************************************************)
Partners == IF mode = "multicast" THEN Hosts ELSE {Server}

Live(q, h) == q.to \in {h, Group} /\ (mode = "plain" \/ q.mid \notin answered[h])
Going(h) == (\E q \in wire : Live(q, h)) \/ (\E f \in frames : f.from = h)

Held(h, j, s) == \E i \in DOMAIN replies : /\ replies[i].from = h /\ replies[i].number = j
                                           /\ replies[i].payload = Units(h, j, s)
HeldBelow(h, n, s) == \A j \in 0..(n - 1) : Held(h, j, s)

GoodReply(r, h, s) ==
    r.from = h /\ r.payload # <<>> =>
        r.number * s < length * 16 /\ r.payload = Units(h, r.number, s)
GoodReplies(h, s) == \A i \in DOMAIN replies : GoodReply(replies[i], h, s)

\* A host has one request to answer or one frame on its way, not both.
Single(h) ==
    /\ \A q, p \in wire : Live(q, h) /\ Live(p, h) => q = p
    /\ \A f, g \in frames : f.from = h /\ g.from = h => f = g
    /\ \A q \in wire, f \in frames : ~ (Live(q, h) /\ f.from = h)

Chain(h, s) ==
    /\ \A q \in wire : Live(q, h) => HeldBelow(h, Asks(q), s)
    /\ \A f \in frames : f.from = h /\ ~f.error => HeldBelow(h, Asks(f), s)
    /\ mode = "plain" => HeldBelow(h, Asks(request), s)
    /\ Going(h) => GoodReplies(h, s)
    /\ mode = "plain" \/ Single(h)

Chains == stage = "running" => \A h \in Partners : Chain(h, Served(request))

WholeInv ==
    /\ mode # "multicast" => \A i \in DOMAIN replies : replies[i].from = Server
    /\ mode = "plain" \/ repeats = 0 => Chains /\ \A c \in handed : c.payload = Whole(c.from)

\* A reply that is added.
LEMMA RepliesGrow ==
    ASSUME replies \in Seq(InternalReply), NEW r \in InternalReply, replies' = Append(replies, r),
           length' = length, NEW h, NEW s
    PROVE  /\ \A n : HeldBelow(h, n, s) => HeldBelow(h, n, s)'
           /\ GoodReplies(h, s) /\ GoodReply(r, h, s) => GoodReplies(h, s)'
           /\ \A n \in Nat : HeldBelow(h, n, s) /\ r.from = h /\ r.number = n
                             /\ r.payload = Units(h, n, s) => HeldBelow(h, n + 1, s)'
<1>1. /\ DOMAIN replies' = DOMAIN replies \cup {Len(replies) + 1}
      /\ \A i \in DOMAIN replies : replies'[i] = replies[i]
      /\ replies'[Len(replies) + 1] = r
  OBVIOUS
<1>2. PICK l : l = Len(replies) + 1
  OBVIOUS
<1>3. \A j : Units(h, j, s)' = Units(h, j, s)
  BY DEF Units, Whole, First, Upto
<1>4. \A j : Held(h, j, s) => Held(h, j, s)'
  BY <1>1, <1>3 DEF Held
<1>5. \A j : r.from = h /\ r.number = j /\ r.payload = Units(h, j, s) => Held(h, j, s)'
  <2>1. l \in DOMAIN replies' /\ replies'[l] = r
    BY <1>1, <1>2
  <2> QED  BY <1>3, <2>1 DEF Held
<1>6. \A x : GoodReply(x, h, s)' <=> GoodReply(x, h, s)
  BY <1>3 DEF GoodReply
<1>7. GoodReplies(h, s) /\ GoodReply(r, h, s) => GoodReplies(h, s)'
  BY <1>1, <1>2, <1>6 DEF GoodReplies
<1>8. \A n : HeldBelow(h, n, s) => HeldBelow(h, n, s)'
  BY <1>4 DEF HeldBelow
<1>9. ASSUME NEW n \in Nat, HeldBelow(h, n, s), r.from = h, r.number = n, r.payload = Units(h, n, s)
      PROVE  HeldBelow(h, n + 1, s)'
  <2>1. \A j \in 0..n : j \in 0..(n - 1) \/ j = n
    OBVIOUS
  <2>2. (n + 1) - 1 = n
    OBVIOUS
  <2>3. \A j \in 0..n : Held(h, j, s)'
    BY <1>4, <1>5, <1>9, <2>1 DEF HeldBelow
  <2> QED  BY <2>2, <2>3 DEF HeldBelow
<1> QED  BY <1>7, <1>8, <1>9

\* When the replies stay.
LEMMA RepliesStay ==
    ASSUME replies' = replies, length' = length, NEW h, NEW s
    PROVE  /\ \A n : HeldBelow(h, n, s) => HeldBelow(h, n, s)'
           /\ GoodReplies(h, s) => GoodReplies(h, s)'
<1>1. \A j : Units(h, j, s)' = Units(h, j, s)
  BY DEF Units, Whole, First, Upto
<1> QED  BY <1>1 DEF HeldBelow, Held, GoodReplies, GoodReply

\* The first block is asked for without any before it.
LEMMA NothingBelow ==
    ASSUME NEW h, NEW s
    PROVE  HeldBelow(h, 0, s) /\ HeldBelow(h, 0, s)'
BY DEF HeldBelow

\* Held blocks are enough for a block that is asked for again.
LEMMA FewerHeld ==
    ASSUME NEW h, NEW s, NEW n \in Nat, NEW k \in Nat, k <= n
    PROVE  HeldBelow(h, n, s)' => HeldBelow(h, k, s)'
<1>1. \A j \in 0..(k - 1) : j \in 0..(n - 1)
  OBVIOUS
<1> QED  BY <1>1 DEF HeldBelow

\* All blocks of a content are there, and nothing else.
BlocksThere(rs, h, s, n) ==
    /\ \A i \in Mine(rs, h) : rs[i].number * s < length * 16
                              /\ rs[i].payload = Units(h, rs[i].number, s)
    /\ \A j \in 0..n : \E i \in Mine(rs, h) : rs[i].number = j

\* The same with a name for what is there.
LEMMA MergedBlocks ==
    ASSUME NEW h \in Hosts, NEW rs \in Seq(InternalReply), NEW s \in BlockSizes,
           length \in Nat \ {0}, NEW n \in Nat, n * s < length * 16, ~ (n + 1) * s < length * 16,
           BlocksThere(rs, h, s, n)
    PROVE  Merged(rs, h) = Whole(h)
BY MergedIsWhole DEF BlocksThere

\* The merged content is the whole content.
LEMMA LastMakesWhole ==
    ASSUME StaticInv, NEW f \in frames, NEW s, s = Served(request), IsContent(f, s), ~f.error,
           ~ (Asks(f) + 1) * s < length * 16,
           mode # "multicast" => \A i \in DOMAIN replies : replies[i].from = Server,
           Chain(f.from, s)
    PROVE  FinalPayload(Append(replies, Decoded(f)), f.from) = Whole(f.from)
<1>0. TypeOK /\ SizeInv
  BY DEF StaticInv
<1>1. f \in Frame /\ SizedFrame(f, s)
  BY <1>0 DEF TypeOK, SizeInv
<1>2. PICK h \in Hosts : h = f.from /\ (mode # "multicast" => h = Server)
  BY <1>1 DEF Frame, SizedFrame
<1>3. PICK n \in BlockNumbers : n = Asks(f) /\ n \in Nat
  BY DEF IsContent, BlockNumbers
<1>4. s \in BlockSizes /\ length \in Nat \ {0}
  BY <1>0, ServedSize, Constants DEF SizeInv, SizedRequest
<1>5. n * s < length * 16 /\ ~ (n + 1) * s < length * 16 /\ f.payload = Units(h, n, s)
  BY <1>2, <1>3 DEF IsContent
<1>6. HeldBelow(h, n, s) /\ GoodReplies(h, s)
  BY <1>2, <1>3 DEF Chain, Going
<1>7. PICK r \in InternalReply : r = Decoded(f)
  BY <1>1, DecodedType
<1>8. r.from = h /\ r.number = n /\ r.payload = Units(h, n, s)
  BY <1>2, <1>3, <1>5, <1>7 DEF Decoded, Asks
<1>9. replies \in Seq(InternalReply)
  BY <1>0 DEF TypeOK
<1>10. PICK all : all = Append(replies, r) /\ all \in Seq(InternalReply)
  <2>1. Append(replies, r) \in Seq(InternalReply)
    BY <1>0, <1>7, ReplyAdded
  <2> QED  BY <2>1
<1>14. PICK l \in Nat : l = Len(replies)
  BY <1>9
<1>11. /\ l \in Nat /\ Len(all) = l + 1 /\ DOMAIN replies = 1..l
       /\ DOMAIN all = 1..(l + 1) /\ all[l + 1] = r
       /\ \A i \in 1..l : all[i] = replies[i]
  BY <1>7, <1>9, <1>10, <1>14
<1>12. CASE l = 0
  <2>1. n = 0
    <3>1. SUFFICES ASSUME n # 0 PROVE FALSE
      OBVIOUS
    <3>2. 0 \in 0..(n - 1)
      BY <1>3, <3>1
    <3>3. PICK i \in DOMAIN replies : TRUE
      BY <1>6, <3>2 DEF HeldBelow, Held
    <3> QED  BY <1>11, <1>12, <3>3
  <2>2. Len(all) = 1 /\ all[1] = r
    BY <1>11, <1>12
  <2>3. FinalPayload(all, h) = Units(h, 0, s)
    BY <1>8, <2>1, <2>2 DEF FinalPayload
  <2>4. First(0, s) = 0
    BY <1>4 DEF First, BlockSizes
  <2>5. Upto(0, s) = length
    BY <1>5, <2>1 DEF Upto
  <2>6. Units(h, 0, s) = SubSeq(Whole(h), 1, length)
    <3>1. 0 + 1 = 1
      OBVIOUS
    <3> QED  BY <2>4, <2>5, <3>1 DEF Units
  <2>7. Whole(h) \in Seq(Hosts \X Nat) /\ Len(Whole(h)) = length
    BY <1>4, WholeType
  <2>8. SubSeq(Whole(h), 1, length) = Whole(h)
    BY <2>7
  <2> QED  BY <1>2, <1>7, <1>10, <2>3, <2>6, <2>8
<1>13. CASE l # 0
  <2>1. \A i \in Mine(all, h) : i \in 1..(l + 1) /\ all[i].from = h /\ all[i].payload # <<>>
    BY <1>2, <1>8, <1>11 DEF Mine
  <2>2. ASSUME NEW i \in Mine(all, h)
        PROVE  all[i].number * s < length * 16 /\ all[i].payload = Units(h, all[i].number, s)
    <3>1. CASE i = l + 1
      BY <1>5, <1>8, <1>11, <3>1
    <3>2. CASE i # l + 1
      <4>1. i \in 1..l
        BY <2>1, <3>2
      <4>2. GoodReply(all[i], h, s)
        BY <1>6, <1>11, <4>1 DEF GoodReplies
      <4> QED  BY <2>1, <4>2 DEF GoodReply
    <3> QED  BY <3>1, <3>2
  <2>3. ASSUME NEW j \in 0..n
        PROVE  \E i \in Mine(all, h) : all[i].number = j
    <3>1. j \in Nat /\ j * s < length * 16
      BY <1>3, <1>4, <1>5, BlocksInOrder
    <3>2. Units(h, j, s) # <<>>
      BY <1>4, <3>1, UnitsType
    <3>3. \E i \in 1..(l + 1) : /\ all[i].from = h /\ all[i].number = j
                                /\ all[i].payload = Units(h, j, s)
      <4>1. CASE j = n
        BY <1>8, <1>11, <4>1
      <4>2. CASE j # n
        <5>1. j \in 0..(n - 1)
          BY <1>3, <4>2
        <5> QED  BY <1>6, <1>11, <5>1 DEF HeldBelow, Held
      <4> QED  BY <4>1, <4>2
    <3> QED  BY <1>11, <3>2, <3>3 DEF Mine
  <2>4. Merged(all, h) = Whole(h)
    <3>1. BlocksThere(all, h, s, n)
      BY <2>2, <2>3 DEF BlocksThere
    <3> QED  BY <1>2, <1>3, <1>4, <1>5, <1>10, <3>1, MergedBlocks
  <2>5. Len(all) # 1
    BY <1>11, <1>13
  <2> QED  BY <1>2, <1>7, <1>10, <2>4, <2>5 DEF FinalPayload
<1> QED  BY <1>12, <1>13

\* Before the request is sent there are neither replies nor contents.
LEMMA WholeInit == Init => WholeInv
BY DEF Init, WholeInv, Chains

\* Nothing of what WholeInv is about changes.
LEMMA WholeStays ==
    ASSUME WholeInv, Fixed,
           UNCHANGED <<stage, request, replies, handed, wire, answered, frames, repeats>>
    PROVE  WholeInv'
<1>1. \A h, s : /\ GoodReplies(h, s) => GoodReplies(h, s)'
                /\ \A n : HeldBelow(h, n, s) => HeldBelow(h, n, s)'
  BY RepliesStay DEF Fixed
<1>2. \A h, q : Live(q, h)' <=> Live(q, h)
  BY DEF Fixed, Live
<1>3. \A h : /\ Single(h)' <=> Single(h)
             /\ Going(h)' <=> Going(h)
  BY <1>2 DEF Single, Going
<1>4. \A q : Asks(q)' = Asks(q) /\ Served(q)' = Served(q)
  BY DEF Asks, Served
<1>5. Asks(request)' = Asks(request) /\ Served(request)' = Served(request)
  BY DEF Asks, Served
<1>6. \A h, s : Chain(h, s) => Chain(h, s)'
  BY <1>1, <1>2, <1>3, <1>4, <1>5 DEF Fixed, Chain
<1>7. Chains => Chains'
  BY <1>5, <1>6 DEF Fixed, Chains, Partners
<1> QED  BY <1>7 DEF Fixed, WholeInv, Whole

\* When the exchange comes to its end no chain is left.
LEMMA WholeEnds ==
    ASSUME WholeInv, Fixed, stage' # "running", repeats \in Nat, repeats' \in Nat,
           repeats <= repeats', replies' = <<>>,
           mode = "plain" \/ repeats = 0 => \A c \in handed' : c.payload = Whole(c.from)
    PROVE  WholeInv'
<1>1. mode' = "plain" \/ repeats' = 0 => mode = "plain" \/ repeats = 0
  BY DEF Fixed
<1>2. \A h : Whole(h)' = Whole(h)
  BY DEF Fixed, Whole
<1> QED  BY <1>1, <1>2 DEF WholeInv, Chains

\* A transfer that is forgotten has no chain.
LEMMA WholeExpire ==
    ASSUME StaticInv, WholeInv, Expire
    PROVE  WholeInv'
<1>1. /\ Fixed /\ stage' # "running" /\ replies' = <<>> /\ handed' = handed
      /\ repeats' = repeats
  BY DEF Expire, network, Fixed
<1>2. repeats \in Nat
  BY BoundAssumption DEF StaticInv, TypeOK
<1>3. mode = "plain" \/ repeats = 0 => \A c \in handed' : c.payload = Whole(c.from)
  BY <1>1 DEF WholeInv
<1> QED  BY <1>1, <1>2, <1>3, WholeEnds

\* The first request asks for the first block, which needs none before it.
LEMMA WholeStart ==
    ASSUME StaticInv, WholeInv, StartRequest
    PROVE  WholeInv'
<1>1. /\ Fixed /\ wire = {} /\ frames' = {} /\ replies' = <<>> /\ handed' = {}
      /\ UNCHANGED network
  BY StartSteps
<1>2. PICK q \in Request : SizedRequest(q, Served(q)) /\ SendTo(q, request.to) /\ Asks(q) = 0
  BY StartSteps
<1>3. PICK host \in Hosts \cup {Group} :
         host = request.to /\ (mode # "multicast" => host = Server)
  BY DEF StaticInv, TypeOK, Request, SizeInv, SizedRequest
<1>4. SendTo(q, host) /\ TypeOK
  BY <1>2, <1>3 DEF StaticInv
<1>9. PICK s : s = Served(q) /\ SizedRequest(q, s)
  BY <1>2
<1>5. /\ \E p \in Request : wire' = wire \cup {p} /\ p.block2 = q.block2
      /\ request'.block2 = q.block2
  BY <1>3, <1>4, <1>9, SentTyped
<1>6. PICK p : wire' = {p} /\ p.block2 = q.block2
  BY <1>1, <1>5
<1>7. Asks(p) = 0 /\ Asks(request)' = 0
  BY <1>2, <1>5, <1>6 DEF Asks
<1>8. ASSUME NEW h, NEW z
      PROVE  Chain(h, z)'
  <2>1. HeldBelow(h, 0, z)'
    BY NothingBelow
  <2>2. \A r \in wire' : Asks(r)' = 0
    BY <1>6, <1>7 DEF Asks
  <2>3. GoodReplies(h, z)' /\ Single(h)'
    BY <1>1, <1>6 DEF GoodReplies, Single
  <2> QED  BY <1>1, <1>7, <2>1, <2>2, <2>3 DEF Chain
<1> QED  BY <1>1, <1>8 DEF WholeInv, Chains

\* An answer to a request carries the block that follows those that are held, and takes the
\* place of the request.
LEMMA WholeAnswer ==
    ASSUME StaticInv, WholeInv, NEW q \in wire, NEW h \in Hosts, Answer(q, h)
    PROVE  WholeInv'
<1>0. TypeOK /\ SizeInv
  BY DEF StaticInv
<1>10. /\ Fixed /\ UNCHANGED client /\ repeats' \in Nat /\ repeats <= repeats'
  BY <1>0, AnswerSteps
<1>11. repeats \in Nat
  BY <1>0, BoundAssumption DEF TypeOK
<1>12. /\ stage = "running" /\ q.to \in {h, Group} /\ (mode # "multicast" => h = Server)
       /\ answered' = [answered EXCEPT ![h] = @ \cup {q.mid}]
       /\ (repeats' = 0 => q.mid \notin answered[h])
  BY <1>0, AnswerSteps
<1>1. /\ Fixed /\ stage = "running" /\ q.to \in {h, Group} /\ (mode # "multicast" => h = Server)
      /\ answered' = [answered EXCEPT ![h] = @ \cup {q.mid}]
      /\ (repeats' = 0 => q.mid \notin answered[h])
      /\ repeats' \in Nat /\ repeats <= repeats' /\ repeats \in Nat
      /\ UNCHANGED <<stage, request, replies, handed, wire>>
  BY <1>10, <1>11, <1>12 DEF client
<1>13. PICK f \in Frame : frames' = frames \cup {f} /\ AnswersWith(f, q, h)
  BY <1>0, AnswerSteps
<1>2. /\ frames' = frames \cup {f} /\ f.from = h /\ SizedFrame(f, Served(request))
      /\ ~f.error /\ ~ (NextBlockToSend(f.block1) > 0) => Asks(f) = Asks(q)
  BY <1>13 DEF AnswersWith
<1>3. ~f.error => Asks(f) = Asks(q) \/ Asks(f) = 0
  BY <1>2 DEF SizedFrame, Asks
<1>4. \A x : /\ Asks(x)' = Asks(x) /\ Served(x)' = Served(x) /\ Whole(x)' = Whole(x)
  BY <1>1 DEF Asks, Served, Fixed, Whole
<1>5. PICK s : s = Served(request) /\ Served(request)' = s
  BY <1>1 DEF Served
<1>6. PICK m : m = Asks(request) /\ Asks(request)' = m
  BY <1>1 DEF Asks
<1>14. Partners' = Partners
  BY <1>1 DEF Fixed, Partners
<1>7. answered \in [Hosts -> SUBSET Nat]
  BY <1>0 DEF TypeOK
<1>8. ASSUME mode = "plain" \/ repeats' = 0
      PROVE  Chains'
  <2>1. mode = "plain" \/ repeats = 0
    BY <1>1, <1>8
  <2>2. Live(q, h)
    BY <1>1, <1>8 DEF Live
  <2>3. ASSUME NEW g \in Partners
        PROVE  Chain(g, s)'
    <3>1. Chain(g, s) /\ g \in Hosts
      BY <1>1, <1>5, <2>1, <2>3, HostAssumption DEF WholeInv, Chains, Partners
    <3>2. /\ \A n : HeldBelow(g, n, s) => HeldBelow(g, n, s)'
          /\ GoodReplies(g, s) => GoodReplies(g, s)'
      BY <1>1, RepliesStay DEF Fixed
    <3>3. \A p : Live(p, g)' => Live(p, g)
      BY <1>1, <1>7, <3>1 DEF Live, Fixed
    <3>4. Going(g)' => Going(g)
      BY <1>1, <1>2, <2>2, <3>3 DEF Going
    <3>5. \A p \in wire' : Live(p, g)' => HeldBelow(g, Asks(p), s)'
      <4> SUFFICES ASSUME NEW p \in wire', Live(p, g)', NEW n, n = Asks(p)
                   PROVE  HeldBelow(g, n, s)'
        BY <1>4 DEF HeldBelow
      <4> QED  BY <1>1, <3>1, <3>2, <3>3 DEF Chain
    <3>6. HeldBelow(g, 0, s)'
      BY NothingBelow
    <3>7. \A n : h = g /\ n = Asks(q) => HeldBelow(g, n, s)'
      BY <2>2, <3>1, <3>2 DEF Chain
    <3>8. \A x \in frames' : x.from = g /\ ~x.error => HeldBelow(g, Asks(x), s)'
      <4> SUFFICES ASSUME NEW x \in frames', x.from = g, ~x.error, NEW n, n = Asks(x)
                   PROVE  HeldBelow(g, n, s)'
        BY <1>4 DEF HeldBelow
      <4>1. CASE x \in frames
        BY <3>1, <3>2, <4>1 DEF Chain
      <4>2. CASE x = f
        BY <1>2, <1>3, <3>6, <3>7, <4>2
      <4> QED  BY <1>2, <4>1, <4>2
    <3>9. mode = "plain" => HeldBelow(g, m, s)'
      BY <1>6, <3>1, <3>2 DEF Chain
    <3>10. mode = "plain" \/ Single(g)'
      <4> SUFFICES ASSUME mode # "plain"
                   PROVE  Single(g)'
        OBVIOUS
      <4>1. Single(g)
        BY <3>1 DEF Chain
      <4>2. CASE g # h
        <5>1. \A x \in frames' : x.from = g => x \in frames
          BY <1>2, <4>2
        <5> QED  BY <1>1, <3>3, <4>1, <5>1 DEF Single
      <4>3. CASE g = h
        <5>1. \A x \in frames' : x.from = g => x = f
          BY <1>2, <2>2, <4>1, <4>3 DEF Single
        <5>2. \A p \in wire' : ~ Live(p, g)'
          <6> SUFFICES ASSUME NEW p \in wire', Live(p, g)'
                       PROVE  FALSE
            OBVIOUS
          <6>1. p = q
            BY <1>1, <2>2, <3>3, <4>1, <4>3 DEF Single
          <6>2. q.mid \in answered'[h]
            BY <1>1, <1>7
          <6> QED  BY <1>1, <4>3, <6>1, <6>2 DEF Live, Fixed
        <5> QED  BY <5>1, <5>2 DEF Single
      <4> QED  BY <4>2, <4>3
    <3> QED  BY <1>1, <1>4, <1>6, <3>1, <3>2, <3>4, <3>5, <3>8, <3>9, <3>10
             DEF Chain, Fixed, HeldBelow
  <2> QED  BY <1>5, <1>14, <2>3 DEF Chains
<1>9. mode = "plain" \/ repeats' = 0 => mode = "plain" \/ repeats = 0
  BY <1>1
<1> QED  BY <1>1, <1>4, <1>8, <1>9 DEF WholeInv, Fixed

\* What a request that follows a frame is: it goes to the host of the frame, and asks for
\* no block beyond the one that follows.
LEMMA FollowingRequest ==
    ASSUME StaticInv, NEW f \in frames, Deliver(f), ~f.error,
           NextBlockToSend(f.block1) > 0 \/ (Asks(f) + 1) * Served(request) < length * 16
    PROVE  \E q \in Request, p \in Request :
              /\ wire' = wire \cup {p} /\ p.to = f.from /\ Asks(p) = Asks(q)
              /\ Asks(request)' = Asks(q) /\ Served(request)' = Served(request)
              /\ Asks(p) \in Nat
              /\ \/ Asks(q) = Asks(request) /\ mode = "plain"
                 \/ /\ IsContent(f, Served(request)) /\ NextBlockToSend(f.block1) = 0
                    /\ Asks(q) <= Asks(f) + 1
<1>0. TypeOK /\ SizeInv
  BY DEF StaticInv
<1>1. PICK q \in Request, host \in Hosts :
         /\ SizedRequest(q, Served(request)) /\ SendTo(q, host)
         /\ mode # "multicast" => host = Server
         /\ \/ Asks(q) = Asks(request) /\ upload > 0
            \/ /\ IsContent(f, Served(request)) /\ NextBlockToSend(f.block1) = 0
               /\ host = f.from
               /\ \/ Asks(q) = Asks(f) + 1
                  \/ Asks(q) <= Asks(f)
  BY NextSent
<1>2. /\ (mode # "multicast" => f.from = Server) /\ (upload > 0 => mode = "plain")
  BY <1>0, Constants DEF SizeInv, SizedFrame
<1>3. host = f.from
  BY <1>1, <1>2
<1>4. PICK s : s = Served(request)
  OBVIOUS
<1>5. /\ request'.block2 = q.block2
      /\ \E p \in Request : wire' = wire \cup {p} /\ p.to = host /\ p.block2 = q.block2
      /\ Served(request') = s
  BY <1>0, <1>1, <1>4, SentTyped
<1>6. PICK p \in Request : wire' = wire \cup {p} /\ p.to = f.from /\ p.block2 = q.block2
  BY <1>3, <1>5
<1>7. Asks(p) = Asks(q) /\ Asks(request)' = Asks(q) /\ Served(request)' = s
  BY <1>5, <1>6 DEF Asks, Served
<1>8. Asks(q) \in Nat
  BY <1>1 DEF SizedRequest, Readable, Asks, BlockNumbers
<1>9. IsContent(f, s) => Asks(f) \in Nat
  BY DEF IsContent, BlockNumbers
<1>10. \/ Asks(q) = Asks(request) /\ mode = "plain"
       \/ /\ IsContent(f, Served(request)) /\ NextBlockToSend(f.block1) = 0
          /\ Asks(q) <= Asks(f) + 1
  BY <1>1, <1>2, <1>4, <1>8, <1>9
<1> QED  BY <1>1, <1>4, <1>6, <1>7, <1>8, <1>10

\* The request that follows a frame asks for the block that follows those that are held.
LEMMA SentChain ==
    ASSUME StaticInv, NEW f \in frames, Deliver(f), ~f.error,
           NextBlockToSend(f.block1) > 0 \/ (Asks(f) + 1) * Served(request) < length * 16,
           replies' = Append(replies, Decoded(f)), mode = "plain" \/ repeats' = 0,
           NEW g \in Partners, NEW s, s = Served(request), Chain(g, s)
    PROVE  Chain(g, s)'
<1>0. TypeOK /\ SizeInv
  BY DEF StaticInv
<1>1. Fixed /\ answered' = answered /\ frames' \subseteq frames
      /\ (repeats' = 0 => frames' = frames \ {f})
  BY <1>0, DeliverSteps
<1>2. f \in Frame /\ SizedFrame(f, s)
  BY <1>0 DEF TypeOK, SizeInv
<1>3. PICK h \in Hosts : h = f.from /\ (mode # "multicast" => h = Server)
  BY <1>2 DEF Frame, SizedFrame
<1>4. PICK q \in Request, p \in Request :
         /\ wire' = wire \cup {p} /\ p.to = f.from /\ Asks(p) = Asks(q)
         /\ Asks(request)' = Asks(q)
         /\ Asks(p) \in Nat
         /\ \/ Asks(q) = Asks(request) /\ mode = "plain"
            \/ /\ IsContent(f, s) /\ NextBlockToSend(f.block1) = 0
               /\ Asks(q) <= Asks(f) + 1
  BY FollowingRequest
<1>5. PICK m \in Nat : m = Asks(p) /\ Asks(request)' = m
  BY <1>4
<1>6. PICK r \in InternalReply : r = Decoded(f)
  BY <1>2, DecodedType
<1>7. r.from = h /\ r.number = Asks(f) /\ r.payload = f.payload
  BY <1>3, <1>6 DEF Decoded, Asks
<1>8. replies \in Seq(InternalReply) /\ length' = length /\ replies' = Append(replies, r)
  BY <1>0, <1>1, <1>6 DEF TypeOK, Fixed
<1>9. /\ \A n : HeldBelow(g, n, s) => HeldBelow(g, n, s)'
      /\ GoodReplies(g, s) /\ GoodReply(r, g, s) => GoodReplies(g, s)'
      /\ \A n \in Nat : HeldBelow(g, n, s) /\ r.from = g /\ r.number = n
                        /\ r.payload = Units(g, n, s) => HeldBelow(g, n + 1, s)'
  BY <1>8, RepliesGrow
<1>10. GoodReply(r, g, s)
  BY <1>2, <1>3, <1>7 DEF GoodReply, SizedFrame, IsContent
<1>11. g = h => HeldBelow(g, m, s)'
  <2>1. CASE Asks(q) = Asks(request) /\ mode = "plain"
    <3>1. m = Asks(request)
      BY <1>4, <1>5, <2>1
    <3>2. HeldBelow(g, m, s)
      BY <2>1, <3>1 DEF Chain
    <3> QED  BY <1>9, <3>2
  <2>2. CASE g = h /\ IsContent(f, s) /\ NextBlockToSend(f.block1) = 0 /\ Asks(q) <= Asks(f) + 1
    <3>1. PICK n : n \in Nat /\ n = Asks(f)
      BY <2>2 DEF IsContent, BlockNumbers
    <3>2. HeldBelow(g, n, s)
      BY <1>3, <2>2, <3>1 DEF Chain
    <3>3. r.payload = Units(g, n, s)
      BY <1>3, <1>7, <2>2, <3>1 DEF IsContent
    <3>4. HeldBelow(g, n + 1, s)'
      BY <1>7, <1>9, <2>2, <3>1, <3>2, <3>3
    <3>5. PICK k \in Nat : k = n + 1
      BY <3>1
    <3>6. HeldBelow(g, k, s)'
      BY <3>4, <3>5
    <3>7. m <= k
      BY <1>4, <1>5, <2>2, <3>1, <3>5
    <3> QED  BY <1>5, <3>5, <3>6, <3>7, FewerHeld
  <2> QED  BY <1>4, <2>1, <2>2
<1>12. \A x : Live(x, g)' <=> Live(x, g)
  BY <1>1 DEF Live, Fixed
<1>13. \A x \in wire' : x \in wire \/ x = p
  BY <1>4
<1>14. Live(p, g) => g = h
  BY <1>3, <1>4, HostAssumption DEF Live
<1>15. \A x : Asks(x)' = Asks(x)
  BY DEF Asks
<1>16. \A x \in wire' : Live(x, g)' => HeldBelow(g, Asks(x), s)'
  <2> SUFFICES ASSUME NEW x \in wire', Live(x, g), NEW n, n = Asks(x)
               PROVE  HeldBelow(g, n, s)'
    BY <1>12, <1>15 DEF HeldBelow
  <2>1. CASE x \in wire
    BY <1>9, <2>1 DEF Chain
  <2>2. CASE x = p
    BY <1>5, <1>11, <1>14, <2>2
  <2> QED  BY <1>13, <2>1, <2>2
<1>17. \A x \in frames' : x.from = g /\ ~x.error => HeldBelow(g, Asks(x), s)'
  <2> SUFFICES ASSUME NEW x \in frames', x.from = g, ~x.error, NEW n, n = Asks(x)
               PROVE  HeldBelow(g, n, s)'
    BY <1>15 DEF HeldBelow
  <2> QED  BY <1>1, <1>9 DEF Chain
<1>18. mode = "plain" => HeldBelow(g, m, s)'
  BY <1>3, <1>11 DEF Partners
<1>19. Going(g)' => Going(g)
  BY <1>1, <1>3, <1>12, <1>13, <1>14 DEF Going
<1>20. mode = "plain" \/ Single(g)'
  <2> SUFFICES ASSUME mode # "plain"
               PROVE  Single(g)'
    OBVIOUS
  <2>1. Single(g) /\ frames' = frames \ {f}
    BY <1>1 DEF Chain
  <2>2. CASE g = h
    <3>1. \A x \in frames' : x.from # g
      BY <1>3, <2>1, <2>2 DEF Single
    <3>2. \A x \in wire' : Live(x, g)' => x = p
      BY <1>3, <1>12, <1>13, <2>1, <2>2 DEF Single
    <3> QED  BY <3>1, <3>2 DEF Single
  <2>3. CASE g # h
    <3>1. \A x \in wire' : Live(x, g)' => x \in wire /\ Live(x, g)
      BY <1>12, <1>13, <1>14, <2>3
    <3> QED  BY <2>1, <3>1 DEF Single
  <2> QED  BY <2>2, <2>3
<1>21. Going(g)' => GoodReplies(g, s)'
  BY <1>9, <1>10, <1>19 DEF Chain
<1> QED  BY <1>1, <1>5, <1>15, <1>16, <1>17, <1>18, <1>20, <1>21 DEF Chain, Fixed, HeldBelow

\* After its last block a host has nothing to answer and nothing on its way.
LEMMA EndedChain ==
    ASSUME StaticInv, NEW f \in frames, Deliver(f), wire' = wire, repeats' = 0,
           mode # "plain", NEW s, NEW g \in Partners, Chain(g, s),
           g # f.from => /\ DOMAIN replies \subseteq DOMAIN replies'
                         /\ \A i \in DOMAIN replies : replies'[i] = replies[i]
                         /\ \A i \in DOMAIN replies' : i \in DOMAIN replies
                                                       \/ replies'[i].from # g
    PROVE  Chain(g, s)'
<1>0. TypeOK /\ SizeInv
  BY DEF StaticInv
<1>1. Fixed /\ answered' = answered /\ frames' = frames \ {f}
  BY <1>0, DeliverSteps
<1>2. \A x : Live(x, g)' <=> Live(x, g)
  BY <1>1 DEF Live, Fixed
<1>3. Single(g)
  BY DEF Chain
<1>4. Single(g)'
  BY <1>1, <1>2, <1>3 DEF Single
<1>5. CASE g = f.from
  <2>1. \A x \in frames' : x.from # g
    BY <1>1, <1>3, <1>5 DEF Single
  <2>2. \A x \in wire' : ~ Live(x, g)'
    BY <1>2, <1>3, <1>5 DEF Single
  <2> QED  BY <1>1, <1>4, <2>1, <2>2 DEF Chain, Going, Fixed
<1>6. CASE g # f.from
  <2>1. \A j : Units(g, j, s)' = Units(g, j, s)
    BY <1>1 DEF Units, Whole, First, Upto, Fixed
  <2>2. \A n : HeldBelow(g, n, s) => HeldBelow(g, n, s)'
    BY <1>6, <2>1 DEF HeldBelow, Held
  <2>3. GoodReplies(g, s) => GoodReplies(g, s)'
    BY <1>1, <1>6, <2>1 DEF GoodReplies, GoodReply, Fixed
  <2>4. Going(g)' => Going(g)
    BY <1>1, <1>2 DEF Going
  <2>5. \A x : Asks(x)' = Asks(x)
    BY DEF Asks
  <2>6. \A x \in wire' : Live(x, g)' => HeldBelow(g, Asks(x), s)'
    <3> SUFFICES ASSUME NEW x \in wire', Live(x, g), NEW n, n = Asks(x)
                 PROVE  HeldBelow(g, n, s)'
      BY <1>2, <2>5 DEF HeldBelow
    <3> QED  BY <2>2 DEF Chain
  <2>7. \A x \in frames' : x.from = g /\ ~x.error => HeldBelow(g, Asks(x), s)'
    <3> SUFFICES ASSUME NEW x \in frames', x.from = g, ~x.error, NEW n, n = Asks(x)
                 PROVE  HeldBelow(g, n, s)'
      BY <2>5 DEF HeldBelow
    <3> QED  BY <1>1, <2>2 DEF Chain
  <2> QED  BY <1>1, <1>4, <2>3, <2>4, <2>5, <2>6, <2>7 DEF Chain, Fixed, HeldBelow
<1> QED  BY <1>5, <1>6

\* A frame that arrives adds its block to the replies of its host, or ends the content with
\* all blocks there.
LEMMA WholeDeliver ==
    ASSUME StaticInv, WholeInv, NEW f \in frames, Deliver(f)
    PROVE  WholeInv'
<1>0. TypeOK /\ SizeInv
  BY DEF StaticInv
<1>1. /\ Fixed /\ stage = "running" /\ repeats' \in Nat /\ repeats <= repeats'
  BY <1>0, DeliverSteps
<1>2. repeats \in Nat
  BY <1>0, BoundAssumption DEF TypeOK
<1>3. mode' = "plain" \/ repeats' = 0 => mode = "plain" \/ repeats = 0
  BY <1>1, <1>2 DEF Fixed
<1>4. f \in Frame /\ SizedFrame(f, Served(request))
  BY <1>0 DEF TypeOK, SizeInv
<1>5. PICK h \in Hosts : h = f.from /\ (mode # "multicast" => h = Server)
  BY <1>4 DEF Frame, SizedFrame
<1>6. PICK s : s = Served(request)
  OBVIOUS
<1>7. \A x : Whole(x)' = Whole(x)
  BY <1>1 DEF Fixed, Whole
<1>8. Partners' = Partners /\ h \in Partners
  BY <1>1, <1>5 DEF Fixed, Partners
<1>9. mode = "plain" \/ repeats = 0 =>
         /\ \A g \in Partners : Chain(g, s)
         /\ \A c \in handed : c.payload = Whole(c.from)
  BY <1>1, <1>6 DEF WholeInv, Chains
<1>10. mode # "multicast" => \A i \in DOMAIN replies : replies[i].from = Server
  BY DEF WholeInv
<1>11. PICK r : r = Decoded(f) /\ r \in InternalReply
  BY <1>4, DecodedType
<1>12. PICK all : all = Append(replies, r) /\ all \in Seq(InternalReply)
  <2>1. Append(replies, r) \in Seq(InternalReply)
    BY <1>0, <1>11, ReplyAdded
  <2> QED  BY <2>1
<1>13. replies \in Seq(InternalReply)
  BY <1>0 DEF TypeOK
<1>14. /\ Len(all) = Len(replies) + 1 /\ Len(replies) \in Nat
       /\ DOMAIN all = 1..Len(all) /\ DOMAIN replies = 1..Len(replies)
       /\ \A i \in DOMAIN replies : all[i] = replies[i]
       /\ all[Len(all)] = r
  BY <1>11, <1>12, <1>13
<1>15. r.from = h
  BY <1>5, <1>11 DEF Decoded
<1>16. CASE f.error /\ stage' = "failed" /\ replies' = <<>> /\ UNCHANGED handed
  BY <1>1, <1>2, <1>9, <1>16, WholeEnds
<1>17. CASE /\ ~f.error /\ replies' = all /\ UNCHANGED <<stage, handed>>
            /\ NextBlockToSend(f.block1) > 0 \/ (Asks(f) + 1) * Served(request) < length * 16
  <2>1. mode # "multicast" => \A i \in DOMAIN replies' : replies'[i].from = Server
    BY <1>5, <1>10, <1>14, <1>15, <1>17
  <2>2. Served(request)' = s
    BY <1>6, <1>17, FollowingRequest
  <2>3. ASSUME mode = "plain" \/ repeats' = 0, NEW g \in Partners
        PROVE  Chain(g, s)'
    <3>1. Chain(g, s)
      BY <1>1, <1>2, <1>9, <2>3
    <3>2. replies' = Append(replies, Decoded(f))
      BY <1>11, <1>12, <1>17
    <3> QED  BY <1>6, <1>17, <2>3, <3>1, <3>2, SentChain
  <2>4. mode = "plain" \/ repeats' = 0 => Chains'
    BY <1>8, <2>2, <2>3 DEF Chains
  <2> QED  BY <1>1, <1>3, <1>7, <1>9, <1>17, <2>1, <2>4 DEF WholeInv, Fixed
<1>18. CASE /\ ~f.error /\ IsContent(f, s) /\ ~ (Asks(f) + 1) * s < length * 16
            /\ OnLastMessage(all, h)
  <2>1. PICK content : content = FinalPayload(all, h)
    OBVIOUS
  <2>2. mode = "plain" \/ repeats = 0 => content = Whole(h)
    BY <1>0, <1>5, <1>6, <1>8, <1>9, <1>10, <1>11, <1>12, <1>18, <2>1, LastMakesWhole
  <2>3. /\ handed' = handed \cup {[from |-> h, payload |-> content]}
        /\ stage' = IF mode = "plain" THEN "done" ELSE stage
        /\ replies' = IF mode = "multicast"
                      THEN [all EXCEPT ![Len(all)].payload = content] ELSE <<>>
        /\ request' = request /\ wire' = wire
    BY <1>18, <2>1 DEF OnLastMessage
  <2>4. mode = "plain" \/ repeats = 0 => \A c \in handed' : c.payload = Whole(c.from)
    BY <1>9, <2>2, <2>3
  <2>5. CASE mode = "plain"
    BY <1>1, <1>2, <2>3, <2>4, <2>5, WholeEnds
  <2>6. CASE mode # "plain"
    <3>1. mode = "multicast" =>
             /\ DOMAIN replies' = DOMAIN all
             /\ \A i \in DOMAIN replies : replies'[i] = replies[i]
             /\ \A i \in DOMAIN replies' : i \in DOMAIN replies \/ i = Len(all)
             /\ replies'[Len(all)].from = h
      <4> SUFFICES ASSUME mode = "multicast"
                   PROVE  /\ DOMAIN replies' = DOMAIN all
                          /\ \A i \in DOMAIN replies : replies'[i] = replies[i]
                          /\ \A i \in DOMAIN replies' : i \in DOMAIN replies \/ i = Len(all)
                          /\ replies'[Len(all)].from = h
        OBVIOUS
      <4>1. PICK l : l = Len(all) /\ l \in Nat /\ DOMAIN all = 1..l /\ DOMAIN replies = 1..(l - 1)
                     /\ all[l] = r /\ l >= 1
        BY <1>14
      <4>2. PICK x : x = [r EXCEPT !.payload = content] /\ x \in InternalReply /\ x.from = h
        <5>1. content \in Payload
          <6>1. Len(all) >= 1
            BY <4>1
          <6> QED  BY <1>12, <1>18, <2>1, <6>1, HandsOver
        <5>2. PICK x : x = [r EXCEPT !.payload = content]
          OBVIOUS
        <5>3. x \in InternalReply /\ x.from = h
          BY <1>11, <1>15, <5>1, <5>2 DEF InternalReply
        <5> QED  BY <5>2, <5>3
      <4>3. replies' = [all EXCEPT ![l] = x]
        BY <2>3, <4>1, <4>2
      <4>6. replies' = [i \in 1..l |-> IF i = l THEN x ELSE all[i]]
        BY <4>1, <4>3
      <4>4. DOMAIN replies' = 1..l /\ replies'[l].from = h
        <5>1. l \in 1..l
          BY <4>1
        <5>2. DOMAIN replies' = 1..l /\ replies'[l] = x
          BY <4>6, <5>1
        <5> QED  BY <4>2, <5>2
      <4>5. \A i \in 1..(l - 1) : replies'[i] = all[i]
        BY <4>1, <4>6
      <4> QED  BY <1>14, <4>1, <4>4, <4>5
    <3>2. mode # "multicast" => \A i \in DOMAIN replies' : replies'[i].from = Server
      BY <2>3
    <3>3. ASSUME repeats' = 0, NEW g \in Partners
          PROVE  Chain(g, s)'
      <4>1. Chain(g, s)
        BY <1>1, <1>2, <1>9, <3>3
      <4>2. g # h => mode = "multicast"
        BY <1>5, <3>3 DEF Partners
      <4>3. CASE g = h
        <5>1. g = f.from
          BY <1>5, <4>3
        <5> QED  BY <2>3, <2>6, <3>3, <4>1, <5>1, EndedChain
      <4>4. CASE g # h
        <5>1. /\ DOMAIN replies \subseteq DOMAIN replies'
              /\ \A i \in DOMAIN replies : replies'[i] = replies[i]
              /\ \A i \in DOMAIN replies' : i \in DOMAIN replies \/ replies'[i].from # g
          BY <1>14, <3>1, <4>2, <4>4
        <5> QED  BY <1>5, <2>3, <2>6, <3>3, <4>1, <5>1, EndedChain
      <4> QED  BY <4>3, <4>4
    <3>4. Served(request)' = s
      BY <1>6, <2>3 DEF Served
    <3>5. repeats' = 0 => Chains'
      BY <1>8, <3>3, <3>4 DEF Chains
    <3> QED  BY <1>1, <1>3, <1>7, <2>4, <2>6, <3>2, <3>5 DEF WholeInv, Fixed
  <2> QED  BY <2>5, <2>6
<1> QED
  <2>1. \/ f.error /\ stage' = "failed" /\ replies' = <<>> /\ UNCHANGED handed
        \/ /\ ~f.error /\ replies' = all /\ UNCHANGED <<stage, handed>>
           /\ NextBlockToSend(f.block1) > 0 \/ (Asks(f) + 1) * Served(request) < length * 16
        \/ /\ ~f.error /\ IsContent(f, s) /\ ~ (Asks(f) + 1) * s < length * 16
           /\ OnLastMessage(all, h)
    BY <1>0, <1>5, <1>6, <1>11, <1>12, DeliverSteps
  <2> QED  BY <1>16, <1>17, <1>18, <2>1

\* In every reachable state the blocks before the one that is asked for or on its way are
\* among the replies (for observe and multicast while nothing is repeated), and what has
\* been handed over is whole.
THEOREM WholeHolds == Spec => []WholeInv
<1>1. ASSUME StaticInv, WholeInv, [Next]_vars
      PROVE  WholeInv'
  <2>1. ASSUME NEW a, SetBlockSize(a)
        PROVE  WholeInv'
    <3>1. Fixed /\ UNCHANGED <<stage, request, replies, handed, wire, answered, frames, repeats>>
      BY <2>1 DEF SetBlockSize, network, Fixed
    <3> QED  BY <1>1, <3>1, WholeStays
  <2>2. CASE Next
    BY <1>1, <2>1, <2>2, WholeStart, WholeDeliver, WholeExpire, WholeAnswer DEF Next
  <2>3. CASE UNCHANGED vars
    <3>1. Fixed /\ UNCHANGED <<stage, request, replies, handed, wire, answered, frames, repeats>>
      BY <2>3 DEF vars, Fixed
    <3> QED  BY <1>1, <3>1, WholeStays
  <2> QED  BY <1>1, <2>2, <2>3
<1> QED  BY <1>1, StaticHolds, WholeInit, PTL DEF Spec

\* Every content that onLastMessageReceived hands over is the whole content of one host, for
\* any length of content, any sizes and any order of the frames, and for a plain request with
\* any repeats: no block is missing, twice or in the wrong place.
THEOREM ContentsAreWhole == Spec => []WholeContents
<1>1. WholeInv => WholeContents
  BY DEF WholeInv, WholeContents
<1> QED  BY <1>1, WholeHolds, PTL

(***************************************************************************)
(* Transfers.  Whoever answers a request that covers the payload has the   *)
(* whole of it: it is told that more follows, or it has the last unit      *)
(* already, or the request carries it, or there is a gap before it.        *)
(***************************************************************************)
Covers(q) ==
    \/ NextBlockToSend(q.block1) > 0
    \/ received[Server] = upload
    \/ upload \in q.payload
    \/ q.block1 # NoOption /\ BlockStart(q) >= upload

DoneInv ==
    /\ received[Server] <= upload
    /\ mode = "plain" =>
         /\ stage # "done" => handed = {}
         /\ \A q \in wire \cup {request} : Covers(q)
         /\ \A f \in frames : ~f.error /\ NextBlockToSend(f.block1) = 0 => received[Server] = upload

\* Nothing is received, and the request carries the whole payload.
LEMMA DoneInit == Init => DoneInv
<1> SUFFICES ASSUME Init  PROVE DoneInv
  OBVIOUS
<1>1. TypeOK
  BY StaticInit DEF StaticInv
<1>2. received[Server] = 0 /\ upload \in Nat
  BY <1>1, Constants, HostAssumption DEF Init
<1>3. upload > 0 => upload \in 1..upload
  BY <1>2
<1>4. request.payload = 1..upload
  BY DEF Init
<1>5. Covers(request)
  BY <1>2, <1>3, <1>4 DEF Covers
<1>6. wire = {} /\ frames = {} /\ handed = {}
  BY DEF Init
<1> QED  BY <1>2, <1>5, <1>6 DEF DoneInv

\* A request that carries a block covers the payload.
LEMMA CarriedCovers ==
    ASSUME NEW q \in Request, NEW n \in BlockNumbers, IsBlockSize(size), upload \in Nat \ {0},
           NEW p, p = SetToSendBlock(q, n, size)
    PROVE  Covers(p)
<1>1. /\ p.payload = Slice(n, size, upload) /\ p.block1 # NoOption /\ BlockNumber(p.block1) = n
      /\ HasNextBlock(p.block1) <=> (n + 1) * size < upload * 16
      /\ size > 0 => BlockSize(p.block1) = size
  BY CarriesBlock
<1>2. n \in Nat /\ size \in Nat
  BY DEF BlockNumbers, IsBlockSize, BlockSizes
<1>3. CASE (n + 1) * size < upload * 16
  <2>1. NextBlockToSend(p.block1) = n + 1
    BY <1>1, <1>3 DEF NextBlockToSend
  <2> QED  BY <1>2, <2>1 DEF Covers
<1>4. CASE ~ (n + 1) * size < upload * 16
  <2>1. size > 0
    BY <1>2, <1>4
  <2>2. PICK a \in Nat : a = (n * size) \div 16
    <3>1. PICK x \in Nat : x = n * size
      BY <1>2
    <3>2. x \div 16 \in Nat
      BY SMT
    <3> QED  BY <3>1, <3>2
  <2>3. BlockStart(p) = a
    BY <1>1, <2>1, <2>2 DEF BlockStart
  <2>4. p.payload = a + 1 .. upload
    BY <1>1, <1>4, <2>2 DEF Slice
  <2>5. a >= upload \/ upload \in a + 1 .. upload
    BY <2>2
  <2> QED  BY <1>1, <2>3, <2>4, <2>5 DEF Covers
<1> QED  BY <1>3, <1>4

\* What covers the payload goes on doing so, whatever more the server gets.
LEMMA CoversStays ==
    ASSUME Fixed, received[Server] = upload => received'[Server] = upload
    PROVE  \A q : Covers(q) => Covers(q)'
BY DEF Fixed, Covers, BlockStart

\* What makes a request cover the payload is what it carries.
LEMMA SameCovers ==
    ASSUME NEW q, NEW p, p.block1 = q.block1, p.payload = q.payload, Covers(q)
    PROVE  Covers(p)
BY DEF Covers, BlockStart

\* Nothing is received, and no request sent.
LEMMA DoneStays ==
    ASSUME DoneInv, Fixed, received' = received, frames' \subseteq frames,
           wire' = wire, request' = request,
           mode = "plain" /\ stage' # "done" => stage # "done" /\ handed' = handed
    PROVE  DoneInv'
<1>1. \A q : Covers(q) => Covers(q)'
  BY CoversStays DEF Fixed
<1> QED  BY <1>1 DEF DoneInv, Fixed

\* A request that covers the payload may be sent.
LEMMA DoneSent ==
    ASSUME StaticInv, DoneInv, Fixed, received' = received, frames' \subseteq frames,
           mode = "plain" => handed' = {}, NEW q \in Request, NEW host \in Hosts \cup {Group},
           SendTo(q, host), SizedRequest(q, Served(q)), mode # "multicast" => host = Server,
           mode = "plain" => Covers(q)
    PROVE  DoneInv'
<1>0. TypeOK /\ SizeInv
  BY DEF StaticInv
<1>1. PICK s : s = Served(q)
  OBVIOUS
<1>2. /\ \E p \in Request : wire' = wire \cup {p} /\ p.block1 = q.block1 /\ p.payload = q.payload
      /\ request'.block1 = q.block1 /\ request'.payload = q.payload
  BY <1>0, <1>1, SentTyped
<1>3. PICK p : wire' = wire \cup {p} /\ p.block1 = q.block1 /\ p.payload = q.payload
  BY <1>2
<1>4. PICK r : r = request' /\ r.block1 = q.block1 /\ r.payload = q.payload
  BY <1>2
<1>5. mode = "plain" => Covers(p) /\ Covers(r)
  BY <1>3, <1>4, SameCovers
<1>6. \A x : Covers(x) => Covers(x)'
  BY CoversStays DEF Fixed
<1>7. mode = "plain" => \A x \in wire' \cup {r} : Covers(x)'
  BY <1>3, <1>5, <1>6 DEF DoneInv
<1>8. mode = "plain" => \A x \in wire' \cup {request'} : Covers(x)'
  BY <1>4, <1>7
<1> QED  BY <1>8 DEF DoneInv, Fixed

\* The first request carries the whole payload or its first block.
LEMMA DoneStart ==
    ASSUME StaticInv, DoneInv, StartRequest
    PROVE  DoneInv'
<1>0. TypeOK /\ SizeInv
  BY DEF StaticInv
<1>1. /\ Fixed /\ stage = "idle" /\ frames' = {} /\ handed' = {} /\ UNCHANGED network
  BY StartSteps
<1>2. PICK q \in Request :
         /\ SizedRequest(q, Served(q)) /\ SendTo(q, request.to)
         /\ \/ q.payload = request.payload /\ q.block1 = NoOption
            \/ \E p \in Request : upload > 0 /\ size > 0 /\ q = SetToSendBlock(p, 0, size)
  BY StartSteps
<1>3. PICK host \in Hosts \cup {Group} :
         host = request.to /\ (mode # "multicast" => host = Server)
  BY <1>0 DEF TypeOK, Request, SizeInv, SizedRequest
<1>4. SizedRequest(q, Served(q)) /\ SendTo(q, host)
  BY <1>2, <1>3 DEF SizedRequest
<1>5. mode = "plain" => Covers(q)
  <2>1. CASE q.payload = request.payload /\ q.block1 = NoOption
    <3>1. request.block1 = NoOption
      BY <1>0, <1>1 DEF SizeInv
    <3>2. PICK r : r = request
      OBVIOUS
    <3>3. mode = "plain" => Covers(r)
      BY <3>2 DEF DoneInv
    <3> QED  BY <2>1, <3>1, <3>2, <3>3, SameCovers
  <2>2. CASE \E p \in Request : upload > 0 /\ size > 0 /\ q = SetToSendBlock(p, 0, size)
    <3>1. PICK p \in Request : upload > 0 /\ size > 0 /\ q = SetToSendBlock(p, 0, size)
      BY <2>2
    <3>2. PICK n : n = 0 /\ n \in BlockNumbers
      BY DEF BlockNumbers
    <3>3. q = SetToSendBlock(p, n, size) /\ upload \in Nat \ {0} /\ IsBlockSize(size)
      BY <1>0, <3>1, <3>2, Constants DEF TypeOK, IsBlockSize
    <3> QED  BY <3>1, <3>2, <3>3, CarriedCovers
  <2> QED  BY <1>2, <2>1, <2>2
<1>6. received' = received /\ frames' \subseteq frames
  BY <1>1 DEF network
<1> QED  BY <1>1, <1>3, <1>4, <1>5, <1>6, DoneSent

\* The next block covers the payload, and the content is only asked for when the server has
\* it.
LEMMA DoneDeliver ==
    ASSUME StaticInv, DoneInv, NEW f \in frames, Deliver(f)
    PROVE  DoneInv'
<1>0. TypeOK /\ SizeInv
  BY DEF StaticInv
<1>1. /\ Fixed /\ stage = "running" /\ received' = received /\ frames' \subseteq frames
      /\ IsBlockSize(size)
  BY <1>0, DeliverSteps DEF TypeOK, IsBlockSize
<1>2. CASE UNCHANGED <<request, wire, handed>>
  BY <1>1, <1>2, DoneStays
<1>3. CASE OnLastMessage(Append(replies, Decoded(f)), f.from)
  BY <1>1, <1>3, DoneStays DEF OnLastMessage
<1>4. CASE /\ ~f.error /\ UNCHANGED handed
           /\ NextBlockToSend(f.block1) > 0 \/ (Asks(f) + 1) * Served(request) < length * 16
  <2>1. PICK q \in Request, host \in Hosts :
           /\ SizedRequest(q, Served(request)) /\ SendTo(q, host)
           /\ mode # "multicast" => host = Server
           /\ \/ q = SetToSendBlock(request, NextBlockToSend(f.block1), size) /\ upload > 0
              \/ NextBlockToSend(f.block1) = 0
    BY <1>4, NextSent
  <2>2. mode = "plain" => Covers(q)
    <3>1. CASE q = SetToSendBlock(request, NextBlockToSend(f.block1), size) /\ upload > 0
      <4>1. PICK n : n = NextBlockToSend(f.block1)
        OBVIOUS
      <4>2. q = SetToSendBlock(request, n, size)
        BY <3>1, <4>1
      <4>3. CASE n \in BlockNumbers
        <5>1. request \in Request /\ upload \in Nat \ {0}
          BY <1>0, <3>1, Constants DEF TypeOK
        <5> QED  BY <1>1, <4>2, <4>3, <5>1, CarriedCovers
      <4>4. CASE n \notin BlockNumbers
        <5>1. q = request
          BY <4>2, <4>4 DEF SetToSendBlock, CheckBlockNumber
        <5> QED  BY <5>1 DEF DoneInv
      <4> QED  BY <4>3, <4>4
    <3>2. CASE NextBlockToSend(f.block1) = 0
      BY <1>4, <3>2 DEF DoneInv, Covers
    <3> QED  BY <2>1, <3>1, <3>2
  <2>3. SizedRequest(q, Served(q))
    BY <2>1 DEF SizedRequest
  <2>4. mode = "plain" => handed' = {}
    BY <1>1, <1>4 DEF DoneInv
  <2> QED  BY <1>1, <2>1, <2>2, <2>3, <2>4, DoneSent
<1> QED  BY <1>0, <1>2, <1>3, <1>4, DeliverSteps

\* What an answer does to what the server has.
LEMMA ReceivedGrows ==
    ASSUME StaticInv, DoneInv, NEW q \in wire, NEW h \in Hosts, Answer(q, h)
    PROVE  /\ received'[Server] <= upload
           /\ received[Server] = upload => received'[Server] = upload
           /\ received' = [received EXCEPT ![h] = Max({received[h]} \cup q.payload)] /\ h = Server
                => received[Server] <= received'[Server]
                   /\ \A y \in q.payload : y <= received'[Server]
<1>0. TypeOK /\ SizeInv
  BY DEF StaticInv
<1>1. /\ \/ received' = received
         \/ received' = [received EXCEPT ![h] = Max({received[h]} \cup q.payload)]
  BY <1>0, AnswerSteps
<1>2. upload \in Nat /\ received \in [Hosts -> Nat] /\ Server \in Hosts /\ received[Server] <= upload
  BY <1>0, Constants, HostAssumption DEF TypeOK, DoneInv
<1>3. PICK U \in SUBSET (1..upload) : U = q.payload
  BY <1>0 DEF SizeInv, SizedRequest
<1>4. PICK r \in Nat : r = received[h]
  BY <1>2
<1>5. /\ Max({r} \cup U) \in {r} \cup U /\ Max({r} \cup U) \in Nat
      /\ \A y \in {r} \cup U : y <= Max({r} \cup U)
  BY <1>2, MaxOfUnits
<1>6. PICK m : m = Max({r} \cup U)
  OBVIOUS
<1>7. m \in Nat /\ r <= m /\ (m = r \/ m <= upload) /\ \A y \in U : y <= m
  BY <1>2, <1>5, <1>6
<1>8. received' = received \/ received' = [received EXCEPT ![h] = m]
  BY <1>1, <1>3, <1>4, <1>6
<1>9. CASE h = Server
  <2>1. received'[Server] = received[Server] \/ received'[Server] = m
    BY <1>2, <1>8
  <2>2. received' = [received EXCEPT ![h] = Max({received[h]} \cup q.payload)]
          => received'[Server] = m
    BY <1>2, <1>3, <1>4, <1>6, <1>9
  <2> QED  BY <1>2, <1>3, <1>4, <1>7, <1>9, <2>1, <2>2
<1>10. CASE h # Server
  <2>1. received'[Server] = received[Server]
    BY <1>2, <1>8, <1>10
  <2> QED  BY <1>2, <1>10, <2>1
<1> QED  BY <1>9, <1>10

\* A server that sends content has the payload.
LEMMA DoneAnswer ==
    ASSUME StaticInv, DoneInv, NEW q \in wire, NEW h \in Hosts, Answer(q, h)
    PROVE  DoneInv'
<1>0. TypeOK /\ SizeInv
  BY DEF StaticInv
<1>1. /\ Fixed /\ UNCHANGED client /\ (mode # "multicast" => h = Server)
  BY <1>0, AnswerSteps
<1>2. PICK f \in Frame : frames' = frames \cup {f} /\ AnswersWith(f, q, h)
  BY <1>0, AnswerSteps
<1>3. /\ received'[Server] <= upload
      /\ received[Server] = upload => received'[Server] = upload
  BY ReceivedGrows
<1>4. \A x : Covers(x) => Covers(x)'
  BY <1>1, <1>3, CoversStays
<1>5. ASSUME mode = "plain", ~f.error, NextBlockToSend(f.block1) = 0
      PROVE  received'[Server] = upload
  <2>0. ~ (NextBlockToSend(f.block1) > 0)
    BY <1>5
  <2>1. /\ h = Server /\ ~ (NextBlockToSend(q.block1) > 0)
        /\ q.block1 # NoOption => BlockStart(q) <= received[h]
        /\ received' = [received EXCEPT ![h] = Max({received[h]} \cup q.payload)]
    BY <1>1, <1>2, <1>5, <2>0 DEF AnswersWith
  <2>2. /\ received[Server] <= received'[Server]
        /\ \A y \in q.payload : y <= received'[Server]
    BY <2>1, ReceivedGrows
  <2>3. upload \in Nat /\ received[Server] \in Nat /\ received'[Server] \in Nat
    <3>1. received' \in [Hosts -> Nat]
      BY StaticAnswer DEF StaticInv, TypeOK
    <3> QED  BY <1>0, <3>1, Constants, HostAssumption DEF TypeOK
  <2>4. BlockStart(q) \in Nat \/ q.block1 = NoOption
    <3>1. q.block1 \in Block
      BY <1>0 DEF TypeOK, Request
    <3>2. CASE q.block1 # NoOption
      <4>1. PICK n \in Nat, z \in Nat : n = BlockNumber(q.block1) /\ z = BlockSize(q.block1)
        BY <3>1, <3>2, ReadNumbers
      <4>2. PICK x \in Nat : x = n * z
        BY <4>1
      <4>3. x \div 16 \in Nat
        BY SMT
      <4> QED  BY <4>1, <4>2, <4>3 DEF BlockStart
    <3> QED  BY <3>2
  <2>5. Covers(q)
    BY <1>5 DEF DoneInv
  <2>6. PICK b : b = BlockStart(q)
    OBVIOUS
  <2>7. \/ received[Server] = upload \/ upload \in q.payload
        \/ q.block1 # NoOption /\ b >= upload
    BY <2>1, <2>5, <2>6 DEF Covers
  <2> QED  BY <1>3, <2>1, <2>2, <2>3, <2>4, <2>6, <2>7
<1>6. wire' = wire /\ request' = request /\ stage' = stage /\ handed' = handed
  BY <1>1 DEF client
<1>7. PICK r : r = request
  OBVIOUS
<1>8. mode = "plain" => \A x \in wire' \cup {request'} : Covers(x)'
  BY <1>4, <1>6, <1>7 DEF DoneInv
<1> QED  BY <1>1, <1>2, <1>3, <1>5, <1>6, <1>8 DEF DoneInv, Fixed

\* In every reachable state a server that sends the content of a plain request has the whole
\* payload, and nothing is handed over before the exchange is done.
THEOREM DoneHolds == Spec => []DoneInv
<1>1. ASSUME StaticInv, DoneInv, [Next]_vars
      PROVE  DoneInv'
  <2>1. ASSUME NEW a, SetBlockSize(a)
        PROVE  DoneInv'
    BY <1>1, <2>1, DoneStays DEF SetBlockSize, network, Fixed
  <2>2. CASE Expire
    <3>1. /\ Fixed /\ received' = received /\ frames' \subseteq frames /\ wire' = wire
          /\ request' = request /\ handed' = handed /\ stage # "done"
      BY <2>2 DEF Expire, network, Fixed
    <3> QED  BY <1>1, <3>1, DoneStays
  <2>3. CASE UNCHANGED vars
    BY <1>1, <2>3, DoneStays DEF vars, Fixed
  <2> QED  BY <1>1, <2>1, <2>2, <2>3, DoneStart, DoneDeliver, DoneAnswer DEF Next
<1> QED  BY <1>1, StaticHolds, DoneInit, PTL DEF Spec

\* A step that the user of a plain request does not see.
Unseen ==
    /\ Fixed
    /\ mode = "plain" => /\ handed' = handed
                         /\ received'[Server] = upload <=> received[Server] = upload
                         /\ \/ stage' = stage
                            \/ stage = "idle" /\ stage' = "running"

TransferStep == Transfer!Next \/ UNCHANGED Transfer!transferVars

\* Such a step leaves the transfer as it is.
LEMMA UnseenStep ==
    ASSUME Unseen
    PROVE  TransferStep
<1>1. CASE mode # "plain"
  BY <1>1 DEF Unseen, Fixed, TransferStep, Transfer!transferVars
<1>2. CASE mode = "plain"
  <2>1. Whole(Server)' = Whole(Server)
    BY DEF Unseen, Fixed, Whole
  <2> QED  BY <1>2, <2>1 DEF Unseen, Fixed, TransferStep, Transfer!transferVars
<1> QED  BY <1>1, <1>2

\* The end of a transfer without its content.
LEMMA FailStep ==
    ASSUME Fixed, mode = "plain", stage = "running", stage' = "failed", handed' = handed,
           received' = received
    PROVE  TransferStep
<1>1. Whole(Server)' = Whole(Server)
  BY DEF Fixed, Whole
<1>2. Transfer!Fail
  BY <1>1 DEF Fixed, Transfer!Fail
<1> QED  BY <1>2 DEF TransferStep, Transfer!Next

\* The answer with which the server has the whole payload is the upload, any other is unseen.
LEMMA TransferAnswers ==
    ASSUME StaticInv, DoneInv, NEW q \in wire, NEW h \in Hosts, Answer(q, h)
    PROVE  TransferStep
<1>0. TypeOK /\ SizeInv
  BY DEF StaticInv
<1>1. Fixed /\ UNCHANGED client /\ stage = "running"
  BY <1>0, AnswerSteps
<1>2. received[Server] = upload => received'[Server] = upload
  BY ReceivedGrows
<1>3. CASE mode = "plain" /\ received[Server] # upload /\ received'[Server] = upload
  <2>1. handed = {} /\ handed' = {} /\ stage' = "running"
    BY <1>1, <1>3 DEF DoneInv, client
  <2>2. Transfer!Upload
    BY <1>1, <1>3, <2>1 DEF Fixed, Transfer!Upload
  <2> QED  BY <2>2 DEF TransferStep, Transfer!Next
<1>4. CASE ~ (mode = "plain" /\ received[Server] # upload /\ received'[Server] = upload)
  BY <1>1, <1>2, <1>4, UnseenStep DEF Unseen, client
<1> QED  BY <1>3, <1>4

\* The last frame hands the content over, an error fails the transfer.
LEMMA TransferDelivers ==
    ASSUME StaticInv, WholeInv, DoneInv, NEW f \in frames, Deliver(f)
    PROVE  TransferStep
<1>0. TypeOK /\ SizeInv
  BY DEF StaticInv
<1>1. /\ Fixed /\ stage = "running" /\ received' = received
  BY <1>0, DeliverSteps
<1>2. CASE mode # "plain" \/ UNCHANGED <<stage, handed>>
  BY <1>1, <1>2, UnseenStep DEF Unseen
<1>3. CASE mode = "plain" /\ stage' = "failed" /\ UNCHANGED handed
  BY <1>1, <1>3, FailStep
<1>4. CASE /\ mode = "plain" /\ ~f.error /\ NextBlockToSend(f.block1) = 0
           /\ OnLastMessage(Append(replies, Decoded(f)), f.from)
  <2>1. received[Server] = upload /\ handed = {}
    BY <1>1, <1>4 DEF DoneInv
  <2>2. f.from = Server
    BY <1>0, <1>4 DEF SizeInv, SizedFrame
  <2>3. PICK content :
           /\ handed' = handed \cup {[from |-> Server, payload |-> content]}
           /\ stage' = "done"
    BY <1>4, <2>2 DEF OnLastMessage
  <2>4. content = Whole(Server)
    <3>1. WholeInv'
      BY WholeDeliver
    <3>2. \A c \in handed' : c.payload = Whole(c.from)'
      BY <1>1, <1>4, <3>1 DEF WholeInv, Fixed
    <3>3. Whole(Server)' = Whole(Server)
      BY <1>1 DEF Fixed, Whole
    <3>4. [from |-> Server, payload |-> content] \in handed'
      BY <2>3
    <3>5. \A x : Whole(x)' = Whole(x)
      BY <1>1 DEF Fixed, Whole
    <3> QED  BY <3>2, <3>4, <3>5
  <2>5. handed' = {[from |-> Server, payload |-> Whole(Server)]}
        /\ Whole(Server)' = Whole(Server)
    BY <1>1, <2>1, <2>3, <2>4 DEF Fixed, Whole
  <2>6. Transfer!HandOver
    BY <1>1, <1>4, <2>1, <2>3, <2>5 DEF Fixed, Transfer!HandOver
  <2> QED  BY <2>6 DEF TransferStep, Transfer!Next
<1> QED  BY <1>0, <1>2, <1>3, <1>4, DeliverSteps

\* A plain request is a CoapTransfer: through blocks, repeats and reordering the user sees
\* the payload arrive, then the whole content, once, or a failure and no content.
THEOREM TransferImplemented == Spec => ImplementsTransfer
<1>1. Init => Transfer!Init
  <2> SUFFICES ASSUME Init PROVE Transfer!Init
    OBVIOUS
  <2>1. stage = "idle" /\ handed = {}
    BY DEF Init
  <2> QED  BY <2>1 DEF Transfer!Init
<1>2. ASSUME StaticInv, WholeInv, DoneInv, [Next]_vars
      PROVE  TransferStep
  <2>1. ASSUME NEW a, SetBlockSize(a)
        PROVE  TransferStep
    BY <2>1, UnseenStep DEF Unseen, SetBlockSize, network, Fixed
  <2>2. CASE StartRequest
    <3>1. Fixed /\ stage = "idle" /\ stage' = "running" /\ handed' = handed /\ received' = received
      BY <2>2 DEF StartRequest, network, Fixed
    <3> QED  BY <3>1, UnseenStep DEF Unseen
  <2>3. CASE Expire
    <3>1. Fixed /\ stage = "running" /\ handed' = handed /\ received' = received
          /\ (mode # "multicast" => stage' = "failed")
      BY <2>3 DEF Expire, network, Fixed
    <3>2. CASE mode = "plain"
      BY <3>1, <3>2, FailStep
    <3>3. CASE mode # "plain"
      BY <3>1, <3>3, UnseenStep DEF Unseen
    <3> QED  BY <3>2, <3>3
  <2>4. CASE UNCHANGED vars
    BY <2>4, UnseenStep DEF vars, Unseen, Fixed
  <2> QED  BY <1>2, <2>1, <2>2, <2>3, <2>4, TransferAnswers, TransferDelivers DEF Next
<1>3. StaticInv /\ WholeInv /\ DoneInv /\ [Next]_vars
         => [Transfer!Next]_(Transfer!transferVars)
  BY <1>2 DEF TransferStep
<1> QED  BY <1>1, <1>3, StaticHolds, WholeHolds, DoneHolds, PTL
         DEF Spec, ImplementsTransfer, Transfer!Spec
=============================================================================
