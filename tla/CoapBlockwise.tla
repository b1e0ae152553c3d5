--------------------------- MODULE CoapBlockwise ---------------------------
(***************************************************************************)
(* The blockwise transfer of one exchange: the payload of the request goes *)
(* to the server in Block1 blocks, the content of the response comes back  *)
(* in Block2 blocks, and the blocks that came are merged.                  *)
(*                                                                         *)
(* Data is counted in units of 16 bytes, the smallest block; the last unit *)
(* may be shorter.  The payload of the request is the units 1..upload, the *)
(* content host h holds is the sequence Whole(h).                          *)
(*                                                                         *)
(* The network keeps every request and, until they are delivered, the      *)
(* frames that answer them: both may be delayed and overtake each other.   *)
(* A request that is answered again (it was duplicated or retransmitted,   *)
(* or the answer is a notification of an observed resource) and a frame    *)
(* that is delivered again count as repeats.  Acknowledgments, tokens, the *)
(* retransmission schedule and a cancelled observation are in module       *)
(* QCoapProtocol.                                                          *)
(***************************************************************************)
EXTENDS Naturals, Sequences, FiniteSets, SequencesExt, CoapBlockOption

CONSTANTS
    Hosts,          \* the hosts that hold the resource
    Server,         \* the one that a unicast request is for
    Group,          \* the multicast group of all of them
    Transfers,      \* the requests the user may send, with the length of the content
    SizeArguments,  \* what the user passes to setBlockSize()
    ServerSize,     \* the largest block the servers send, in bytes
    SizeWaits,      \* whether the user leaves the block size alone while blocks are sent
    MaxRepeats      \* bound on the repeats

NoOption == <<>>

VARIABLES
    mode,       \* the kind of request: "plain", "observe" or "multicast"
    upload,     \* the units of the payload of the request
    length,     \* the units of the content at the servers
    size,       \* QCoapProtocolPrivate::blockSize
    stage,      \* whether the exchange is registered: "idle", "running", then "done" or "failed"
    request,    \* the internal request, with the id of its message
    replies,    \* CoapExchangeData::replies
    handed,     \* history: the contents given to the user
    wire,       \* the requests sent
    answered,   \* the ids of the requests every host has answered
    received,   \* the units of the payload every host has
    frames,     \* the answers on their way
    repeats     \* how many repeats there were

client == <<mode, upload, length, size, stage, request, replies, handed, wire>>
network == <<answered, received, frames, repeats>>
vars == <<mode, upload, length, size, stage, request, replies, handed, wire,
          answered, received, frames, repeats>>

Block == Seq(Byte)
Payload == Seq(Hosts \X Nat)

Request == [mid : Nat, to : Hosts \cup {Group}, block1 : Block, block2 : Block,
            payload : SUBSET Nat]
Frame == [mid : Nat, from : Hosts, error : BOOLEAN, block1 : Block, block2 : Block,
          payload : Payload]
InternalReply == [from : Hosts, error : BOOLEAN, number : Nat, more : BOOLEAN, size : Nat,
                  next : Nat, payload : Payload]

ASSUME HostAssumption == Server \in Hosts /\ Group \notin Hosts
\* Only a plain request carries a payload here: an observe request is a GET, and a
\* multicast request with a blockwise payload has no meaning in CoAP.
ASSUME TransferAssumption ==
    /\ Transfers \subseteq [mode : {"plain", "observe", "multicast"}, upload : Nat,
                            length : Nat \ {0}]
    /\ \A t \in Transfers : t.upload > 0 => t.mode = "plain"
ASSUME SizeAssumption == SizeArguments \subseteq Nat /\ ServerSize \in BlockSizes
ASSUME BoundAssumption == MaxRepeats \in Nat /\ SizeWaits \in BOOLEAN

TypeOK ==
    /\ [mode |-> mode, upload |-> upload, length |-> length] \in Transfers
    /\ size \in {0} \cup BlockSizes
    /\ stage \in {"idle", "running", "done", "failed"}
    /\ request \in Request
    /\ replies \in Seq(InternalReply)
    /\ handed \subseteq [from : Hosts, payload : Payload]
    /\ wire \subseteq Request
    /\ answered \in [Hosts -> SUBSET Nat]
    /\ received \in [Hosts -> Nat]
    /\ frames \subseteq Frame
    /\ repeats \in 0..MaxRepeats

Init ==
    /\ \E t \in Transfers : mode = t.mode /\ upload = t.upload /\ length = t.length
    /\ size = 0
    /\ stage = "idle"
    /\ request = [mid |-> 0, to |-> IF mode = "multicast" THEN Group ELSE Server,
                  block1 |-> NoOption, block2 |-> NoOption, payload |-> 1..upload]
    /\ replies = <<>>
    /\ handed = {}
    /\ wire = {}
    /\ answered = [h \in Hosts |-> {}]
    /\ received = [h \in Hosts |-> 0]
    /\ frames = {}
    /\ repeats = 0

\* The units of block n of s bytes, of total units.
Slice(n, s, total) ==
    (n * s) \div 16 + 1 .. IF (n + 1) * s < total * 16 THEN ((n + 1) * s) \div 16 ELSE total

Whole(h) == [i \in 1..length |-> <<h, i>>]

(***************************************************************************)
(* Requests for and with a block.                                          *)
(***************************************************************************)

\* The Block2 option stays when a Block1 option is added ...
SetToSendBlock(q, n, s) ==
    IF ~CheckBlockNumber(n) THEN q
    ELSE [q EXCEPT !.payload = Slice(n, s, upload),
                   !.block1 = BlockOption(n, s, (n + 1) * s < upload * 16)]

\* ... and the payload stays when a block of the response is asked for.
SetToRequestBlock(q, n, s) ==
    IF ~CheckBlockNumber(n) THEN q
    ELSE [q EXCEPT !.block1 = NoOption, !.block2 = BlockOption(n, s, FALSE)]

\* Fault: every block is asked for from the target of the request.
FaultySendTo(q, host) ==
    /\ request' = [q EXCEPT !.mid = request.mid + 1]
    /\ wire' = wire \cup {request'}

\* A request is sent with a message id of its own; the internal request stays addressed
\* to the target of the user.
SendTo(q, host) ==
    /\ request' = [q EXCEPT !.mid = request.mid + 1]
    /\ wire' = wire \cup {[request' EXCEPT !.to = host]}

\* setBlockSize(), from the client: an argument that is no block size is refused.
SetBlockSize(s) ==
    /\ SizeWaits => stage = "idle" \/ upload = 0
    /\ size' = IF IsBlockSize(s) THEN s ELSE size
    /\ UNCHANGED <<mode, upload, length, stage, request, replies, handed, wire, network>>

StartRequest ==
    /\ stage = "idle"
    /\ stage' = "running"
    /\ LET asking == IF size > 0 THEN SetToRequestBlock(request, 0, size) ELSE request
           first == IF size > 0 /\ upload * 16 > size THEN SetToSendBlock(asking, 0, size)
                                                     ELSE asking
       IN  SendTo(first, request.to)
    /\ UNCHANGED <<mode, upload, length, size, replies, handed, network>>

(***************************************************************************)
(* A frame that arrives: fields of the two Block options, then the branch  *)
(* for the next block to send, the next one to ask for, or the last one.   *)
(***************************************************************************)

\* Fault: a block is skipped.
FaultyNextBlockToSend(v) == IF v = NoOption \/ ~HasNextBlock(v) THEN 0 ELSE BlockNumber(v) + 2

\* next is nextBlockToSend(), 0 for the -1 of the code: no block follows block -1.
NextBlockToSend(v) == IF v = NoOption \/ ~HasNextBlock(v) THEN 0 ELSE BlockNumber(v) + 1

Decoded(f) ==
    [from |-> f.from, error |-> f.error,
     number |-> IF f.block2 = NoOption THEN 0 ELSE BlockNumber(f.block2),
     more |-> f.block2 # NoOption /\ HasNextBlock(f.block2),
     size |-> IF f.block2 = NoOption THEN 0 ELSE BlockSize(f.block2),
     next |-> NextBlockToSend(f.block1),
     payload |-> f.payload]

\* Fault: the payloads in the order in which they came.
FaultyMerged(rs, host) == FlattenSeq([i \in DOMAIN rs |-> rs[i].payload])

\* The numbers of S in their order.  (This is SetToSortSeq(S, <), which the provers cannot
\* look into.)
Ascending(S) ==
    CHOOSE o \in [1..Cardinality(S) -> S] : \A j, k \in DOMAIN o : j < k => o[j] < o[k]

\* The payloads in the order of the block numbers; of the replies with one number the
\* first that is not empty counts, which is what the stable sort and the loop do.  Of the
\* replies to a multicast request only those of the host count.
Merged(rs, host) ==
    LET filled == {i \in DOMAIN rs : /\ rs[i].payload # <<>>
                                     /\ mode = "multicast" => rs[i].from = host}
        order == Ascending({rs[i].number : i \in filled})
    IN  FlattenSeq([k \in DOMAIN order |->
            rs[Min({i \in filled : rs[i].number = order[k]})].payload])

\* Fault: the last block alone.
FaultyFinalPayload(all, host) == all[Len(all)].payload

\* The content of the last message; a single reply is taken as it is.
FinalPayload(all, host) ==
    IF Len(all) = 1 THEN all[1].payload ELSE Merged(all, host)

\* Fault: the exchange goes on after its last message.
FaultyOnLastMessage(all, host) ==
    /\ handed' = handed \cup {[from |-> host, payload |-> FinalPayload(all, host)]}
    /\ replies' = <<>>
    /\ UNCHANGED <<stage, request, wire>>

\* An exchange that observes starts afresh; a multicast one keeps its replies, and the
\* merged payload in the last of them.
OnLastMessage(all, host) ==
    LET content == FinalPayload(all, host)
    IN  /\ handed' = handed \cup {[from |-> host, payload |-> content]}
        /\ stage' = IF mode = "plain" THEN "done" ELSE stage
        /\ replies' = IF mode = "multicast"
                      THEN [all EXCEPT ![Len(all)].payload = content] ELSE <<>>
        /\ UNCHANGED <<request, wire>>

OnFrameReceived(f) ==
    LET reply == Decoded(f)
        all == Append(replies, reply)
    IN  /\ stage = "running"
        /\ \/ /\ reply.error
              /\ stage' = "failed" /\ replies' = <<>>
              /\ UNCHANGED <<request, wire, handed>>
           \/ /\ ~reply.error /\ reply.next > 0
              /\ SendTo(SetToSendBlock(request, reply.next, size), request.to)
              /\ replies' = all /\ UNCHANGED <<stage, handed>>
           \/ /\ ~reply.error /\ reply.next = 0 /\ reply.more
              /\ SendTo(SetToRequestBlock(request, reply.number + 1, reply.size), reply.from)
              /\ replies' = all /\ UNCHANGED <<stage, handed>>
           \/ /\ ~reply.error /\ reply.next = 0 /\ ~reply.more
              /\ OnLastMessage(all, reply.from)
        /\ UNCHANGED <<mode, upload, length, size>>

\* The exchange is forgotten before its last block came: a timeout, an abort, or the
\* end of the time in which a multicast request takes responses.
Expire ==
    /\ stage = "running"
    /\ stage' = IF mode = "multicast" THEN "done" ELSE "failed"
    /\ replies' = <<>>
    /\ UNCHANGED <<mode, upload, length, size, request, handed, wire, network>>

(***************************************************************************)
(* The servers and the network.                                            *)
(***************************************************************************)

\* A server may answer what it answered before, within the bound.
Counted(again) == repeats' = repeats + (IF again THEN 1 ELSE 0) /\ repeats' <= MaxRepeats

\* The units before the block that a request carries.
BlockStart(q) == (BlockNumber(q.block1) * BlockSize(q.block1)) \div 16

\* The block of the content that a request asks for, the first one if it asks for none;
\* no larger than the server likes.
ContentFrame(q, h) ==
    LET s == IF q.block2 = NoOption THEN ServerSize ELSE Min({ServerSize, BlockSize(q.block2)})
        n == IF q.block2 = NoOption THEN 0 ELSE BlockNumber(q.block2)
        units == Slice(n, s, length)
    IN  [mid |-> q.mid, from |-> h, error |-> FALSE, block1 |-> q.block1,
         block2 |-> IF q.block2 = NoOption /\ length * 16 <= s THEN NoOption
                    ELSE BlockOption(n, s, (n + 1) * s < length * 16),
         payload |-> SubSeq(Whole(h), (n * s) \div 16 + 1, (n * s) \div 16 + Cardinality(units))]

\* A block that leaves a gap cannot be taken; the response waits for the last one.  What a
\* request without Block1 option carries is the whole payload, or a block it carries still.
Take(q, h) ==
    /\ q.block1 # NoOption => BlockStart(q) <= received[h]
    /\ received' = [received EXCEPT ![h] = Max({@} \cup q.payload)]
    /\ frames' = frames \cup
          {IF NextBlockToSend(q.block1) > 0
           THEN [mid |-> q.mid, from |-> h, error |-> FALSE, block1 |-> q.block1,
                 block2 |-> NoOption, payload |-> <<>>]
           ELSE ContentFrame(q, h)}

\* Any request may be answered with an error.
Refuse(q, h) ==
    /\ frames' = frames \cup {[mid |-> q.mid, from |-> h, error |-> TRUE, block1 |-> NoOption,
                               block2 |-> NoOption, payload |-> <<>>]}
    /\ UNCHANGED received

Answer(q, h) ==
    /\ stage = "running" /\ q \in wire /\ q.to \in {h, Group}
    /\ Counted(q.mid \in answered[h])
    /\ Take(q, h) \/ Refuse(q, h)
    /\ answered' = [answered EXCEPT ![h] = @ \cup {q.mid}]
    /\ UNCHANGED client

Deliver(f) ==
    /\ f \in frames
    /\ \/ Counted(FALSE) /\ frames' = frames \ {f}
       \/ Counted(TRUE) /\ frames' = frames
    /\ OnFrameReceived(f)
    /\ UNCHANGED <<answered, received>>

Next ==
    \/ \E s \in SizeArguments : SetBlockSize(s)
    \/ StartRequest
    \/ \E f \in frames : Deliver(f)
    \/ Expire
    \/ \E q \in wire, h \in Hosts : Answer(q, h)

Spec == Init /\ [][Next]_vars

\* For liveness: requests are answered and answers arrive.
FairSpec ==
    /\ Spec
    /\ WF_vars(\E q \in wire, h \in Hosts : Answer(q, h))
    /\ WF_vars(\E f \in frames : Deliver(f))

(***************************************************************************)
(* Properties.                                                             *)
(***************************************************************************)

\* No block of the payload is sent before the server has all that precedes it, although
\* the number comes from the server and the size from the client (onFrameReceived).
UploadLeavesNoGap ==
    \A q \in wire : q.block1 # NoOption => BlockStart(q) <= received[Server]

\* A block after the first is asked for from a host that has answered the request for the
\* block before: the chains of two hosts of a group do not get mixed.
BlocksAskedInTurn ==
    \A q \in wire : q.block2 # NoOption /\ BlockNumber(q.block2) > 0 =>
        \E p \in wire :
            /\ p.mid < q.mid /\ q.to \in Hosts /\ p.mid \in answered[q.to]
            /\ BlockNumber(q.block2) =
                 (IF p.block2 = NoOption THEN 0 ELSE BlockNumber(p.block2)) + 1

\* Every content handed over is the whole content of one host, whatever is repeated or
\* reordered for a plain request; for observe and multicast while nothing is repeated.
WholeContents ==
    mode = "plain" \/ repeats = 0 => \A c \in handed : c.payload = Whole(c.from)

\* Every notification is handed over with the whole content.
WholeNotifications == mode = "observe" => \A c \in handed : c.payload = Whole(c.from)

\* The value of a Block option, where it grows by a byte too: it is as long as its number
\* needs, and setFromDescriptiveBlockOption reads back what blockOption wrote.
ReadsBack(n, s, more) ==
    LET v == BlockOption(n, s, more)
    IN  /\ Len(v) = IF n < 16 THEN 1 ELSE IF n < 4096 THEN 2 ELSE 3
        /\ v \in Block /\ BlockNumber(v) = n /\ HasNextBlock(v) = more /\ BlockSize(v) = s

\* The numbers at which the value grows, and the last one of 20 bits.
BoundaryNumbers == {0, 15, 16, 4095, 4096, 1024 * 1024 - 1}

\* The same in every state, and evaluated before the transfer starts.
BlocksReadBack ==
    stage = "idle" =>
        \A n \in BoundaryNumbers, s \in BlockSizes, more \in BOOLEAN : ReadsBack(n, s, more)

Transfer == INSTANCE CoapTransfer WITH
    stage <- IF mode # "plain" \/ stage = "idle" THEN "running" ELSE stage,
    uploaded <- mode # "plain" \/ received[Server] = upload,
    handed <- IF mode # "plain" \/ handed = {} THEN "nothing"
              ELSE IF handed = {[from |-> Server, payload |-> Whole(Server)]} THEN "whole"
              ELSE "broken"

\* A plain request is a CoapTransfer: the whole content, once, and only after the upload.
ImplementsTransfer == Transfer!Spec

\* When requests are answered and answers arrive, a plain transfer comes to its end: no
\* block is asked for or sent over and over.
TransferEnds == mode = "plain" /\ stage = "running" ~> stage \in {"done", "failed"}
=============================================================================
