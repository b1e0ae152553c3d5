# QtCoap, specified

TLA+ specifications of the CoAP client of Qt (`src/src/coap`), the TLC
configurations that check them on small instances, and proofs that TLAPS checks
for every instance. Paths below are relative to `src/src/coap` unless they start
with `src/`. `PROJECT.json` maps every definition to the lines it models and lists
the runs, the theorems, the hazards and the findings.

## 1. The system

A `QCoapClient` lives in the user's thread. Its `QCoapProtocol` and
`QCoapConnection` live in a worker thread of their own (`qcoapclient.cpp`,
constructor). The two threads share the `QCoapReply` objects and talk through
posted events: `QMetaObject::invokeMethod(..., Qt::QueuedConnection)` and signals
between objects of different threads. Each thread runs its events one at a time in
the order they were posted; frames and timers come between the worker's events.

| component | state | operations | talks to |
|---|---|---|---|
| `QCoapClient` | connection, protocol, thread | get/put/post/delete/observe, `cancelObserve` (reply, URL), `disconnect`, setters | posts to protocol and connection; relays `finished()` |
| `QCoapReply` | isRunning, isFinished, isAborted, error, message | `abortRequest`, destructor, the `_q_set...` slots | signals `finished`, `aborted`, `notified`, `error` |
| `QCoapProtocol` | `exchangeMap`: token -> reply, request, replies; parameters | `sendRequest`, `cancelObserve`, `onRequestAborted`, `onFrameReceived`, the three timer slots | posts to replies, writes to the connection |
| `QCoapInternalRequest` | message, timers, counter, block options, `cancelled` | restart/stop transmission, multicast expiry, block options, encoding | signals to the protocol |
| `QCoapInternalReply` | message, block options | decoding, merging blocks | used by the protocol |
| `QCoapConnection` | queue of frames, Unconnected/Bound | `sendRequest`, `startToSendRequest`, `disconnect`, slot of `bound()` | calls the virtual bind, write, close |
| `QCoapQUdpConnection` | UDP socket, `QDtls` | `bind`, `writeData`, `close`, handshake datagrams | emits `bound()`, `readyRead()` |
| message, option, request, URL, discovery, security configuration | values | getters, setters, parsing | - |

What is hard here, and what each component has to get right:

* **Several ends of one request.** A response, a timeout, the expiry of a multicast
  request, an abort, a cancelled observation and the destruction of the reply race,
  from two threads. `finished()` must come once, nothing must revive an exchange that
  ended, no reply may be left waiting for an exchange that is gone.
* **Stale names.** Aborting and cancelling name the exchange by the token the reply
  knows, which it learns from an event (`_q_setRunning`); frames name it by token or
  message id, which are reused.
* **The network.** Frames are lost, repeated, delayed, reordered, and come from several
  hosts for a multicast request. Confirmable responses have to be acknowledged.
* **Timers.** Retransmission, the maximum transmission span and the multicast expiry
  are stopped and restarted on every frame; every request has to come to an end.
* **The transport.** Frames queue while the socket is not bound or the DTLS handshake
  goes on; all of them must come out in order and reach the server they are for.
* **Blocks.** The payload goes and the content comes in blocks whose number the server
  names and whose size each side chooses; answers are repeated, come late, or come from
  several hosts in turn. What is handed over has to be whole.
* **Time.** Each message has a timer that doubles and one that bounds the whole
  transmission; both come from parameters the user may change at any moment, are computed
  in unsigned arithmetic, and are used again for every block of a transfer.
* **Credentials.** A security configuration reaches a handshake on two ways, of which
  one is closed once the handshake has started.
* **Bytes.** Block options, option deltas and lengths, uint values; options come from the
  user and from the URL and have to be in order for the deltas to be written at all.
* **Two opinions.** Client and worker both adjust and check URLs, in different threads and
  at different times, and an observation is found again by comparing adjusted URLs.

## 2. Modules

| module | contents |
|---|---|
| `QCoapProtocol` | the core: client, replies, protocol, timers, servers and network |
| `CoapRequestLifecycle` | what the client promises of each request; `QCoapProtocol` implements it |
| `MCQCoapProtocol` | instances for TLC |
| `QCoapProtocol_proofs`, `QCoapProtocolEvents_proofs` | type correctness and eight invariants of the core |
| `QCoapProtocolLifecycle_proofs` | the core implements the lifecycle |
| `QCoapConnection` | the transport: queue, socket, DTLS handshake, `disconnect()` |
| `QCoapSecureConnection` | the transport with its security mode and configuration |
| `MCQCoapConnection`, `MCQCoapSecureConnection` | instances for TLC |
| `QCoapConnection_proofs` | the invariants of the transport and of its configuration |
| `CoapBlockOption` | the bytes of a Block1 or Block2 option |
| `CoapBlockwise` | the blockwise transfer of one exchange, with servers and network |
| `CoapTransfer` | what a transfer promises; `CoapBlockwise` implements it for plain requests |
| `MCCoapBlockwise` | instances for TLC |
| `CoapBlockwise_proofs` | options are decoded to what they were built from; no gap in an upload; blocks are asked for in turn; contents are whole; `CoapTransfer` is implemented |
| `CoapTransmission` | the parameters, their arithmetic, and the timers of one request with durations |
| `MCCoapTransmission` | instances for TLC |
| `CoapTransmission_proofs` | types; retransmissions keep to their schedule; nothing is given up early or after its answer |
| `CoapOption` | the sorted list of options, and typed values |
| `CoapFrame` | messages to bytes and back, and the other end of the wire |
| `CoapUrl` | URLs: set, adjusted, checked, and taken apart into options |
| `CoreLinkFormat` | the resources of a core link document |
| `CoapRequest` | a request from the user's `QCoapRequest` to the datagram, and an answer back to the reply |
| `MCCoapRequest` | instances for TLC |
| `CoapFrame_proofs` | adding keeps options sorted and stable; every frame is read back as its message |
| `CoapRequest_proofs` | types; options stay sorted; observations are found; frames and answers are readable; servers see the URL; discoveries are in order |

A definition under the comment `Fault:` is a defect that could have been made
in the definition that follows it. No specification uses one; replacing the
definition by it must break the property `PROJECT.json` pairs it with.

### QCoapProtocol

`reply` is `QCoapReplyPrivate` for every reply: whether the object exists
(`stage`), its flags, its error and code, the token it knows, and `connected`,
whether the worker has connected its `aborted` and `finished` signals yet.
`userQueue` and `protocolQueue` are the event queues of the threads. `exchangeMap` is the
map of the protocol; an exchange holds its reply, the message id of its request,
whether it observes, whether it was cancelled, whether its timers run, and the
retransmission counter. `wire` is the set of requests ever sent, `answers` and
`asked` are the last acknowledgement sent and the last confirmable frame accepted,
`signals` counts the `finished()` signals of reply and client and says what the first was for,
and `halted` says that an assertion failed.

| actions | code |
|---|---|
| `Send` | `QCoapClientPrivate::sendRequest`, `send`: checks, new reply, posted request |
| `Abort`, `Delete` | `QCoapReply::abortRequest`, also called by the destructor |
| `CancelObserve`, `CancelObserveUrl` | both forms of `QCoapClient::cancelObserve`, which take any reply and any URL at any moment, before the worker has begun too |
| `SetRunning` ... `SetError` | the private slots of `QCoapReply`, guards included |
| `DropEvent` | Qt removes the events of a destroyed receiver |
| `ClientFinished`, `RelayFinished` | reply's `finished` -> protocol's -> client's |
| `StartRequest`, `SkipRequest` | `QCoapProtocol::sendRequest` and its early return |
| `OnRequestAborted` | `onRequestAborted`, with the empty token when the reply has none |
| `OnCancelObserve`, `OnCancelObserveUrl` | `cancelObserve(reply)` and `cancelObserve(url)`, assertion included |
| `ReceiveError`, `ReceiveBlock`, `ReceiveUnwanted`, `ReceiveEmptyAck`, `ReceiveResponse` | the paths through `onFrameReceived` and `onLastMessageReceived`, from matching to the last posted event |
| `OnRequestTimeout`, `OnRequestMaxTransmissionSpanReached`, `OnMulticastRequestExpired` | the timer slots |

*Network.* A server answers a request it may have received, in every form the
protocol allows: piggybacked on the ACK, an empty ACK, a Reset, a separate
confirmable or non-confirmable message, with a message id of its own that may equal
one of the client's. Since `wire` only grows, such a frame may come at any time,
any number of times, or never.

*Abstractions.* A URL is its host. A response code is empty, content or error. A
block-wise response says whether the next block is to be sent (`Continue`), asked
for, or neither; contents are not kept. Timers may fire whenever they run. A handler is
one step: a data race of the user's thread with a handler that is half done
(`reply->request()` read by the worker, `qcoapprotocol.cpp:112-121`) is out of the model.

*CoapRequestLifecycle* abstracts a request to a phase (new, posted, tracked, over)
and an outcome (none, completed, withdrawn). A request is tracked during one
period, completes only after it, and its outcome never changes. The refinement
mapping reads the phase off the event queue and the map (`Phase`), and the outcome off the
history `signals[r].cause`: what the reply's first `finished()` was emitted for. The flags of the reply
would not do: `cancelObserve(url)` may end a request whose token the reply does not know yet, and the
flags then say that it completed while its exchange is still there. A finished observation
counts as withdrawn.

### QCoapConnection

`framesToSend` and `state` are those of `QCoapConnectionPrivate`; `socket`,
`handshake` and `peer` are what `QUdpSocket` and `QDtls` keep. Frames are numbered
as the protocol passes them, `written` records to whom each was written and
`cleared` the numbers that `disconnect()` dropped; `servers` is the history of the hosts that frames
were passed for since the last `disconnect()` was handled. `posted` is the event queue of
the worker with respect to sending and disconnecting, `phase` says whether a request
is in progress, so that it may send again (retransmission, block, ACK), and `session` is the
server the user talks to since the last call of `disconnect()`. With `UserDisconnects` the user does
what `qcoapclient.cpp:496` asks and calls it before talking to another server; otherwise
nothing is assumed of the user. Without DTLS (`secure` is
FALSE) a datagram goes to the host of the frame, with DTLS to the peer of the
handshake, or nowhere when the connection is not encrypted.

| actions | code |
|---|---|
| `PostRequest`, `PostDisconnect` | `QCoapClientPrivate::send`, `QCoapClient::disconnect` |
| `HandleSendRequest`, `SendAgain` | `QCoapConnectionPrivate::sendRequest`, with `bind`, the slot of `bound()` and `startToSendRequest` |
| `HandleDisconnect` | `QCoapConnection::disconnect` with `QCoapQUdpConnection::close` |
| `HandshakeDatagram`, `HandshakeCompleted` | `handleEncryptedDatagram` before the connection is encrypted |
| `PeerShutdown` | external: the peer shuts DTLS down |
| `EndRequest` | the protocol forgets the exchange |

`handshakeTimeout` changes no state of the model. `QDtls` is modelled from how it is
used: a handshake starts only when none was started, continues, fails, completes, or
ends with a peer that could not be verified; `setPeer` is refused while it is not "not started".

### CoapBlockwise

One exchange, of a plain request with or without a payload, of an observing one or of
a multicast one. Data is counted in units of 16 bytes, the smallest block: the payload is
the units `1..upload`, a content is a sequence of units that name their host, so
that a block of another host, a missing one and one appended twice all show. `request`
is the internal request that every block reuses, `replies` the list of the
exchange, `size` the block size of the protocol. `wire` keeps the requests
sent, `frames` the answers on their way, `received` what each host has of the payload,
`handed` the contents given to the user.

| actions | code |
|---|---|
| `SetBlockSize` | `QCoapProtocol::setBlockSize`, refusals included, at any time |
| `StartRequest` | `QCoapProtocol::sendRequest`, lines 150-155, with `setToRequestBlock` and `setToSendBlock` |
| `Deliver` | `onFrameReceived`: decoding of both options, then error, next block to send, next block to ask for, or `onLastMessageReceived` with the merge |
| `Expire` | a timer or an abort removes the exchange |
| `Answer` | external: a server takes a block or asks for the rest, sends a block of its content no larger than it likes, or refuses |

`CoapBlockOption` follows the shifts of `blockOption`, `setFromDescriptiveBlockOption` and
`nextBlockToSend`: numbers and sizes go through the bytes, in the runs and in
the proofs. A server answers a block with the option it got, as RFC 7959 has it, and
refuses to take a block that leaves a gap. What the core module says of frames
(matching, acknowledgements, cancelled observations, deleted replies) is not repeated.

`CoapTransfer` has three steps: the server gets the payload, the whole content is
handed over, the transfer fails. The refinement mapping reads them off `received`, `handed`
and `stage`.

### QCoapSecureConnection

Extends `QCoapConnection` by the mode the client was constructed with, `securityConfiguration`
of the connection, what `QDtls` has taken of it (`dtlsConfiguration`), and what the last
handshake `presented`. Certificates, CA certificates and ciphers are merged alike and share
the field `chain`; identity and pre-shared key share `psk`. `inTime` is a history: no frame was passed between
the last `disconnect()` and the configuration handled last.

Line 353 of `qcoapqudpconnection.cpp` asks for a key that is not null, and `QCoapPrivateKey::isNull()`
(`qcoapsecurityconfiguration.cpp:128-131`) says of an opaque key without a handle that it is null. Such a key is
therefore an empty field like any other: the former key stays, and the warning of lines 362-366 is never
reached. That is what `Merged` says of an empty `key`.

| actions | code |
|---|---|
| `PostConfiguration`, `HandleConfiguration` | `QCoapClient::setSecurityConfiguration`, `QCoapConnection::setSecurityConfiguration` and the merge in `QCoapQUdpConnectionPrivate::setSecurityConfiguration`; `QDtls` takes nothing after its handshake has started |
| `PskRequired` | `pskRequired`, in the middle of a handshake |
| `Connecting` | a step of `QCoapConnection`; a handshake that starts takes the certificates and the key |

### CoapTransmission

One request of one to `MaxMessages` messages (blocks), with a clock. `timers` are its three
`QTimer`s with interval and expiry, `parameters` those of the protocol, `queue` the calls
posted to the worker. Products and sums are taken modulo `WordSize`, a double that does not fit a
uint is truncated or saturated, and an interval that is negative as an int leaves a `QTimer`
off. Halves stand for the random factor: 3 is 1.5. `Shifted[k]` is `1u << k`, and `steady` remembers that
no parameter was changed since the request started, which is when its durations are those of one
set of parameters.

| actions | code |
|---|---|
| `PostSetting`, `ApplySetting` | the setters of `QCoapClient` and of `QCoapProtocol`, limits included |
| `PostRequest`, `StartRequest` | `QCoapClientPrivate::send`; `QCoapProtocol::sendRequest` with the random start of the timeout and the three intervals |
| `ReceiveBlock`, `ReceivePartial`, `ReceiveLast` | what an answer does to the timers: another block, an empty ACK or notification, the end |
| `FireTimer` | `onRequestTimeout`, `onRequestMaxTransmissionSpanReached`, `onMulticastRequestExpired`; a coarse timer fires up to 5 % early |
| `Tick` | time, while a timer runs; no timer is left behind by more than `MaxLate` |

### CoapRequest, with CoapOption, CoapFrame, CoapUrl and CoreLinkFormat

What is said, where the core models when. The user edits a `QCoapRequest` (URL, proxy, version, any of the
four types, token, payload, options one by one or as a list in whatever order), an
operation of the client makes a request and a reply of it, the worker makes a message, its
bytes and a destination, a server answers with bytes, and a reply shows what was decoded.
Texts are names with their bytes (`Utf8`), a URL is a record of its parts, a core link document
a sequence of tokens. The other end of the wire (`ServerFrame`, `Document`)
is written from RFC 7252 and RFC 6690, not from the code: a frame is right if the server reads it as
it was meant. `ordered` is a history of a request: the list of options that was set last was in order.
Exchanges are matched and whole here.

| actions | code |
|---|---|
| `EditUrl`, `EditOptions`, `EditMessage` | setters of `QCoapRequest` and `QCoapMessage` |
| `Get` ... `DeleteResource`, `Observe`, `Discover` | the operations of `QCoapClient`, with `createRequest` (twice for `observe`), and `send` with its refusals |
| `StartRequest` | `QCoapProtocol::sendRequest`: validity, id, token, `addUriOptions`, `toQByteArray` (a delta that is negative wraps around, as without assertions), destination |
| `OnFrameReceived` (`Receive`) | `createFromFrame`, the acknowledgement, and the events for the reply |
| `OnMulticastRequestExpired`, `AbortRequest` | the other ends of an exchange or a reply |
| `HandlePosted` | `_q_setContent` of both reply classes, `_q_setFinished` |

The modules are not composed: the core needs only that a frame given to the
connection may reach the server late or never, which `wire` allows, and the
connection needs only that frames come while a request is in progress. The core keeps of a
blockwise response only what is to be sent next, any number of times; `CoapBlockwise` keeps
one exchange and what its blocks contain. `CoapTransmission` refines the "timers may fire
whenever they run" of the core by saying when they do, for one request; `CoapRequest` fills
in the frames that the core takes as records. What each leaves open is arbitrary in the
others: answers may come at any time in `CoapTransmission`, and any whole answer in `CoapRequest`.

## 3. Runs

The passing runs:

| run | instance | shows |
|---|---|---|
| `one` | 1 unicast or multicast reply of any kind, all frames, answers in blocks, 1 retransmission, 1 cancellation on the way | `TypeOK`, `FinishedOnce`, `EndIsForgotten`, `CancelledIsTold`, `ClientFollowsReply`, `ClientIsTold`, `ConfirmableAnswered`, and `RequestsEnd` under fairness |
| `two` | 2 confirmable replies, 2 tokens, 2 ids, 1 host, 1 retransmission | `UniqueMessageIds`, `NoOrphanReply`, `ImplementsLifecycle` |
| `transport` | 2 requests, 2 servers, 4 frames, all security modes, 2 configurations, any user | `ConnectionConsistent`, `FramesInOrder`, `FramesAccounted`, `FramesReachTheirHost`, `CredentialsAreCurrent` |
| `blocks` | 1 exchange of any kind, 2 hosts, payloads and contents of up to 3 blocks, `setBlockSize` of 16, 24 (refused) and 32, 1 repeat | `TypeOK`, `UploadLeavesNoGap`, `BlocksAskedInTurn`, `WholeContents`, `BlocksReadBack`, `ImplementsTransfer`, `TransferEnds` |
| `schedule` | 1 request of any kind, 2 messages, 1 setting out of eight, up to 4 retransmissions, answers and delays at any time | `TypeOK`, `RetransmitsOnSchedule`, `NotGivenUpEarly`, `AnsweredNotGivenUp`, and `TransmissionsEnd` under fairness |
| `requests` | 1 request by any operation, 10 URLs, 2 proxies, lists of options in and out of order, 2 edits or answers | `TypeOK`, `OptionsSorted`, `FramesReadable`, `AnswersReadable`, `ServerSeesUrl`, `ObservationFoundByUrl`, `DiscoveredInOrder` |

Each of the others ends in the counterexample that section 5 describes:

| run | instance | violates |
|---|---|---|
| `empty_ack`, `null_reply`, `early_cancel` | as `one`, unicast and without further blocks | `RequestsTimeOut`, `NoAssertionFails`, `ResetAfterCancellation` |
| `next_server` | 2 requests, 2 servers, 3 frames, a user who disconnects in between | `FramesReachTheNextServer` |
| `notified` | as `blocks`, an observing request | `WholeNotifications` |
| `inherited` | as `schedule`, without settings | `FirstTimeoutInRange` |

*Bounds.* Two replies are what two requests can do to one another: share an id, take
over a token, remove the wrong exchange; a third adds no new pair. The
interference of one request with itself (retransmission, blocks, notifications, late
frames, cancellation) needs one reply with every kind of frame, hence `one`. That run has no uploads: in the core, sending
the next block and asking for it are the same step of a unicast request, and uploads are the subject of `blocks`. Two
message ids let a block take another id and let a server's id equal a client's.
One retransmission separates the first transmission, a repeated one and the exhausted
counter. `MaxCancels` bounds the cancellations that are on the way at a time: posted and not handled, or
handled and not seen by the reply. One is enough to come before the request was started, before the reply knows
its token, between two notifications, or after the end; a second one finds the exchange marked
already. `two` has none, since its requests do not observe and its user
aborts and deletes at any moment. `MaxQueue` bounds the contents of notifications and multicast
responses that are on their way to a reply, and nothing else; each is posted with its notification, so
that this pair meets an abort, a cancellation or a deletion
even with the bound 1. `ReuseTokens` is FALSE in all runs: the generator draws 64 random bits, and what
happens when a token returns while `aborted(token)` of its first owner is still queued is in section 5;
`UniqueMessageIds` and its proof do not depend on it.
`MaxFrames` bounds the frames given to the connection; four are one for each request and
two to send again, enough to connect, disconnect and connect to the other server. Of the two
configurations one has every field and the other differs in all it has and leaves the chain empty; one waits for the
worker at a time. The connection without security is the mode `NoSecurity` of this run.

In `blocks`, three units give three blocks of 16 bytes, or a block of 32 and a rest, so
that a transfer has a first, a middle and a last block and the client's size differs from the
server's (16). `MaxRepeats` bounds the answers a server gives again and the frames
delivered twice; one repeat may hit any block at any time, also after the transfer went
on. `SizeWaits` says that the user does not call `setBlockSize` during an upload; without it
`UploadLeavesNoGap` fails (section 5). `BoundaryNumbers` are the block numbers on both sides of the limits
where a Block option grows by a byte, 16 and 4096, and the greatest: `BlocksReadBack` takes an option of each
through `blockOption` and back.

In `schedule`, `ACK_TIMEOUT` is 4 ticks, so that the random start has two values and the
doublings tell a retransmission from the next; a word of 256 holds the durations of the default
parameters, and retransmission count 4 (the cap, 25 in the code) takes `MAX_TRANSMIT_WAIT`
out of the range of an int, as counts from 19 to 24 do with the default timeout in milliseconds. Settings are
a timeout of 0, a factor below 1, counts of 0, 2 and beyond the cap, a delay of 0, token sizes that are
refused and taken; one of them at any moment separates the parameters a request started with from
those it goes on with. `MaxLate` is one tick: a timer and a call may be ready together.
In `requests`, the texts have 13 and 255 bytes where an option changes its form, the URLs have
repeated and empty segments, dots, no scheme, a wrong scheme, a fragment, a group, a port, a name; with
one request nothing of another request is in question, which is the subject of `two`. A new message
has version 1, and the user may set 2: what matters is that the version set is the one sent.

No run checks deadlock: a user who sends no further request lets the system stop.

*Fairness* (`FairSpec`). Weak fairness of `RunSlot` and `HandleEvent`: an event loop that
has an event takes it. Weak fairness of `FireTimer(t) \/ RestartTimers(t)`: the transmission span timer
and the multicast timer are `QTimer`s, which fire unless they are stopped or a block starts them
anew (`qcoapprotocol.cpp:348,366-379`). A block may do so each time, so nothing forces the timer of a
transfer without end. Nothing is assumed of the user, of the network, of the
servers, or of the retransmission timer. `RequestsEnd` says accordingly that a request ends if from some moment on
no further block is called for (`<>[][NoFurtherBlock(r)]_vars`); the runs have servers that call for
blocks for ever as well, and nothing is claimed of these. `TransferEnds` assumes weak
fairness of `Answer` and of `Deliver`: requests are answered, if only with an error, and
answers arrive. Where they do not, `RequestsEnd` is the property that matters. `TransmissionsEnd`
assumes weak fairness of `ApplySetting` and `StartRequest` (the event loop), of `FireTimer` (a timer that is
due), and of `Tick`; nothing of answers.

## 4. Properties

* `FinishedOnce`, `ClientFollowsReply`: one `finished()` per reply, and no more from the client.
* `ClientIsTold`: when a reply completed and the client has not told its user, the relay of `finished()` is on its
  way, in the queue of the worker or behind it in that of the user, even if the reply is deleted at once.
* `UniqueMessageIds`: the search of an exchange by id has one candidate.
* `NoOrphanReply`: a running reply has its exchange, or its end is posted.
* `EndIsForgotten`: once the end is posted, no frame can reach the reply through the map.
* `CancelledIsTold`: while an exchange is marked as cancelled and its reply has not finished, the event that tells
  the reply is on its way, behind all notifications that are; none can follow it.
* `ConfirmableAnswered`: a confirmable frame the exchange accepts is answered (error responses excepted, section 5).
* `ImplementsLifecycle`: the refinement.
* `RequestsEnd`: a request that does not observe and whose blocks come to an end ends itself, with its exchange,
  unless it was acknowledged and its separate response never comes.
* `ConnectionConsistent`: nothing waits on a bound connection, a bound connection has its
  socket, an encrypted one is bound, a handshake has its socket and its peer.
* `FramesInOrder`, `FramesAccounted`: frames leave the queue in order, once, and only `disconnect()` drops any.
* `UploadLeavesNoGap`: a block of the payload is sent only when the server has all before it.
* `BlocksAskedInTurn`: a block of the content is asked for from a host that answered the
  request for the block before; a multicast transfer goes on with each host by unicast.
* `WholeContents`: every content handed over is the whole content of one host; for plain
  requests whatever is repeated, for the others while nothing is.
* `BlocksReadBack`: a Block option is decoded to the number, size and flag it was built from.
* `ImplementsTransfer`, `TransferEnds`: a plain transfer hands over the whole content, once,
  after the upload, and comes to an end.
* `RetransmitsOnSchedule`: the k-th retransmission comes between k doublings of `ACK_TIMEOUT` and
  `MAX_TRANSMIT_SPAN` after the first transmission, up to the precision of the timers, while the
  parameters stay.
* `NotGivenUpEarly`: a message is given up after its last retransmission, whichever timer does it;
  `MAX_TRANSMIT_WAIT` leaves room for an event loop that is late by at most half of `ACK_TIMEOUT`.
* `AnsweredNotGivenUp`: a request whose present message was answered is not given up by a timer.
* `TransmissionsEnd`: each transmission is answered or ended by one of its timers.
* `OptionsSorted`: what `toQByteArray` asserts, whatever was added and removed, unless the user has set
  a list that is out of order.
* `FramesReadable`, `AnswersReadable`: the other end reads each frame whose options are in order as the
  message it was made of, and the user sees the message the server sent.
* `ServerSeesUrl`: the server can rebuild host, path and query of the URL from the options, and the datagram goes to
  the host and the port of the URL. Nothing is claimed of what a server reads in `Uri-Port` (section 5).
* `ObservationFoundByUrl`: `cancelObserve(url)` finds the observation of the URL the user named.
* `DiscoveredInOrder`: a discovery reply has the resources of its answers, each with its own
  attributes, and of all of them when it ended by itself.
* `FramesReachTheirHost`: as long as one server is talked to between two calls of `disconnect()`, a datagram goes to
  the server its frame is for, or to none: neither a frame nor a peer is left of a former server.
* `CredentialsAreCurrent`: a handshake after a configuration that was handled before anything was sent
  presents each field of it that is not empty, and the pre-shared key of no other.

The properties of the violation runs are what documents and assertions say: section 5.

## 5. Where the code differs from what is said of it

Each of these is a run that ends in a counterexample.

* `empty_ack`: an empty ACK stops both timers (`qcoapprotocol.cpp:348`) and is then
  ignored; a request whose separate response is lost never ends, although
  `qcoapinternalrequest.cpp:616` promises a timeout at the end of the transmission span.
* `null_reply`: `cancelObserve(url)` asserts that every exchange has its reply
  (`qcoapprotocol.cpp:641`), which is false after a reply was deleted.
* `early_cancel`: cancelling an observation before `_q_setRunning` finishes the reply and leaves the
  exchange observing, without the Reset that `qcoapprotocol.cpp:606` announces.
* `next_server`: `disconnect()` leaves the exchanges alone, so that a retransmission queues again afterwards and goes to
  the other server's DTLS peer, although `qcoapclient.cpp:496` asks for no more than this call.
* `notified`: after a notification the blocks are forgotten but the exchange goes on, so a
  last block that comes twice is a notification of its own, with that block as its content;
  `qcoapprotocol.cpp:476` says that all blocks are merged.
* `inherited`: `stopTransmission` resets the counter but not the timeout, so the block after one that
  was retransmitted starts with a doubled timeout, beyond what `qcoapprotocol.cpp:1039` says of it.

Others were met while modelling. They have no run of their own; where a property would be broken by one, its
assumption or its wording leaves it out, and what is left out is this:

* Notifications on their way. `cancelObserve` posts `_q_setObserveCancelled` behind a notification that is on its way,
  and `_q_setNotified` asks only whether the reply is finished (`qcoapreply.cpp:86-89`): `notified()` comes after the
  cancellation, although `qcoapprotocol.cpp:603` says that it will not. `CancelledIsTold` bounds this to the
  notifications posted before.
* Errors are not acknowledged. A confirmable error response ends the request at `qcoapprotocol.cpp:352-355`, before
  line 357, "Reply when the server asks for an ACK". `ConfirmableAnswered` leaves errors out.
* Tokens that return. `onRequestAborted` removes the exchange it finds under the token, which may be that of another
  request if the token was free and drawn again before `aborted(token)` was handled; its reply then waits for ever.
  With `ReuseTokens` TRUE and one token TLC finds that in `NoOrphanReply`.
* Configurations that are not taken. A retransmission after `disconnect()` may start a handshake before the configuration
  that was set after it is handled; `QDtls` refuses it then (`qcoapqudpconnection.cpp:371`), and the former
  certificates are presented. `inTime` leaves this out of `CredentialsAreCurrent`.
* Fields that stay. Merging a configuration keeps the certificates of the former one where the new one has none
  (`qcoapqudpconnection.cpp:350`), although `qcoapsecurityconfiguration.cpp:337` calls its chain the one that is
  presented. `CredentialsAreCurrent` is about fields that are not empty.
* Contents that are merged twice. The merged content of a multicast response is stored in the last reply of the list
  (`qcoapprotocol.cpp:536`), so that a repeated last block of that host merges it again.
* Block sizes that change. `onFrameReceived` cuts the next block with the size of the moment (`qcoapprotocol.cpp:368`), so
  that after `setBlockSize(32)` during an upload in blocks of 16 block 1 begins at byte 32, and bytes 16 to 31 are
  never sent. With `SizeWaits` FALSE TLC finds that in `UploadLeavesNoGap`.
* Products that wrap. With a retransmission count of 25, which the setter takes, the product in `maximumTransmitWait`
  wraps around and the request is given up in the middle of its retransmissions. `Representable` leaves this out.
* Proxies that are invalid. With such a proxy URL the frame has neither Uri options nor a host to
  go to (`qcoapinternalrequest.cpp:355-357`); `qcoaprequest.cpp:137` says that the request is sent directly.
* The order of bytes. A uint option is written low byte first (`qcoapoption.cpp:325`), so a server
  reads the port 1234 of `Uri-Port` as 53764. `ServerSeesUrl` does not speak of that option.
* Lists out of order. `setOptions` stores the list of the user as it is (`qcoapmessage.cpp:377`), and the assertion of
  `toQByteArray` that options are sorted (`qcoapinternalrequest.cpp:144`) fails. `OptionsSorted` and `FramesReadable`
  are about lists in order, and the instance has one that is not.
* `_q_setError` does not ask whether the reply finished (`qcoapreply.cpp:121`), so `error()` may
  follow `finished()` after an abort; `qcoapreply.cpp:194` says the reverse.
* The acknowledgement of a confirmable answer to a multicast request goes to the group.
* After a peer that could not be verified no handshake is possible again, even after
  `disconnect()`; a peer that shut down and is connected to again makes `startToSendRequest`
  assert that a frame waits (variable `halted`).
* With the default timeout, retransmission counts from 19 to 24 make `MAX_TRANSMIT_WAIT` negative as an int,
  so that its timer never starts (a further block may inherit a timeout that is too large as well). The schedule is
  stated for what is representable.
* Proxy-Uri carries the URL of the proxy, not that of the request; a proxy URL without a port is
  sent to port 65535. A URL with non-ASCII characters is accepted and sent to no host. A host that
  is a name is not resolved by `writeToSocket`, which drops the datagram.
* Options of 269 bytes and more get one extension byte where RFC 7252 has two, and a
  token of more than 8 bytes spoils the header; `requests` stays below both.
* `resourcesFromCoreLinkList` splits at separators inside quoted attributes; the tokens of
  the model have none. `generateUniqueMessageId` (`qcoapprotocol.cpp:657`) never returns when all
  ids are taken, and one error response ends a multicast exchange for all hosts (`qcoapprotocol.cpp:352`).

## 6. Proofs

The theorems hold for any sets of replies, tokens, ids, hosts and any bounds,
under the named assumptions on the constants in each module.

*QCoapProtocol_proofs.* `TypeCorrect` proves `TypeOK`, one lemma per group of actions;
it includes that the retransmission counter never passes `MaxRetransmit`.
`MessageIdsUnique` uses `TypeOK` and that every action either keeps the ids of the
registered exchanges, removes some, or takes one from `FreeIds`. `FinishedExactlyOnce` is
inductive with `TypeOK`: whatever sets `finished` emits the signal, under the same guard.

*QCoapProtocolEvents_proofs* is about posted events. `EndsAreForgotten` needs `OneEnd`: a
request is posted to the worker once and only before its reply has an exchange (`SentOnce`), no
reply has two exchanges (`OwnedOnce`), and no end is posted for a reply with an exchange. Without the
first part a second start could register an exchange after the end; without the second,
forgetting one would leave the other. `ClientFollows` needs `Relayed`: the signal of a reply passes
through two queues, is in at most one of them, at most once, and not before the reply finished.
`ClientsAreTold` needs `Connected`: what
has an exchange, or an end on its way, has its signals connected, since the worker connects them before it registers the
exchange; the signal of a reply that completes is then posted with it, and is handed on from one queue to the other.
`ConfirmablesAnswered` is inductive with `TypeOK`. `NoReplyOrphaned` needs `TokenInv`: a
token that a reply knows was used on the wire and is the token of that reply alone, and an abort on its way
names the token of a reply that finished; so an abort, whenever it is handled, removes no exchange of a
reply that still waits. `CancelledAreTold` has the same assumptions, that tokens are generated and none returns:
with `CancelInv`, a reply has at most one token and knows that of its exchange, so the exchange that `cancelObserve`
marks is the one of the reply it tells, and no exchange is marked whose reply was not told; a marked exchange posts no
notification, whatever frames come (`Told`).

*QCoapConnection_proofs.* Passing a frame has two outcomes (`SendRequestOutcomes`):
it waits, or it is written with all that wait. `ConnectionStaysConsistent` follows
from these and is inductive by itself. `FramesStayInOrder` and `FramesStayAccounted` need
each other: `InOrder` relates the written, waiting and dropped numbers to the number of
frames, and is kept by appending, writing and dropping. `FramesKeepTheirServer` assumes nothing of the user. Its
invariant `ServersInv` says that the frames that wait are for servers of `servers` (`HostsAreServers`), and that so is
the peer while the socket is bound, unless verification failed (`PeerIsServer`): `disconnect()` forgets both
together, and only what is sent afterwards brings a server back.

`SecureIsConnection` maps every step of a secure connection to a step or a stutter of the
connection, so that `SecureFramesInOrder` and the others are inherited. `CredentialsStayCurrent` assumes nothing of the
user either: `SecureInv` adds that a configuration that was handled in time is, field by field where it is not
empty, what `QDtls` has as long as no handshake ended unverified (`ConfigurationIsCurrent`), as no handshake can
have started before it.

*QCoapProtocolLifecycle_proofs.* `RequestsFollowLifecycle`: the core implements
`CoapRequestLifecycle`. The initial states map to initial states; for each action, one lemma says what it
changes of the phase and of the cause of each request (`StagesSame`, `CallsSame`, `ExchangesSame`,
`CausesSame` and their exceptions), and `LifecycleStep` follows. `OneEnd` gives that the phases are
disjoint, and `CauseCounted` that a cause is there exactly when `finished()` was emitted.

*CoapTransmission_proofs.* `TypeCorrect` holds for all word sizes and all settings the setters let
through. `AnsweredIsNotGivenUp`: the timers of a message run only while its
transmission is in progress (`Follow`), no timer runs before the start or after the end
(`TimersEnd`), and a `sendRequest` is posted once (`SentOnce`), since a second start would give the request
new timers; durations are not needed. The other two are about durations. `Schedule` derives
each of them from the timeout that was drawn for the first message: after `k` retransmissions the timeout is
the drawn one shifted by `k`, the times of the transmissions lie between the sums of the
doublings, less what a coarse timer may be early and plus what the event loop may be late, and the two
timers that run are set accordingly (`Scheduled`). It needs that no timer is left behind by more than the
event loop may be late (`InTime`) and that a message in progress was sent once more than the counter
says (`Counted`), and it carries `NotGivenUpEarly` along.
That the doublings do not leave the word is `Representable`, what the properties assume; that
`k` doublings make `Shifted[k]` is an induction with a least counterexample. `Coarseness > 2` says
that a timer is early by less than half of its interval (Qt promises 5 %).

*CoapBlockwise_proofs.* `BlockOptionDecodes`: linear arithmetic over the packed number, cut
into bytes; one lemma for the fields, one for each number of bytes. `UploadsLeaveNoGap` assumes
`SizeWaits`. `UploadInv` says more than the
property: every request with a Block1 option carries block `n` of the payload as the client
cuts it now (number, size, flag and units agree), the server has what precedes it, and a frame that asks for
the next block was sent by a server that has everything before that one. The last part is what
makes the step of `Deliver` go through: the number comes from the server, and is the number of a block
the client sent, in the size it still has. That the number survives the way through the bytes is
`BlockOptionDecodes`. `BlocksKeepTheirTurn` needs no `SizeWaits`: `TurnInv` says that a frame with block `n`
comes from a host that has answered requests for all blocks up to `n`, and that every request for block `n`
went to a host that had answered those before.

The other three theorems of this module go on from there. Replies are merged in the order of their numbers:
`Ascending` is a `CHOOSE`, so `AscendingOrders` and `AscendingInterval` show that such an order exists and what it
is for the numbers from 0 to `n`; `FlattenSteps` unrolls the fold of the payloads; with `BlocksTouch` (a block begins
where the one before ends) `MergedIsWhole` follows: when the list has every block from 0 to the last, and
what it has are blocks of one size, in any order and any number of times, the merged payload is the whole content.
What is left to prove is that the list is like that when the last block comes. `SizeInv`: all requests of a transfer are
answered in one size, `Served(request)`, the smaller of what the server likes and what was asked for first;
otherwise the numbers would count different blocks. The size that the user sets later changes only the
blocks of the payload. `TypeCorrect` is proved along with it. `WholeInv`: while a host may still answer a request,
or a frame of it is on its way, all blocks before the one that is asked for or carried are among the replies (`Chain`).
For observe and multicast, whose list outlives a content or holds several hosts, that needs each host to have
one request or one frame at a time (`Single`), which is why `ContentsAreWhole` says for these kinds only what
happens while nothing is repeated; run `notified` shows that it fails otherwise. For a plain request neither
repeats nor order matter, and no theorem of the three assumes `SizeWaits`. `TransferImplemented` adds `DoneInv`:
every request on the wire covers the payload (the server is told that more follows, or has or gets the last
unit, or misses a block and does not answer), so that content comes only from a server that has it all. Then each
action is a step of `CoapTransfer` or unseen: an answer is the upload when it completes the payload, the last
frame hands over, an error or the end of the exchange fails.

*CoapFrame_proofs* is about lists of any length. `AddOptionKeepsOrder` and `AddOptionIsStable` rest on
the place `std::upper_bound` finds; that there is one is `UpperBoundExists`, from the least number with a
property. `FramesReadBack`: a frame is laid out in parts (`Layout`: where the part of each option begins, and
which bytes lie there), one option is read from its part (`OptionRead`, from the
nibbles and the bytes of extension), and the reading loop is after `k` turns at the beginning of part
`k + 1` with the first `k` options (`OptionsDecoded`), so that it ends with all of them and the
payload. `AddOption` puts each option read at the end, as the options come in order. The library's
induction theorems take an operator as a parameter, which the provers cannot instantiate;
what holds for all lengths is proved here of sets (the numbers with a property have 0 and with each
number the next), and folds and recursive functions are unrolled into a function with one value for each step.
`UintReadsBack`: the reading of an option of format uint undoes the writing for all 32 bits, on the powers of 256
written out byte by byte. The sections before and after it say what selecting the options of one name gives after
a list of options was added, which `ServersSeeUrls` needs.

*CoapRequest_proofs.* `RequestInv` is inductive: types, sorted options, the URL of an accepted request
has a port and is valid (`RequestsPrepared`), and the reply of an
observation has the adjusted URL of the one asked for (`ObservationsFound`, from `AdjustedTwice` and
`AdjustedAsSet`: adjusting twice, or setting and adjusting, is adjusting once). `OptionsStaySorted` goes through
everything that is done to options: adding, removing one or all of a name, the options of the URL. Lists that
are set may have any order; what is kept is that a list is sorted unless one was set that is not (`ordered`).
`FramesAreReadable` is about frames whose options are in order.
`FramesAreReadable` and `AnswersAreReadable` assume `InputsFit`: no option of the user or of an answer,
no text of a URL and no proxy URL takes more than the 268 bytes that one byte of extension can say, no token
more than 15, and no version is above 3. That is where the code stops working (section 5); the instance `requests`
satisfies it. `FrameInv` adds that the lists of options are short wherever they are, and that every
token of an exchange fits; then a frame of `toQByteArray` is one of the other end
(`SameFrames`), and an answer is read back by `FramesReadBack`.

`ServersSeeUrls` assumes `UrlLeftToUrl`: the user adds and sets no option of the URL (Uri-Host, Uri-Port, Uri-Path,
Uri-Query) besides the URL. A user who does so asks for another resource than the URL names, and
`addUriOptions` adds to these options, as intended; no claim is made of it. `UrlInv` says that the options of the user
and of every request say nothing of a URL (`OptionsIn`, for all operations) and that each frame
sent for a request has the options `addUriOptions` makes of that request, to the host and the port of its URL
(`FramesOfRequests`). The claim is about requests whose options are in order, without a proxy. Then the options of one name are those of the URL alone, in their order (`UriOptionsAdded`,
from what adding an option does to the options of each name), and host, path and query follow one by one (`UrlShown`).

`DiscoveriesInOrder` assumes `InputsFit`, for the answers to be read back, and `LinksWritten`: each link of a
document has a path and each attribute at most once, as RFC 6690 has it, and no parameter is a separator; what the
parser makes of separators inside quotes is in section 5. `LinksReadBack` is about the parser: `Split` undoes joining
with a separator (`SplitJoint`), so the links and their parameters are found again, and the fields that the parameters
set one after the other are those the link describes (`ResourceDescribed`). `DiscInv` is about the two threads.
Its main part, `AnswersFollowed`, says of each reply that is not finished how many answers it has taken, and
that the others are posted in the order they came: there is an increasing map from their numbers to the places of
the posted calls (`Queued`). A reply that finished by itself has all of them and nothing posted, an aborted one
some of the first. For the end to come after all answers it needs that each reply is
started once and has at most one exchange (`StartedOnce`), and that the call that ends a reply is the last
one posted to it and leaves no exchange of it (`EndsLast`, `EndedOver`): without that an answer could be posted
after the end, and the reply would drop it.

TLC evaluates no hypothesis of a theorem in the runs, but the instance of `requests` satisfies all three:
its user's options are Etag and Size1, its texts and tokens are short, and its links have one path each.

*Only model-checked:* `RequestsEnd`, `TransferEnds` and `TransmissionsEnd` (liveness is out of the
prover's reach). `BlocksReadBack` is about a few numbers, theorem `BlockOptionDecodes` about all of them. Every other
invariant and action property of the passing runs is stated by a theorem. `NoReplyOrphaned` and `CancelledAreTold`
assume that tokens are drawn by the generator and that none returns: a user who sets one token on two requests
replaces the exchange of the first.

*Taken from Qt:* posted events are delivered in order per thread; events of a destroyed
object are dropped; a `QPointer` to it is null; a stopped timer does not fire; the
states of `QDtls` as above.

## 7. Plan

Done: the core and its lifecycle, the transport with its configuration, the blockwise transfer, parameters
and timers with durations, requests with their options, URLs and frames, discovery, and the theorems of section 6.

*Not modelled*, and why:

* destruction of the client while requests run: it deletes its replies, which is `Delete` for each of
  them in the core, and then stops the thread and deletes the protocol, after which nothing of
  what is modelled is left;
* the `QIODevice` side of replies: reading from a buffer; `_q_setContent` of a discovery reply does not
  seek back to its start, which a reader of the raw document would notice;
* `setConnection` and `setSocketOption`, which pass a value on, `onConnectionError`, which relays a signal, and
  write errors, which are logged;
* the parsing of URL and link texts by `QUrl` and regular expressions, texts of errors, and logging.

What could follow: `ServersSeeUrls` for a user who adds options of the URL, whose frame then has those and the
ones of the URL side by side; and answers of `CoapRequest` that come in blocks, on top of `CoapBlockwise`.
