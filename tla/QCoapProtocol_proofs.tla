----------------------- MODULE QCoapProtocol_proofs -----------------------
(***************************************************************************)
(* Theorems of QCoapProtocol, for every number of replies, tokens, message *)
(* ids and hosts.                                                          *)
(***************************************************************************)
EXTENDS QCoapProtocol, FiniteSetTheorems, TLAPS

(***************************************************************************)
(* What the helpers return.                                                *)
(***************************************************************************)

\* What a reply or the protocol posts to the user thread is a sequence of its events.
LEMMA PostType ==
    ASSUME TypeOK, NEW r \in Replies, NEW s \in Seq(UserEvent), Post(r, s)
    PROVE  userQueue' \in Seq(UserEvent)
  <1>1. userQueue \in Seq(UserEvent)
    BY DEF TypeOK
  <1>2. <<>> \in Seq(UserEvent)
    OBVIOUS
  <1>3. userQueue \o s \in Seq(UserEvent) /\ userQueue \o <<>> \in Seq(UserEvent)
    BY <1>1, <1>2
  <1>4. userQueue' = userQueue \o s \/ userQueue' = userQueue \o <<>>
    BY DEF Post
  <1> QED
    BY <1>3, <1>4

\* The worker gets the argument that its posted event carries.
LEMMA NextEventType ==
    ASSUME TypeOK, NEW op, NEW a, NextEvent(op, a)
    PROVE  /\ [op |-> op, arg |-> a] \in ProtocolEvent
           /\ protocolQueue' \in Seq(ProtocolEvent)
  <1>1. protocolQueue \in Seq(ProtocolEvent)
    BY DEF TypeOK
  <1>2. /\ protocolQueue # <<>> /\ Head(protocolQueue) = [op |-> op, arg |-> a]
        /\ protocolQueue' = Tail(protocolQueue)
    BY DEF NextEvent
  <1>3. Head(protocolQueue) \in ProtocolEvent /\ Tail(protocolQueue) \in Seq(ProtocolEvent)
    BY <1>1, <1>2
  <1> QED
    BY <1>2, <1>3

\* The user thread gets an event for the slot it runs.
LEMMA NextSlotType ==
    ASSUME TypeOK, NEW s, NEW r, NextSlot(s, r)
    PROVE  /\ Head(userQueue) \in UserEvent
           /\ userQueue' \in Seq(UserEvent)
           /\ UNCHANGED <<exchangeMap, wire, asked, answers, halted>>
  BY DEF TypeOK, NextSlot

\* An exchange that is sent again is the exchange of the same reply.
LEMMA RestartedType ==
    ASSUME TypeOK, NEW e \in Exchange,
           e.inProgress /\ reply[e.reply].host # Group => e.counter < MaxRetransmit
    PROVE  Restarted(e) \in Exchange /\ Restarted(e).reply = e.reply
  <1>1. CASE e.inProgress /\ reply[e.reply].host # Group
    <2>1. e.counter + 1 \in 0..MaxRetransmit
      BY <1>1, BoundAssumption DEF Exchange
    <2> QED
      BY <1>1, <2>1 DEF Restarted, Exchange
  <1>2. CASE ~ (e.inProgress /\ reply[e.reply].host # Group)
    BY <1>2 DEF Restarted, Exchange
  <1> QED
    BY <1>1, <1>2

\* Sending an exchange keeps the map and the wire well formed as long as the
\* retransmission counter has room.
LEMMA TransmitType ==
    ASSUME TypeOK, NEW t \in Tokens, NEW e \in Exchange, NEW h \in Hosts \cup {Group},
           e.inProgress /\ reply[e.reply].host # Group => e.counter < MaxRetransmit,
           Transmit(t, e, h)
    PROVE  /\ exchangeMap' \in [Tokens -> Exchange \cup {NoExchange}]
           /\ wire' \subseteq Request
  <1>1. Restarted(e) \in Exchange
    BY RestartedType
  <1>2. [tok |-> t, mid |-> e.mid, con |-> reply[e.reply].con, host |-> h] \in Request
    BY DEF Request, Exchange, TypeOK, Reply
  <1> QED
    BY <1>1, <1>2 DEF Transmit, TypeOK

\* A registered token has an exchange.
LEMMA RegisteredType ==
    ASSUME TypeOK, NEW t \in Tokens, Registered(t)
    PROVE  exchangeMap[t] \in Exchange
  BY DEF TypeOK, Registered

\* Accepting a frame stops a unicast transmission and keeps the identity of the exchange.
LEMMA AcceptedType ==
    ASSUME TypeOK, NEW t \in Tokens, Registered(t)
    PROVE  /\ Accepted(t) \in Exchange
           /\ Accepted(t).reply = exchangeMap[t].reply
           /\ Accepted(t).mid = exchangeMap[t].mid
           /\ reply[exchangeMap[t].reply].host # Group => ~Accepted(t).inProgress
  <1> DEFINE x == exchangeMap[t]
             e == Stopped(x)
  <1>1. x \in Exchange
    BY RegisteredType
  <1>2. 0 \in 0..MaxRetransmit
    BY BoundAssumption
  <1>3. /\ e \in Exchange
        /\ e.reply = x.reply /\ e.mid = x.mid
        /\ reply[x.reply].host # Group => ~e.inProgress
    BY <1>1, <1>2 DEF Stopped, Exchange
  <1>4. (e.observe /\ ~e.cancelled) \in BOOLEAN
    OBVIOUS
  <1> HIDE DEF e
  <1>5. /\ [e EXCEPT !.observe = e.observe /\ ~e.cancelled] \in Exchange
        /\ [e EXCEPT !.observe = e.observe /\ ~e.cancelled].reply = e.reply
        /\ [e EXCEPT !.observe = e.observe /\ ~e.cancelled].mid = e.mid
        /\ [e EXCEPT !.observe = e.observe /\ ~e.cancelled].inProgress = e.inProgress
    BY <1>3, <1>4 DEF Exchange
  <1>6. Accepted(t) = [e EXCEPT !.observe = e.observe /\ ~e.cancelled]
    BY DEF Accepted, e
  <1> QED
    BY <1>3, <1>5, <1>6

\* Servers answer with frames about the requests they were sent.
LEMMA FrameType ==
    ASSUME TypeOK, NEW f \in ServerFrames
    PROVE  f \in Frame
  <1>1. PICK q \in wire : f \in FramesFor(q)
    BY DEF ServerFrames
  <1>2. q \in Request
    BY <1>1 DEF TypeOK
  <1>3. (IF q.host = Group THEN Hosts ELSE {q.host}) \subseteq Hosts
    BY <1>2 DEF Request
  <1> QED
    BY <1>1, <1>2, <1>3, ServerAssumption DEF FramesFor, Frame, Request

(***************************************************************************)
(* Type correctness: every operation, slot and handler keeps TypeOK.       *)
(***************************************************************************)

\* Well typed updates of a reply and of its signals.
LEMMA ReplyUpdates ==
    ASSUME NEW x \in Reply
    PROVE  /\ [x EXCEPT !.finished = TRUE, !.running = FALSE] \in Reply
           /\ [x EXCEPT !.running = FALSE] \in Reply
           /\ [x EXCEPT !.connected = TRUE] \in Reply
           /\ [x EXCEPT !.error = "TimeOut"] \in Reply
           /\ \A t \in Tokens : [x EXCEPT !.token = t, !.running = TRUE] \in Reply
  <1>1. [x EXCEPT !.finished = TRUE, !.running = FALSE] \in Reply
    BY DEF Reply
  <1>2. [x EXCEPT !.running = FALSE] \in Reply
    BY DEF Reply
  <1>3. [x EXCEPT !.connected = TRUE] \in Reply
    BY DEF Reply
  <1>4. [x EXCEPT !.error = "TimeOut"] \in Reply
    BY DEF Reply
  <1>5. ASSUME NEW t \in Tokens PROVE [x EXCEPT !.token = t, !.running = TRUE] \in Reply
    BY DEF Reply
  <1> QED
    BY <1>1, <1>2, <1>3, <1>4, <1>5

LEMMA ReplyAborted ==
    ASSUME NEW x \in Reply, NEW b \in BOOLEAN, NEW stage \in {"alive", "deleted"}
    PROVE  [x EXCEPT !.stage = stage, !.aborted = b, !.finished = TRUE, !.running = FALSE] \in Reply
  BY DEF Reply

LEMMA ReplyContent ==
    ASSUME NEW x \in Reply, NEW c \in {"Empty", "Content", "Error"},
           NEW e \in {"Ok", "TimeOut", "Error"}
    PROVE  [x EXCEPT !.code = c, !.error = e] \in Reply
  BY DEF Reply

LEMMA ReplySent ==
    ASSUME NEW x \in Reply, NEW h \in Hosts \cup {Group}, NEW c \in BOOLEAN,
           NEW o \in BOOLEAN, NEW t \in Tokens \cup {EmptyToken}
    PROVE  [x EXCEPT !.stage = "alive", !.host = h, !.con = c,
                     !.observe = o, !.token = t] \in Reply
  BY DEF Reply

LEMMA SignalUpdates ==
    ASSUME NEW x \in Signals
    PROVE  /\ \A n \in Nat, c \in {"completed", "withdrawn"} :
                 [x EXCEPT !.finished = n, !.cause = c] \in Signals
           /\ [x EXCEPT !.client = @ + 1] \in Signals
  <1>1. \A n \in Nat, c \in {"completed", "withdrawn"} :
           [x EXCEPT !.finished = n, !.cause = c] \in Signals
    BY DEF Signals
  <1>2. [x EXCEPT !.client = @ + 1] \in Signals
    BY DEF Signals
  <1> QED
    BY <1>1, <1>2

\* What an emission of finished() does to the signals of its reply.
LEMMA FinishedSignals ==
    ASSUME TypeOK, NEW r \in Replies, NEW cause \in {"completed", "withdrawn"},
           signals' = Finished(r, cause)
    PROVE  /\ signals' \in [Replies -> Signals]
           /\ signals'[r].finished = signals[r].finished + 1
           /\ signals'[r].cause = cause
           /\ signals'[r].client = signals[r].client
           /\ \A q \in Replies \ {r} : signals'[q] = signals[q]
  <1> DEFINE n == signals[r].finished + 1
             x == [signals[r] EXCEPT !.finished = n, !.cause = cause]
  <1>1. signals \in [Replies -> Signals] /\ signals[r] \in Signals /\ n \in Nat
    BY DEF TypeOK, Signals
  <1>2. signals' = [signals EXCEPT ![r] = x]
    BY <1>1 DEF Finished
  <1> HIDE DEF n
  <1>3. x \in Signals
    BY <1>1, SignalUpdates
  <1>4. /\ x.finished = n /\ x.cause = cause
        /\ x.client = signals[r].client
    BY <1>1 DEF Signals
  <1> HIDE DEF x
  <1>5. signals' \in [Replies -> Signals] /\ signals'[r] = x
        /\ \A q \in Replies \ {r} : signals'[q] = signals[q]
    BY <1>1, <1>2, <1>3
  <1> QED
    BY <1>4, <1>5 DEF n

\* abortRequest() and the emission of finished() by a slot keep the types.
LEMMA AbortReplyType ==
    ASSUME TypeOK, NEW r \in Replies, NEW stage \in {"alive", "deleted"}, AbortReply(r, stage)
    PROVE  /\ reply' \in [Replies -> Reply]
           /\ signals' \in [Replies -> Signals]
           /\ protocolQueue' \in Seq(ProtocolEvent)
  <1>1. reply' \in [Replies -> Reply]
    <2> DEFINE b == reply[r].aborted \/ ~reply[r].finished
    <2>1. b \in BOOLEAN /\ reply[r] \in Reply
      BY DEF TypeOK
    <2> HIDE DEF b
    <2>2. [reply[r] EXCEPT !.stage = stage, !.aborted = b, !.finished = TRUE, !.running = FALSE]
             \in Reply
      BY <2>1, ReplyAborted
    <2>3. reply' = [reply EXCEPT ![r] = [reply[r] EXCEPT !.stage = stage, !.aborted = b,
                                                         !.finished = TRUE, !.running = FALSE]]
      BY DEF AbortReply, b
    <2> QED
      BY <2>2, <2>3 DEF TypeOK
  <1>2. signals' \in [Replies -> Signals]
    BY FinishedSignals DEF AbortReply, TypeOK
  <1>3. [op |-> "finished", arg |-> r] \in ProtocolEvent
    BY DEF ProtocolEvent
  <1>4. [op |-> "aborted", arg |-> reply[r].token] \in ProtocolEvent
    BY DEF ProtocolEvent, TypeOK, Reply
  <1>5. AbortEvents(r) \in Seq(ProtocolEvent)
    BY <1>3, <1>4 DEF AbortEvents
  <1>6. protocolQueue' \in Seq(ProtocolEvent)
    BY <1>5 DEF AbortReply, TypeOK
  <1> QED
    BY <1>1, <1>2, <1>6

LEMMA EmitFinishedType ==
    ASSUME TypeOK, NEW r \in Replies, NEW cause \in {"completed", "withdrawn"},
           EmitFinished(r, cause)
    PROVE  /\ reply' \in [Replies -> Reply]
           /\ signals' \in [Replies -> Signals]
           /\ protocolQueue' \in Seq(ProtocolEvent)
  <1>1. reply' \in [Replies -> Reply]
    BY ReplyUpdates DEF EmitFinished, TypeOK
  <1>2. signals' \in [Replies -> Signals]
    BY FinishedSignals DEF EmitFinished
  <1>3. [op |-> "finished", arg |-> r] \in ProtocolEvent
    BY DEF ProtocolEvent
  <1>4. FinishedEvents(r) \in Seq(ProtocolEvent)
    BY <1>3 DEF FinishedEvents
  <1>5. protocolQueue' \in Seq(ProtocolEvent)
    BY <1>4 DEF EmitFinished, TypeOK
  <1> QED
    BY <1>1, <1>2, <1>5

LEMMA UserOperationType == TypeOK /\ UserOperation => TypeOK'
  <1> SUFFICES ASSUME TypeOK, UserOperation PROVE TypeOK'
    OBVIOUS
  <1>1. ASSUME NEW r \in Replies, Send(r) PROVE TypeOK'
    <2>1. reply' \in [Replies -> Reply]
      <3>1. reply \in [Replies -> Reply]
        BY DEF TypeOK
      <3>2. PICK h \in Targets, c \in Confirmables, o \in Observes, t \in UserTokens :
                 reply' = [reply EXCEPT ![r] = [@ EXCEPT !.stage = "alive", !.host = h, !.con = c,
                                                         !.observe = o, !.token = t]]
        BY <1>1 DEF Send
      <3>3. /\ h \in Hosts \cup {Group} /\ c \in BOOLEAN /\ o \in BOOLEAN
            /\ t \in Tokens \cup {EmptyToken}
        BY HostAssumption, TokenAssumption, FlagAssumption
      <3> QED
        BY <3>1, <3>2, <3>3, ReplySent
    <2>2. [op |-> "sendRequest", arg |-> r] \in ProtocolEvent
      BY DEF ProtocolEvent
    <2> QED
      BY <1>1, <2>1, <2>2 DEF Send, TypeOK
  <1>2. ASSUME NEW r \in Replies, Abort(r) PROVE TypeOK'
    BY <1>2, AbortReplyType DEF Abort, TypeOK
  <1>3. ASSUME NEW r \in Replies, Delete(r) PROVE TypeOK'
    BY <1>3, AbortReplyType DEF Delete, TypeOK
  <1>4. ASSUME NEW r \in Replies, CancelObserve(r) PROVE TypeOK'
    <2>1. [op |-> "cancelObserve", arg |-> r] \in ProtocolEvent
      BY DEF ProtocolEvent
    <2> QED
      BY <1>4, <2>1 DEF CancelObserve, TypeOK
  <1>5. ASSUME NEW h \in Targets, CancelObserveUrl(h) PROVE TypeOK'
    <2>1. [op |-> "cancelObserveUrl", arg |-> h] \in ProtocolEvent
      BY HostAssumption DEF ProtocolEvent
    <2> QED
      BY <1>5, <2>1 DEF CancelObserveUrl, TypeOK
  <1> QED
    BY <1>1, <1>2, <1>3, <1>4, <1>5 DEF UserOperation

LEMMA RunSlotType == TypeOK /\ RunSlot => TypeOK'
  <1> SUFFICES ASSUME TypeOK, NEW r \in Replies,
                      \/ SetRunning(r) \/ SetContent(r) \/ SetNotified(r) \/ SetFinished(r)
                      \/ SetError(r) \/ SetObserveCancelled(r) \/ ClientFinished(r)
                      \/ \E s \in ReplySlots : DropEvent(s, r)
               PROVE  TypeOK'
    BY DEF RunSlot
  <1>1. CASE SetRunning(r)
    <2>1. Head(userQueue).arg \in Tokens
      BY <1>1, NextSlotType DEF SetRunning, NextSlot, UserEvent
    <2> QED
      BY <1>1, <2>1, NextSlotType, ReplyUpdates DEF SetRunning, TypeOK
  <1>2. CASE SetContent(r)
    <2>1. Head(userQueue).arg \in {"Empty", "Content", "Error"}
      BY <1>2, NextSlotType DEF SetContent, NextSlot, UserEvent
    <2>3. reply[r].error \in {"Ok", "TimeOut", "Error"}
      BY DEF TypeOK, Reply
    <2>4. reply' \in [Replies -> Reply]
      BY <1>2, <2>1, <2>3, ReplyContent DEF SetContent, TypeOK
    <2> QED
      BY <1>2, <2>4, NextSlotType DEF SetContent, TypeOK
  <1>3. CASE SetNotified(r)
    BY <1>3, NextSlotType DEF SetNotified, TypeOK
  <1>4. CASE SetFinished(r)
    BY <1>4, NextSlotType, EmitFinishedType DEF SetFinished, TypeOK
  <1>5. CASE SetError(r)
    <2>1. reply' \in [Replies -> Reply]
      BY <1>5, ReplyUpdates DEF SetError, TypeOK
    <2> QED
      BY <1>5, <2>1, NextSlotType DEF SetError, TypeOK
  <1>6. CASE SetObserveCancelled(r)
    <2>1. CASE reply[r].finished
      <3>1. reply' \in [Replies -> Reply]
        <4>1. reply' = [reply EXCEPT ![r] = [@ EXCEPT !.running = FALSE]]
          BY <1>6, <2>1 DEF SetObserveCancelled
        <4> QED
          BY <4>1, ReplyUpdates DEF TypeOK
      <3> QED
        BY <1>6, <2>1, <3>1, NextSlotType DEF SetObserveCancelled, TypeOK
    <2>2. CASE ~reply[r].finished
      BY <1>6, <2>2, NextSlotType, EmitFinishedType DEF SetObserveCancelled, TypeOK
    <2> QED
      BY <2>1, <2>2
  <1>7. CASE ClientFinished(r)
    BY <1>7, NextSlotType, SignalUpdates DEF ClientFinished, TypeOK
  <1>8. ASSUME NEW s \in ReplySlots, DropEvent(s, r) PROVE TypeOK'
    BY <1>8, NextSlotType DEF DropEvent, TypeOK
  <1> QED
    BY <1>1, <1>2, <1>3, <1>4, <1>5, <1>6, <1>7, <1>8

\* The exchange that a request starts with.
LEMMA NewExchangeType ==
    ASSUME NEW r \in Replies, NEW m \in MessageIds, NEW o \in BOOLEAN
    PROVE  [reply |-> r, mid |-> m, observe |-> o, cancelled |-> FALSE,
            inProgress |-> FALSE, counter |-> 0] \in Exchange
  BY BoundAssumption DEF Exchange

\* Cancelling a sequence of observations keeps the map and the queue well formed.
LEMMA CancelAllType ==
    ASSUME TypeOK, NEW rs \in Seq(Replies), CancelAll(rs)
    PROVE  /\ exchangeMap' \in [Tokens -> Exchange \cup {NoExchange}]
           /\ userQueue' \in Seq(UserEvent)
  <1>1. \A t \in Tokens :
           Registered(t) => [exchangeMap[t] EXCEPT !.cancelled = TRUE] \in Exchange
    BY RegisteredType DEF Exchange
  <1>2. exchangeMap' \in [Tokens -> Exchange \cup {NoExchange}]
    BY <1>1 DEF CancelAll, TypeOK
  <1>3. \A r \in Replies : Event("_q_setObserveCancelled", r, "-") \in UserEvent
    BY DEF Event, UserEvent
  <1>4. [i \in DOMAIN rs |-> Event("_q_setObserveCancelled", rs[i], "-")] \in Seq(UserEvent)
    BY <1>3
  <1> QED
    BY <1>2, <1>4 DEF CancelAll, TypeOK

\* An order in which a set of replies is visited is a sequence of replies.
LEMMA OrderType ==
    ASSUME NEW S \in SUBSET Replies, NEW rs \in SetToSeqs(S)
    PROVE  rs \in Seq(Replies)
  <1>1. Cardinality(S) \in Nat
    BY ReplyAssumption, FS_Subset, FS_CardinalityType
  <1>2. rs \in [1..Cardinality(S) -> S]
    BY DEF SetToSeqs
  <1> QED
    BY <1>1, <1>2

LEMMA StartRequestType ==
    ASSUME TypeOK, NEW r \in Replies, StartRequest(r)
    PROVE  TypeOK'
  <1> DEFINE new(m) == [reply |-> r, mid |-> m, observe |-> reply[r].observe,
                        cancelled |-> FALSE, inProgress |-> FALSE, counter |-> 0]
  <1>1. reply[r] \in Reply /\ reply[r].token \in Tokens \cup {EmptyToken}
        /\ reply[r].observe \in BOOLEAN /\ reply[r].host \in Hosts \cup {Group}
    BY DEF TypeOK, Reply
  <1>2. PICK m \in FreeIds,
             t \in (IF reply[r].token = EmptyToken THEN FreeTokens ELSE {reply[r].token}) :
           /\ Transmit(t, new(m), reply[r].host)
           /\ Post(r, <<Event("_q_setRunning", r, t)>>)
    BY DEF StartRequest
  <1>3. m \in MessageIds /\ t \in Tokens
    BY <1>1, <1>2 DEF FreeIds, FreeTokens
  <1>4. new(m) \in Exchange /\ ~new(m).inProgress
    BY <1>1, <1>3, NewExchangeType
  <1> HIDE DEF new
  <1>5. /\ exchangeMap' \in [Tokens -> Exchange \cup {NoExchange}]
        /\ wire' \subseteq Request
    BY <1>1, <1>2, <1>3, <1>4, TransmitType
  <1>6. <<Event("_q_setRunning", r, t)>> \in Seq(UserEvent)
    BY <1>3 DEF Event, UserEvent
  <1>7. userQueue' \in Seq(UserEvent)
    BY <1>2, <1>6, PostType
  <1>8. protocolQueue' \in Seq(ProtocolEvent)
    BY NextEventType DEF StartRequest
  <1>9. reply' \in [Replies -> Reply]
    BY <1>1, ReplyUpdates DEF StartRequest, TypeOK
  <1> QED
    BY <1>5, <1>7, <1>8, <1>9 DEF StartRequest, TypeOK

LEMMA HandleEventType == TypeOK /\ HandleEvent => TypeOK'
  <1> SUFFICES ASSUME TypeOK, HandleEvent PROVE TypeOK'
    OBVIOUS
  <1>1. ASSUME NEW r \in Replies, StartRequest(r) PROVE TypeOK'
    BY <1>1, StartRequestType
  <1>2. ASSUME NEW r \in Replies, SkipRequest(r) PROVE TypeOK'
    BY <1>2, NextEventType DEF SkipRequest, TypeOK
  <1>3. ASSUME NEW r \in Replies, OnCancelObserve(r) PROVE TypeOK'
    <2>1. <<r>> \in Seq(Replies)
      OBVIOUS
    <2>2. protocolQueue' \in Seq(ProtocolEvent)
      BY <1>3, NextEventType DEF OnCancelObserve
    <2>3. /\ exchangeMap' \in [Tokens -> Exchange \cup {NoExchange}]
          /\ userQueue' \in Seq(UserEvent)
      BY <1>3, <2>1, CancelAllType DEF OnCancelObserve, TypeOK
    <2> QED
      BY <1>3, <2>2, <2>3 DEF OnCancelObserve, TypeOK
  <1>4. ASSUME NEW r \in Replies, RelayFinished(r) PROVE TypeOK'
    <2>1. Event("clientFinished", r, "-") \in UserEvent
      BY DEF Event, UserEvent
    <2>2. protocolQueue' \in Seq(ProtocolEvent)
      BY <1>4, NextEventType DEF RelayFinished
    <2> QED
      BY <1>4, <2>1, <2>2 DEF RelayFinished, TypeOK
  <1>5. ASSUME NEW t \in Tokens \cup {EmptyToken}, OnRequestAborted(t) PROVE TypeOK'
    <2>1. protocolQueue' \in Seq(ProtocolEvent)
      BY <1>5, NextEventType DEF OnRequestAborted
    <2>2. exchangeMap' \in [Tokens -> Exchange \cup {NoExchange}]
      BY <1>5 DEF OnRequestAborted, Forget, TypeOK
    <2> QED
      BY <1>5, <2>1, <2>2 DEF OnRequestAborted, TypeOK
  <1>6. ASSUME NEW h \in Hosts \cup {Group}, OnCancelObserveUrl(h) PROVE TypeOK'
    <2> DEFINE owners == {exchangeMap[t].reply : t \in {x \in Tokens : Registered(x)}}
               chosen == {r \in owners : reply[r].host = h /\ (Tracked(r) => Cancellable(r))}
    <2>1. chosen \subseteq Replies
      BY RegisteredType DEF Exchange
    <2>2. protocolQueue' \in Seq(ProtocolEvent)
      BY <1>6, NextEventType DEF OnCancelObserveUrl
    <2>3. CASE \A r \in owners : Alive(r)
      <3>1. PICK rs \in SetToSeqs(chosen) : CancelAll(rs)
        BY <1>6, <2>3 DEF OnCancelObserveUrl
      <3>2. rs \in Seq(Replies)
        BY <2>1, OrderType
      <3>3. /\ exchangeMap' \in [Tokens -> Exchange \cup {NoExchange}]
            /\ userQueue' \in Seq(UserEvent)
        BY <3>1, <3>2, CancelAllType
      <3> QED
        BY <1>6, <2>2, <2>3, <3>3 DEF OnCancelObserveUrl, TypeOK
    <2>4. CASE ~ \A r \in owners : Alive(r)
      BY <1>6, <2>2, <2>4 DEF OnCancelObserveUrl, TypeOK
    <2> QED
      BY <2>3, <2>4
  <1> QED
    BY <1>1, <1>2, <1>3, <1>4, <1>5, <1>6 DEF HandleEvent

\* The ACK or RST for a frame, and the record of its question, are well typed.
LEMMA AnswerType ==
    ASSUME TypeOK, NEW f \in Frame, NEW t \in Tokens, Registered(t)
    PROVE  AnswersTo(f, t) \subseteq Answer /\ Asks(f) \subseteq Question
  <1>1. exchangeMap[t] \in Exchange
    BY RegisteredType
  <1>2. reply[exchangeMap[t].reply].host \in Hosts \cup {Group} /\ f.mid \in MessageIds
    BY <1>1 DEF TypeOK, Exchange, Reply, Frame
  <1>3. AnswersTo(f, t) \subseteq Answer
    BY <1>2 DEF AnswersTo, Answer
  <1>4. Asks(f) \subseteq Question
    BY DEF Asks, Question, Frame
  <1> QED
    BY <1>3, <1>4

LEMMA ReadFrameType == TypeOK /\ ReadFrame => TypeOK'
  <1> SUFFICES ASSUME TypeOK, NEW f \in ServerFrames, NEW t \in Tokens, OnFrameReceived(f, t)
               PROVE  TypeOK'
    BY DEF ReadFrame
  <1> DEFINE r == exchangeMap[t].reply
  <1>1. Registered(t)
    BY DEF OnFrameReceived, ReceiveError, ReceiveBlock, ReceiveUnwanted, ReceiveEmptyAck,
           ReceiveResponse, Matches
  <1>2. exchangeMap[t] \in Exchange /\ r \in Replies
    BY <1>1, RegisteredType DEF Exchange
  <1>3. f \in Frame /\ f.code \in {"Empty", "Content", "Error"} /\ f.from \in Hosts
    BY FrameType DEF Frame
  <1>4. AnswersTo(f, t) \subseteq Answer /\ Asks(f) \subseteq Question
    BY <1>1, <1>3, AnswerType
  <1>5. /\ Event("_q_setContent", r, f.code) \in UserEvent
        /\ Event("_q_setFinished", r, "-") \in UserEvent
        /\ Event("_q_setNotified", r, "-") \in UserEvent
    BY <1>2, <1>3 DEF Event, UserEvent
  <1>6. CASE ReceiveError(f, t)
    <2>1. <<Event("_q_setContent", r, "Error"), Event("_q_setFinished", r, "-")>> \in Seq(UserEvent)
      BY <1>5, <1>6 DEF ReceiveError
    <2>2. userQueue' \in Seq(UserEvent)
      BY <1>2, <1>6, <2>1, PostType DEF ReceiveError
    <2> QED
      BY <1>4, <1>6, <2>2 DEF ReceiveError, Forget, TypeOK
  <1>7. CASE ReceiveBlock(f, t)
    <2> DEFINE h == IF f.next = "receive" THEN f.from ELSE reply[r].host
    <2>1. PICK m \in FreeIds : Transmit(t, [Accepted(t) EXCEPT !.mid = m], h)
      BY <1>7 DEF ReceiveBlock
    <2>2. h \in Hosts \cup {Group}
      BY <1>2, <1>3 DEF TypeOK, Reply
    <2>3. /\ [Accepted(t) EXCEPT !.mid = m] \in Exchange
          /\ [Accepted(t) EXCEPT !.mid = m].reply = r
          /\ reply[r].host # Group => ~[Accepted(t) EXCEPT !.mid = m].inProgress
      BY <1>1, <2>1, AcceptedType DEF Exchange, FreeIds
    <2>4. /\ exchangeMap' \in [Tokens -> Exchange \cup {NoExchange}]
          /\ wire' \subseteq Request
      BY <2>1, <2>2, <2>3, TransmitType
    <2> QED
      BY <1>4, <1>7, <2>4 DEF ReceiveBlock, TypeOK
  <1>8. CASE ReceiveUnwanted(f, t)
    BY <1>4, <1>8 DEF ReceiveUnwanted, Forget, TypeOK
  <1>9. CASE ReceiveEmptyAck(f, t)
    <2>1. exchangeMap' \in [Tokens -> Exchange \cup {NoExchange}]
      BY <1>1, <1>9, AcceptedType DEF ReceiveEmptyAck, TypeOK
    <2> QED
      BY <1>4, <1>9, <2>1 DEF ReceiveEmptyAck, TypeOK
  <1>10. CASE ReceiveResponse(f, t)
    <2> DEFINE last == IF Accepted(t).observe THEN <<Event("_q_setNotified", r, "-")>>
                       ELSE IF IsMulticast(t) THEN <<>>
                       ELSE <<Event("_q_setFinished", r, "-")>>
    <2>1. last \in Seq(UserEvent)
      BY <1>5
    <2>2. <<Event("_q_setContent", r, f.code)>> \o last \in Seq(UserEvent)
      BY <1>5, <2>1
    <2>3. Post(r, <<Event("_q_setContent", r, f.code)>> \o last)
      BY <1>10 DEF ReceiveResponse
    <2> HIDE DEF last
    <2>4. userQueue' \in Seq(UserEvent)
      BY <1>2, <2>2, <2>3, PostType
    <2>5. exchangeMap' \in [Tokens -> Exchange \cup {NoExchange}]
      BY <1>1, <1>10, AcceptedType DEF ReceiveResponse, Forget, TypeOK
    <2> QED
      BY <1>4, <1>10, <2>4, <2>5 DEF ReceiveResponse, TypeOK
  <1> QED
    BY <1>6, <1>7, <1>8, <1>9, <1>10 DEF OnFrameReceived

\* Giving up an exchange, by error or expiry, is well typed.
LEMMA OnRequestErrorType ==
    ASSUME TypeOK, NEW t \in Tokens, Registered(t), OnRequestError(t)
    PROVE  TypeOK'
  <1>1. exchangeMap[t].reply \in Replies
    BY RegisteredType DEF Exchange
  <1>2. ErrorEvents(exchangeMap[t].reply) \in Seq(UserEvent)
    BY <1>1 DEF ErrorEvents, Event, UserEvent
  <1>3. userQueue' \in Seq(UserEvent)
    BY <1>1, <1>2, PostType DEF OnRequestError
  <1> QED
    BY <1>3 DEF OnRequestError, Forget, TypeOK

LEMMA TimerType ==
    ASSUME TypeOK, NEW t \in Tokens, OnRequestTimeout(t) \/ FireTimer(t)
    PROVE  TypeOK'
  <1>1. Registered(t)
    BY DEF OnRequestTimeout, FireTimer, OnRequestMaxTransmissionSpanReached,
           OnMulticastRequestExpired
  <1>2. exchangeMap[t] \in Exchange /\ exchangeMap[t].reply \in Replies
    BY <1>1, RegisteredType DEF Exchange
  <1>3. CASE OnRequestTimeout(t) /\ CanRetransmit(t)
    <2>1. reply[exchangeMap[t].reply].host \in Hosts \cup {Group}
      BY <1>2 DEF TypeOK, Reply
    <2>2. Transmit(t, exchangeMap[t], reply[exchangeMap[t].reply].host)
      BY <1>3 DEF OnRequestTimeout
    <2>3. /\ exchangeMap' \in [Tokens -> Exchange \cup {NoExchange}]
          /\ wire' \subseteq Request
      BY <1>2, <1>3, <2>1, <2>2, TransmitType DEF CanRetransmit
    <2> QED
      BY <1>3, <2>3 DEF OnRequestTimeout, TypeOK
  <1>4. CASE OnRequestTimeout(t) /\ ~CanRetransmit(t)
    BY <1>1, <1>4, OnRequestErrorType DEF OnRequestTimeout
  <1>5. CASE OnRequestMaxTransmissionSpanReached(t)
    BY <1>1, <1>5, OnRequestErrorType DEF OnRequestMaxTransmissionSpanReached
  <1>6. CASE OnMulticastRequestExpired(t)
    <2>1. <<Event("_q_setFinished", exchangeMap[t].reply, "-")>> \in Seq(UserEvent)
      BY <1>2 DEF Event, UserEvent
    <2>2. userQueue' \in Seq(UserEvent)
      BY <1>2, <1>6, <2>1, PostType DEF OnMulticastRequestExpired
    <2> QED
      BY <1>6, <2>2 DEF OnMulticastRequestExpired, Forget, TypeOK
  <1> QED
    BY <1>3, <1>4, <1>5, <1>6 DEF FireTimer

LEMMA InitType == Init => TypeOK
  <1> SUFFICES ASSUME Init PROVE TypeOK
    OBVIOUS
  <1>1. reply \in [Replies -> Reply]
    BY DEF Init, Reply
  <1>2. signals \in [Replies -> Signals]
    BY DEF Init, Signals
  <1>3. exchangeMap \in [Tokens -> Exchange \cup {NoExchange}]
    BY DEF Init
  <1>4. userQueue \in Seq(UserEvent) /\ protocolQueue \in Seq(ProtocolEvent)
    BY DEF Init
  <1>5. wire = {} /\ asked = {} /\ answers = {} /\ halted = FALSE
    BY DEF Init
  <1> QED
    BY <1>1, <1>2, <1>3, <1>4, <1>5 DEF TypeOK

\* Every reachable state of the two threads is well typed; in particular no exchange is
\* transmitted more than 1 + maximumRetransmitCount times between two accepted frames.
THEOREM TypeCorrect == Spec => []TypeOK
  <1>1. TypeOK /\ [Next]_vars => TypeOK'
    <2> SUFFICES ASSUME TypeOK, [Next]_vars PROVE TypeOK'
      OBVIOUS
    <2>1. CASE Next
      BY <2>1, UserOperationType, RunSlotType, HandleEventType, ReadFrameType, TimerType DEF Next
    <2>2. CASE UNCHANGED vars
      BY <2>2 DEF vars, TypeOK
    <2> QED
      BY <2>1, <2>2
  <1> QED
    BY InitType, <1>1, PTL DEF Spec

(***************************************************************************)
(* Message ids.  Only StartRequest and ReceiveBlock number an exchange,    *)
(* and both take a free id; every other step keeps or drops the ids.       *)
(***************************************************************************)

KeepsIds == \A t \in Tokens :
               Registered(t)' => Registered(t) /\ exchangeMap'[t].mid = exchangeMap[t].mid

LEMMA KeepsUnique == UniqueMessageIds /\ KeepsIds => UniqueMessageIds'
  BY DEF UniqueMessageIds, KeepsIds

LEMMA TransmitKeeps ==
    ASSUME TypeOK, UniqueMessageIds, NEW t \in Tokens, NEW e \in Exchange, NEW h,
           e.mid \in FreeIds, Transmit(t, e, h)
    PROVE  UniqueMessageIds'
  <1>1. /\ exchangeMap'[t] = Restarted(e)
        /\ \A s \in Tokens \ {t} : exchangeMap'[s] = exchangeMap[s]
    BY DEF Transmit, TypeOK
  <1>2. Restarted(e).mid = e.mid
    BY DEF Restarted, Exchange
  <1>3. \A s \in Tokens : Registered(s) => exchangeMap[s].mid # e.mid
    BY DEF FreeIds
  <1> QED
    BY <1>1, <1>2, <1>3 DEF UniqueMessageIds, Registered

LEMMA ForgetKeeps == ASSUME TypeOK, NEW t \in Tokens, Forget(t) PROVE KeepsIds
  BY DEF Forget, KeepsIds, Registered, TypeOK

LEMMA CancelAllKeeps == ASSUME TypeOK, NEW rs, CancelAll(rs) PROVE KeepsIds
  <1>1. \A t \in Tokens : Registered(t) =>
           [exchangeMap[t] EXCEPT !.cancelled = TRUE].mid = exchangeMap[t].mid
    BY RegisteredType DEF Exchange
  <1>2. ASSUME NEW t \in Tokens
        PROVE  \/ exchangeMap'[t] = exchangeMap[t]
               \/ /\ Registered(t)
                  /\ exchangeMap'[t] = [exchangeMap[t] EXCEPT !.cancelled = TRUE]
    BY DEF CancelAll, Registered
  <1> QED
    BY <1>1, <1>2 DEF KeepsIds, Registered

LEMMA HandleEventUnique ==
    ASSUME TypeOK, UniqueMessageIds, HandleEvent PROVE UniqueMessageIds'
  <1>1. ASSUME NEW r \in Replies, StartRequest(r) PROVE UniqueMessageIds'
    <2> DEFINE new(m) == [reply |-> r, mid |-> m, observe |-> reply[r].observe,
                          cancelled |-> FALSE, inProgress |-> FALSE, counter |-> 0]
    <2>1. reply[r].token \in Tokens \cup {EmptyToken} /\ reply[r].observe \in BOOLEAN
      BY DEF TypeOK, Reply
    <2>2. PICK m \in FreeIds,
               t \in (IF reply[r].token = EmptyToken THEN FreeTokens ELSE {reply[r].token}) :
             Transmit(t, new(m), reply[r].host)
      BY <1>1 DEF StartRequest
    <2>3. m \in MessageIds /\ t \in Tokens
      BY <2>1, <2>2 DEF FreeIds, FreeTokens
    <2>4. new(m) \in Exchange /\ new(m).mid = m
      BY <2>1, <2>3, NewExchangeType
    <2> HIDE DEF new
    <2> QED
      BY <2>2, <2>3, <2>4, TransmitKeeps
  <1>2. ASSUME NEW r \in Replies, SkipRequest(r) \/ RelayFinished(r) PROVE UniqueMessageIds'
    BY <1>2 DEF SkipRequest, RelayFinished, UniqueMessageIds, Registered
  <1>3. ASSUME NEW r \in Replies, OnCancelObserve(r) PROVE UniqueMessageIds'
    <2>1. CASE CancelAll(<<r>>)
      BY <2>1, CancelAllKeeps, KeepsUnique
    <2>2. CASE UNCHANGED exchangeMap
      BY <2>2 DEF UniqueMessageIds, Registered
    <2> QED
      BY <1>3, <2>1, <2>2 DEF OnCancelObserve
  <1>4. ASSUME NEW t \in Tokens \cup {EmptyToken}, OnRequestAborted(t) PROVE UniqueMessageIds'
    <2>1. CASE t = EmptyToken
      BY <1>4, <2>1 DEF OnRequestAborted, UniqueMessageIds, Registered
    <2>2. CASE t # EmptyToken
      BY <1>4, <2>2, ForgetKeeps, KeepsUnique DEF OnRequestAborted
    <2> QED
      BY <2>1, <2>2
  <1>5. ASSUME NEW h \in Hosts \cup {Group}, OnCancelObserveUrl(h) PROVE UniqueMessageIds'
    <2>1. CASE \E rs : CancelAll(rs)
      BY <2>1, CancelAllKeeps, KeepsUnique
    <2>2. CASE UNCHANGED exchangeMap
      BY <2>2 DEF UniqueMessageIds, Registered
    <2> QED
      BY <1>5, <2>1, <2>2 DEF OnCancelObserveUrl
  <1> QED
    BY <1>1, <1>2, <1>3, <1>4, <1>5 DEF HandleEvent

LEMMA ReadFrameUnique ==
    ASSUME TypeOK, UniqueMessageIds, ReadFrame PROVE UniqueMessageIds'
  <1> SUFFICES ASSUME NEW f \in ServerFrames, NEW t \in Tokens, OnFrameReceived(f, t)
               PROVE  UniqueMessageIds'
    BY DEF ReadFrame
  <1>1. Registered(t)
    BY DEF OnFrameReceived, ReceiveError, ReceiveBlock, ReceiveUnwanted, ReceiveEmptyAck,
           ReceiveResponse, Matches
  <1>2. CASE Forget(t)
    BY <1>2, ForgetKeeps, KeepsUnique
  <1>3. CASE exchangeMap' = [exchangeMap EXCEPT ![t] = Accepted(t)]
    BY <1>1, <1>3, AcceptedType, KeepsUnique DEF KeepsIds, Registered, TypeOK
  <1>4. CASE ReceiveBlock(f, t)
    <2>1. PICK m \in FreeIds :
             Transmit(t, [Accepted(t) EXCEPT !.mid = m],
                      IF f.next = "receive" THEN f.from ELSE reply[exchangeMap[t].reply].host)
      BY <1>4 DEF ReceiveBlock
    <2>2. /\ [Accepted(t) EXCEPT !.mid = m] \in Exchange
          /\ [Accepted(t) EXCEPT !.mid = m].mid = m
      BY <1>1, <2>1, AcceptedType DEF Exchange, FreeIds
    <2> QED
      BY <2>1, <2>2, TransmitKeeps
  <1> QED
    BY <1>2, <1>3, <1>4 DEF OnFrameReceived, ReceiveError, ReceiveUnwanted, ReceiveEmptyAck,
       ReceiveResponse

LEMMA TimerUnique ==
    ASSUME TypeOK, UniqueMessageIds, NEW t \in Tokens, OnRequestTimeout(t) \/ FireTimer(t)
    PROVE  UniqueMessageIds'
  <1>1. Registered(t)
    BY DEF OnRequestTimeout, FireTimer, OnRequestMaxTransmissionSpanReached,
           OnMulticastRequestExpired
  <1>2. CASE Forget(t)
    BY <1>2, ForgetKeeps, KeepsUnique
  <1>3. CASE OnRequestTimeout(t) /\ CanRetransmit(t)
    <2>1. Restarted(exchangeMap[t]).mid = exchangeMap[t].mid
      BY <1>1, RegisteredType DEF Restarted, Exchange
    <2>2. exchangeMap' = [exchangeMap EXCEPT ![t] = Restarted(exchangeMap[t])]
      BY <1>3 DEF OnRequestTimeout, Transmit
    <2> QED
      BY <1>1, <2>1, <2>2, KeepsUnique DEF KeepsIds, Registered, TypeOK
  <1> QED
    BY <1>2, <1>3 DEF OnRequestTimeout, FireTimer, OnRequestMaxTransmissionSpanReached,
       OnMulticastRequestExpired, OnRequestError

\* generateUniqueMessageId and the renumbering of blocks: at any time two registered
\* exchanges have different message ids.
THEOREM MessageIdsUnique == Spec => []UniqueMessageIds
  <1>1. Init => UniqueMessageIds
    BY DEF Init, UniqueMessageIds, Registered
  <1>2. TypeOK /\ UniqueMessageIds /\ [Next]_vars => UniqueMessageIds'
    <2> SUFFICES ASSUME TypeOK, UniqueMessageIds, [Next]_vars PROVE UniqueMessageIds'
      OBVIOUS
    <2>1. CASE UserOperation \/ RunSlot
      BY <2>1 DEF UserOperation, RunSlot, Send, Abort, Delete, CancelObserve, CancelObserveUrl,
         SetRunning, SetContent, SetNotified, SetFinished, SetError, SetObserveCancelled,
         ClientFinished, DropEvent, NextSlot, UniqueMessageIds, Registered
    <2>2. CASE UNCHANGED vars
      BY <2>2 DEF vars, UniqueMessageIds, Registered
    <2> QED
      BY <2>1, <2>2, HandleEventUnique, ReadFrameUnique, TimerUnique DEF Next
  <1> QED
    BY <1>1, <1>2, TypeCorrect, PTL DEF Spec

(***************************************************************************)
(* finished().  A step that emits it finds the reply unfinished and        *)
(* finishes it; no step makes a reply unfinished again.                    *)
(***************************************************************************)

LEMMA EmitFinishedOnce ==
    ASSUME TypeOK, FinishedOnce, NEW r \in Replies, ~reply[r].finished,
           NEW cause \in {"completed", "withdrawn"}, EmitFinished(r, cause)
    PROVE  FinishedOnce'
  <1>1. reply'[r].finished /\ \A q \in Replies \ {r} : reply'[q] = reply[q]
    BY DEF EmitFinished, TypeOK, Reply
  <1> QED
    BY <1>1, FinishedSignals DEF EmitFinished, FinishedOnce

LEMMA AbortReplyOnce ==
    ASSUME TypeOK, FinishedOnce, NEW r \in Replies, NEW stage, AbortReply(r, stage)
    PROVE  FinishedOnce'
  <1>1. /\ reply'[r].finished
        /\ \A q \in Replies \ {r} : reply'[q] = reply[q]
    BY DEF AbortReply, TypeOK, Reply
  <1>2. CASE reply[r].finished
    BY <1>1, <1>2 DEF AbortReply, FinishedOnce
  <1>3. CASE ~reply[r].finished
    <2>1. /\ signals'[r].finished = signals[r].finished + 1
          /\ \A q \in Replies \ {r} : signals'[q] = signals[q]
      BY <1>3, FinishedSignals DEF AbortReply
    <2> QED
      BY <1>1, <1>3, <2>1 DEF FinishedOnce
  <1> QED
    BY <1>2, <1>3

\* A step that neither finishes a reply nor counts a signal of it keeps the count.
LEMMA SameFinished ==
    ASSUME FinishedOnce,
           \A q \in Replies : /\ reply'[q].finished = reply[q].finished
                              /\ signals'[q].finished = signals[q].finished
    PROVE  FinishedOnce'
  BY DEF FinishedOnce

LEMMA RunSlotOnce == ASSUME TypeOK, FinishedOnce, RunSlot PROVE FinishedOnce'
  <1> SUFFICES ASSUME NEW r \in Replies,
                      \/ SetRunning(r) \/ SetContent(r) \/ SetNotified(r) \/ SetFinished(r)
                      \/ SetError(r) \/ SetObserveCancelled(r) \/ ClientFinished(r)
                      \/ \E s \in ReplySlots : DropEvent(s, r)
               PROVE  FinishedOnce'
    BY DEF RunSlot
  <1>1. CASE SetRunning(r)
    BY <1>1, SameFinished DEF SetRunning, TypeOK, Reply
  <1>2. CASE SetContent(r)
    BY <1>2, SameFinished DEF SetContent, TypeOK, Reply
  <1>3. CASE SetNotified(r)
    BY <1>3, SameFinished DEF SetNotified
  <1>4. CASE SetFinished(r)
    <2>1. CASE reply[r].finished
      BY <1>4, <2>1, SameFinished DEF SetFinished
    <2>2. CASE ~reply[r].finished
      BY <1>4, <2>2, EmitFinishedOnce DEF SetFinished
    <2> QED
      BY <2>1, <2>2
  <1>5. CASE SetError(r)
    <2>1. \A q \in Replies : reply'[q].finished = reply[q].finished
      BY <1>5 DEF SetError, TypeOK, Reply
    <2> QED
      BY <1>5, <2>1, SameFinished DEF SetError
  <1>6. CASE SetObserveCancelled(r)
    <2>1. CASE reply[r].finished
      BY <1>6, <2>1, SameFinished DEF SetObserveCancelled, TypeOK, Reply
    <2>2. CASE ~reply[r].finished
      BY <1>6, <2>2, EmitFinishedOnce DEF SetObserveCancelled
    <2> QED
      BY <2>1, <2>2
  <1>7. CASE ClientFinished(r)
    BY <1>7, SameFinished DEF ClientFinished, TypeOK, Signals
  <1>8. CASE \E s \in ReplySlots : DropEvent(s, r)
    BY <1>8, SameFinished DEF DropEvent
  <1> QED
    BY <1>1, <1>2, <1>3, <1>4, <1>5, <1>6, <1>7, <1>8

\* However abort, delete, cancel, timeout and response race, finished() is emitted exactly
\* once for a reply that is finished, and never for one that is not.
THEOREM FinishedExactlyOnce == Spec => []FinishedOnce
  <1>1. Init => FinishedOnce
    BY DEF Init, FinishedOnce
  <1>2. TypeOK /\ FinishedOnce /\ [Next]_vars => FinishedOnce'
    <2> SUFFICES ASSUME TypeOK, FinishedOnce, [Next]_vars PROVE FinishedOnce'
      OBVIOUS
    <2>1. ASSUME NEW r \in Replies, Send(r) PROVE FinishedOnce'
      BY <2>1, SameFinished DEF Send, TypeOK, Reply
    <2>2. ASSUME NEW r \in Replies, Abort(r) \/ Delete(r) PROVE FinishedOnce'
      BY <2>2, AbortReplyOnce DEF Abort, Delete
    <2>3. ASSUME NEW r \in Replies, StartRequest(r) PROVE FinishedOnce'
      BY <2>3, SameFinished DEF StartRequest, TypeOK, Reply
    <2>4. CASE UNCHANGED <<reply, signals>>
      BY <2>4, SameFinished
    <2>5. CASE RunSlot
      BY <2>5, RunSlotOnce
    <2>6. CASE UserOperation
      BY <2>1, <2>2, <2>4, <2>6 DEF UserOperation, CancelObserve, CancelObserveUrl
    <2>7. CASE HandleEvent
      BY <2>3, <2>4, <2>7 DEF HandleEvent, SkipRequest, OnCancelObserve, RelayFinished,
         OnRequestAborted, OnCancelObserveUrl
    <2>8. CASE ReadFrame
      BY <2>4, <2>8 DEF ReadFrame, OnFrameReceived, ReceiveError, ReceiveBlock,
         ReceiveUnwanted, ReceiveEmptyAck, ReceiveResponse
    <2>9. CASE \E t \in Tokens : OnRequestTimeout(t) \/ FireTimer(t)
      BY <2>4, <2>9 DEF OnRequestTimeout, FireTimer, OnRequestMaxTransmissionSpanReached,
         OnMulticastRequestExpired, OnRequestError
    <2>10. CASE UNCHANGED vars
      BY <2>4, <2>10 DEF vars
    <2> QED
      BY <2>5, <2>6, <2>7, <2>8, <2>9, <2>10 DEF Next
  <1> QED
    BY <1>1, <1>2, TypeCorrect, PTL DEF Spec
=============================================================================
