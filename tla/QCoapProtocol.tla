--------------------------- MODULE QCoapProtocol ---------------------------
(***************************************************************************)
(* The client side of a CoAP exchange, as it is split over two threads.    *)
(*                                                                         *)
(* The user thread owns the QCoapReply objects; the worker thread owns     *)
(* QCoapProtocol with its map of exchanges, the retransmission timers and  *)
(* the socket.  The two only talk through posted events, so each thread    *)
(* has a FIFO queue here; frames from the server and timers interleave     *)
(* with the worker's posted events in any order.                           *)
(*                                                                         *)
(* The network is the set of request frames ever put on the wire: a frame  *)
(* that answers one of them may arrive at any time, any number of times,   *)
(* or never, which is loss, duplication, delay and reordering at once.     *)
(* A handler of a thread is one step: the race of the user thread with a   *)
(* handler that is half done is not modelled.                              *)
(***************************************************************************)
EXTENDS Naturals, Sequences, FiniteSets, SequencesExt

CONSTANTS
    Replies,        \* the QCoapReply objects the user may create
    Tokens,         \* the non-empty tokens
    EmptyToken,     \* the token of an empty message or of a request not sent yet
    MessageIds,     \* the message ids but 0, which is reserved
    Hosts,          \* the unicast servers; a URL is identified with its host
    Group,          \* the multicast group
    UserTokens,     \* the tokens a user may give to a request, EmptyToken for none
    Targets,        \* the URLs the user sends to
    Confirmables,   \* {TRUE} when the user only sends confirmable requests
    Observes,       \* {FALSE} when the user does not observe
    ServerIds,      \* the message ids a server gives to its own messages
    Codes,          \* the classes of response codes a server uses
    Nexts,          \* the block steps a response may call for
    MaxRetransmit,  \* maximumRetransmitCount
    ReuseTokens,    \* whether the token generator may return a token used before
    MaxQueue,       \* bound on the contents of notifications and multicast responses on the way
    MaxCancels,     \* bound on the cancellations on the way
    NoExchange      \* the value of a token without exchange

VARIABLES
    reply,          \* QCoapReplyPrivate of every reply
    signals,        \* history: the signals emitted for every reply, and why it finished
    userQueue,      \* events posted to the user thread
    protocolQueue,  \* events posted to the worker thread
    exchangeMap,    \* QCoapProtocolPrivate::exchangeMap
    wire,           \* history: the requests put on the wire
    asked,          \* the last frame that was accepted, when it is confirmable
    answers,        \* the ACK or RST sent for the last frame that was accepted
    halted          \* an assertion of the code failed: the program stopped

vars == <<reply, signals, userQueue, protocolQueue, exchangeMap, wire, asked, answers, halted>>

Reply == [stage : {"none", "alive", "deleted"}, host : Hosts \cup {Group},
          con : BOOLEAN, observe : BOOLEAN, token : Tokens \cup {EmptyToken},
          connected : BOOLEAN, running : BOOLEAN, finished : BOOLEAN, aborted : BOOLEAN,
          error : {"Ok", "TimeOut", "Error"},
          code : {"Invalid", "Empty", "Content", "Error"}]

Exchange == [reply : Replies, mid : MessageIds, observe : BOOLEAN, cancelled : BOOLEAN,
             inProgress : BOOLEAN, counter : 0..MaxRetransmit]

Signals == [finished : Nat, client : Nat, cause : {"none", "completed", "withdrawn"}]

ReplySlots == {"_q_setRunning", "_q_setContent", "_q_setNotified", "_q_setFinished",
               "_q_setError", "_q_setObserveCancelled"}

UserEvent ==
    [slot : {"_q_setRunning"}, reply : Replies, arg : Tokens]
    \cup [slot : {"_q_setContent"}, reply : Replies, arg : {"Empty", "Content", "Error"}]
    \cup [slot : {"_q_setNotified", "_q_setFinished", "_q_setError",
                  "_q_setObserveCancelled", "clientFinished"}, reply : Replies, arg : {"-"}]

ProtocolEvent ==
    [op : {"sendRequest", "cancelObserve", "finished"}, arg : Replies]
    \cup [op : {"aborted"}, arg : Tokens \cup {EmptyToken}]
    \cup [op : {"cancelObserveUrl"}, arg : Hosts \cup {Group}]

Request == [tok : Tokens, mid : MessageIds, con : BOOLEAN, host : Hosts \cup {Group}]
Frame == [tok : Tokens \cup {EmptyToken}, mid : MessageIds, type : {"CON", "NON", "ACK", "RST"},
          code : {"Empty", "Content", "Error"}, next : {"none", "send", "receive"}, from : Hosts]
Question == [mid : MessageIds, code : {"Empty", "Content", "Error"}]
Answer == [type : {"ACK", "RST"}, mid : MessageIds, host : Hosts \cup {Group}]

ASSUME TokenAssumption == EmptyToken \notin Tokens /\ UserTokens \subseteq Tokens \cup {EmptyToken}
ASSUME HostAssumption == Group \notin Hosts /\ Targets \subseteq Hosts \cup {Group}
ASSUME ServerAssumption == /\ ServerIds \subseteq MessageIds
                           /\ Codes \subseteq {"Content", "Error"}
                           /\ Nexts \subseteq {"none", "send", "receive"}
ASSUME ReplyAssumption == IsFiniteSet(Replies)
ASSUME BoundAssumption == MaxRetransmit \in Nat /\ MaxQueue \in Nat /\ MaxCancels \in Nat
ASSUME FlagAssumption == Observes \cup Confirmables \subseteq BOOLEAN /\ ReuseTokens \in BOOLEAN
ASSUME ExchangeAssumption == NoExchange \notin Exchange

TypeOK ==
    /\ reply \in [Replies -> Reply]
    /\ signals \in [Replies -> Signals]
    /\ userQueue \in Seq(UserEvent)
    /\ protocolQueue \in Seq(ProtocolEvent)
    /\ exchangeMap \in [Tokens -> Exchange \cup {NoExchange}]
    /\ wire \subseteq Request
    /\ asked \subseteq Question
    /\ answers \subseteq Answer
    /\ halted \in BOOLEAN

Init ==
    /\ reply = [r \in Replies |->
                  [stage |-> "none", host |-> Group, con |-> FALSE, observe |-> FALSE,
                   token |-> EmptyToken, connected |-> FALSE, running |-> FALSE,
                   finished |-> FALSE, aborted |-> FALSE, error |-> "Ok", code |-> "Invalid"]]
    /\ signals = [r \in Replies |-> [finished |-> 0, client |-> 0, cause |-> "none"]]
    /\ userQueue = <<>>
    /\ protocolQueue = <<>>
    /\ exchangeMap = [t \in Tokens |-> NoExchange]
    /\ wire = {}
    /\ asked = {}
    /\ answers = {}
    /\ halted = FALSE

Alive(r) == reply[r].stage = "alive"
Registered(t) == exchangeMap[t] # NoExchange
HasExchange(r) == \E t \in Tokens : Registered(t) /\ exchangeMap[t].reply = r
IsMulticast(t) == reply[exchangeMap[t].reply].host = Group

(***************************************************************************)
(* The user thread: the operations of QCoapClient and QCoapReply.          *)
(***************************************************************************)

\* get, post, observe...: a new reply, and the request posted to the protocol.
\* A multicast request that is confirmable is refused before anything is posted.
Send(r) ==
    /\ ~halted /\ reply[r].stage = "none"
    /\ \E h \in Targets, c \in Confirmables, o \in Observes, t \in UserTokens :
          /\ ~ (h = Group /\ c)
          /\ reply' = [reply EXCEPT ![r] = [@ EXCEPT !.stage = "alive", !.host = h, !.con = c,
                                                      !.observe = o, !.token = t]]
    /\ protocolQueue' = Append(protocolQueue, [op |-> "sendRequest", arg |-> r])
    /\ UNCHANGED <<signals, userQueue, exchangeMap, wire, asked, answers, halted>>

\* The events an emission of finished() posts, once the worker is connected to it.
FinishedEvents(r) ==
    IF reply[r].connected THEN <<[op |-> "finished", arg |-> r]>> ELSE <<>>

\* Fault: abortRequest() does not ask whether the reply is finished.
FaultyAbortEvents(r) ==
    IF ~reply[r].connected THEN <<>>
    ELSE <<[op |-> "aborted", arg |-> reply[r].token], [op |-> "finished", arg |-> r]>>

\* abortRequest(): aborted(token) and finished(), through the connections made so far.
AbortEvents(r) ==
    IF reply[r].finished \/ ~reply[r].connected THEN <<>>
    ELSE <<[op |-> "aborted", arg |-> reply[r].token], [op |-> "finished", arg |-> r]>>

\* The signals with one more finished() of r: its request completed, or the user withdrew.
Finished(r, cause) == [signals EXCEPT ![r].finished = @ + 1, ![r].cause = cause]

AbortReply(r, stage) ==
    /\ reply' = [reply EXCEPT ![r] =
                    [@ EXCEPT !.stage = stage, !.aborted = reply[r].aborted \/ ~reply[r].finished,
                              !.finished = TRUE, !.running = FALSE]]
    /\ IF reply[r].finished THEN UNCHANGED signals
                            ELSE signals' = Finished(r, "withdrawn")
    /\ protocolQueue' = protocolQueue \o AbortEvents(r)

Abort(r) ==
    /\ ~halted /\ Alive(r) /\ ~reply[r].finished
    /\ AbortReply(r, "alive")
    /\ UNCHANGED <<userQueue, exchangeMap, wire, asked, answers, halted>>

\* ~QCoapReply(): the events posted to a deleted reply are dropped when their turn comes.
Delete(r) ==
    /\ ~halted /\ Alive(r)
    /\ AbortReply(r, "deleted")
    /\ UNCHANGED <<userQueue, exchangeMap, wire, asked, answers, halted>>

\* The cancellations on the way: requested and not handled, or handled and not seen by the reply.
Cancels == Len(SelectSeq(protocolQueue, LAMBDA e : e.op \in {"cancelObserve", "cancelObserveUrl"}))
           + Len(SelectSeq(userQueue, LAMBDA e : e.slot = "_q_setObserveCancelled"))

\* The client asks neither whether the reply observes nor how far its request is.
CancelObserve(r) ==
    /\ ~halted /\ Alive(r)
    /\ Cancels < MaxCancels
    /\ protocolQueue' = Append(protocolQueue, [op |-> "cancelObserve", arg |-> r])
    /\ UNCHANGED <<reply, signals, userQueue, exchangeMap, wire, asked, answers, halted>>

CancelObserveUrl(h) ==
    /\ ~halted /\ Cancels < MaxCancels
    /\ protocolQueue' = Append(protocolQueue, [op |-> "cancelObserveUrl", arg |-> h])
    /\ UNCHANGED <<reply, signals, userQueue, exchangeMap, wire, asked, answers, halted>>

(***************************************************************************)
(* The user thread: the slots that the worker's posted events run.         *)
(***************************************************************************)

\* The user thread takes its next event, meant for slot s of reply r.
NextSlot(s, r) ==
    /\ ~halted /\ userQueue # <<>>
    /\ Head(userQueue).slot = s /\ Head(userQueue).reply = r
    /\ userQueue' = Tail(userQueue)
    /\ UNCHANGED <<exchangeMap, wire, asked, answers, halted>>

EmitFinished(r, cause) ==
    /\ reply' = [reply EXCEPT ![r] = [@ EXCEPT !.finished = TRUE, !.running = FALSE]]
    /\ signals' = Finished(r, cause)
    /\ protocolQueue' = protocolQueue \o FinishedEvents(r)

DropEvent(s, r) ==
    /\ ~Alive(r)
    /\ NextSlot(s, r)
    /\ UNCHANGED <<reply, signals, protocolQueue>>

SetRunning(r) ==
    /\ Alive(r)
    /\ NextSlot("_q_setRunning", r)
    /\ reply' = [reply EXCEPT ![r] = [@ EXCEPT !.token = Head(userQueue).arg, !.running = TRUE]]
    /\ UNCHANGED <<signals, protocolQueue>>

SetObserveCancelled(r) ==
    /\ Alive(r)
    /\ NextSlot("_q_setObserveCancelled", r)
    /\ IF reply[r].finished THEN /\ reply' = [reply EXCEPT ![r].running = FALSE]
                                 /\ UNCHANGED <<signals, protocolQueue>>
                            ELSE EmitFinished(r, "withdrawn")

\* The response code of an error response also becomes the reply's error, with a signal.
SetContent(r) ==
    /\ Alive(r)
    /\ NextSlot("_q_setContent", r)
    /\ LET code == Head(userQueue).arg
           error == IF code = "Error" THEN "Error" ELSE reply[r].error
       IN reply' = IF reply[r].finished THEN reply
                   ELSE [reply EXCEPT ![r] = [@ EXCEPT !.code = code, !.error = error]]
    /\ UNCHANGED <<signals, protocolQueue>>

\* notified(), unless the reply is finished.
SetNotified(r) ==
    /\ Alive(r)
    /\ NextSlot("_q_setNotified", r)
    /\ UNCHANGED <<reply, signals, protocolQueue>>

\* Fault: finished() although the reply is finished.
FaultySetFinished(r) == Alive(r) /\ NextSlot("_q_setFinished", r) /\ EmitFinished(r, "completed")

SetFinished(r) ==
    /\ Alive(r)
    /\ NextSlot("_q_setFinished", r)
    /\ IF reply[r].finished THEN UNCHANGED <<reply, signals, protocolQueue>>
                            ELSE EmitFinished(r, "completed")

\* Unlike the other slots, _q_setError does not ask whether the reply is finished.
SetError(r) ==
    /\ Alive(r)
    /\ NextSlot("_q_setError", r)
    /\ reply' = [reply EXCEPT ![r].error = "TimeOut"]
    /\ UNCHANGED <<signals, protocolQueue>>

\* QCoapClient::finished, relayed by the protocol from the worker thread.
ClientFinished(r) ==
    /\ NextSlot("clientFinished", r)
    /\ signals' = [signals EXCEPT ![r].client = @ + 1]
    /\ UNCHANGED <<reply, protocolQueue>>

(***************************************************************************)
(* The worker thread: the posted events it handles.                        *)
(***************************************************************************)

\* The worker takes its next posted event, operation op on argument a.
NextEvent(op, a) ==
    /\ ~halted /\ protocolQueue # <<>>
    /\ Head(protocolQueue) = [op |-> op, arg |-> a]
    /\ protocolQueue' = Tail(protocolQueue)

Event(slot, r, a) == [slot |-> slot, reply |-> r, arg |-> a]

\* Events for a reply that was deleted meanwhile are not posted: its QPointer is null.
Post(r, events) == userQueue' = userQueue \o (IF Alive(r) THEN events ELSE <<>>)

\* Faults: ids and tokens are not compared with those in use.
FaultyFreeIds == MessageIds
FaultyFreeTokens == Tokens

FreeIds == {m \in MessageIds : \A t \in Tokens : Registered(t) => exchangeMap[t].mid # m}

FreeTokens == {t \in Tokens : ~Registered(t) /\ (ReuseTokens \/ \A q \in wire : q.tok # t)}

\* restartTransmission for a unicast request, startMulticastTransmission for the group.
\* Both timers of a unicast request run exactly while it is in progress; the flag of a
\* multicast request says that its expiry timer runs.
Restarted(e) ==
    IF e.inProgress /\ reply[e.reply].host # Group THEN [e EXCEPT !.counter = @ + 1]
                                                    ELSE [e EXCEPT !.inProgress = TRUE]

\* Fault: the expiry timer of a multicast request is stopped too.
FaultyStopped(e) == [e EXCEPT !.inProgress = FALSE, !.counter = 0]

Stopped(e) ==
    IF reply[e.reply].host = Group THEN e ELSE [e EXCEPT !.inProgress = FALSE, !.counter = 0]

\* The private sendRequest: exchange e of token t goes to host h.
Transmit(t, e, h) ==
    /\ exchangeMap' = [exchangeMap EXCEPT ![t] = Restarted(e)]
    /\ wire' = wire \cup {[tok |-> t, mid |-> e.mid, con |-> reply[e.reply].con, host |-> h]}

Forget(t) == exchangeMap' = [exchangeMap EXCEPT ![t] = NoExchange]

\* An exchange already registered under a token the user chose is replaced.
StartRequest(r) ==
    /\ NextEvent("sendRequest", r)
    /\ Alive(r)
    /\ reply' = [reply EXCEPT ![r].connected = TRUE]
    /\ \E m \in FreeIds, t \in IF reply[r].token = EmptyToken THEN FreeTokens ELSE {reply[r].token} :
          /\ Transmit(t, [reply |-> r, mid |-> m, observe |-> reply[r].observe, cancelled |-> FALSE,
                          inProgress |-> FALSE, counter |-> 0], reply[r].host)
          /\ Post(r, <<Event("_q_setRunning", r, t)>>)
    /\ UNCHANGED <<signals, asked, answers, halted>>

\* The reply was deleted before the worker came to its request.
SkipRequest(r) ==
    /\ NextEvent("sendRequest", r)
    /\ ~Alive(r)
    /\ UNCHANGED <<reply, signals, userQueue, exchangeMap, wire, asked, answers, halted>>

OnRequestAborted(t) ==
    /\ NextEvent("aborted", t)
    /\ IF t = EmptyToken THEN UNCHANGED exchangeMap ELSE Forget(t)
    /\ UNCHANGED <<reply, signals, userQueue, wire, asked, answers, halted>>

\* The exchange that cancelling r is about: the one under the token the reply knows.
Tracked(r) == reply[r].token # EmptyToken /\ Registered(reply[r].token)
Cancellable(r) == /\ exchangeMap[reply[r].token].observe
                  /\ ~exchangeMap[reply[r].token].cancelled

\* Fault: a reply is told only when its exchange is no longer tracked.
FaultyCancelAll(rs) ==
    /\ exchangeMap' = [t \in Tokens |->
           IF /\ Registered(t) /\ exchangeMap[t].observe
              /\ \E i \in DOMAIN rs : reply[rs[i]].token = t
           THEN [exchangeMap[t] EXCEPT !.cancelled = TRUE]
           ELSE exchangeMap[t]]
    /\ userQueue' = userQueue \o [i \in DOMAIN SelectSeq(rs, LAMBDA r : ~Tracked(r)) |->
                      Event("_q_setObserveCancelled", SelectSeq(rs, LAMBDA r : ~Tracked(r))[i], "-")]

\* Cancels the observations of the replies of a sequence, in this order.
CancelAll(rs) ==
    /\ exchangeMap' = [t \in Tokens |->
           IF /\ Registered(t) /\ exchangeMap[t].observe
              /\ \E i \in DOMAIN rs : reply[rs[i]].token = t
           THEN [exchangeMap[t] EXCEPT !.cancelled = TRUE]
           ELSE exchangeMap[t]]
    /\ userQueue' = userQueue \o [i \in DOMAIN rs |-> Event("_q_setObserveCancelled", rs[i], "-")]

OnCancelObserve(r) ==
    /\ NextEvent("cancelObserve", r)
    /\ IF Alive(r) /\ (Tracked(r) => Cancellable(r)) THEN CancelAll(<<r>>)
                                                    ELSE UNCHANGED <<exchangeMap, userQueue>>
    /\ UNCHANGED <<reply, signals, wire, asked, answers, halted>>

\* The loop over the map asserts that no reply is gone, whatever its URL, then asks its URL.
OnCancelObserveUrl(h) ==
    /\ NextEvent("cancelObserveUrl", h)
    /\ LET owners == {exchangeMap[t].reply : t \in {x \in Tokens : Registered(x)}}
           chosen == {r \in owners : reply[r].host = h /\ (Tracked(r) => Cancellable(r))}
       IN IF \A r \in owners : Alive(r)
          THEN /\ \E rs \in SetToSeqs(chosen) : CancelAll(rs)
               /\ UNCHANGED halted
          ELSE /\ halted' = TRUE
               /\ UNCHANGED <<exchangeMap, userQueue>>
    /\ UNCHANGED <<reply, signals, wire, asked, answers>>

\* Fault: the signal is not relayed for a reply that is gone.
FaultyRelayFinished(r) ==
    /\ NextEvent("finished", r)
    /\ Post(r, <<Event("clientFinished", r, "-")>>)
    /\ UNCHANGED <<reply, signals, exchangeMap, wire, asked, answers, halted>>

\* The signal of the reply is connected to the signal of the protocol, and that to the client's.
RelayFinished(r) ==
    /\ NextEvent("finished", r)
    /\ userQueue' = Append(userQueue, Event("clientFinished", r, "-"))
    /\ UNCHANGED <<reply, signals, exchangeMap, wire, asked, answers, halted>>

(***************************************************************************)
(* The worker thread: frames of the servers.                               *)
(***************************************************************************)

\* The frames that answer request q: a response piggybacked on the ACK, an empty ACK or
\* RST, or a response in a message of the server's own.  A group is answered by any host.
FramesFor(q) ==
    LET from == IF q.host = Group THEN Hosts ELSE {q.host}
        frames(toks, mids, types, codes, nexts) ==
            [tok : toks, mid : mids, type : types, code : codes, next : nexts, from : from]
    IN frames({q.tok}, {q.mid}, IF q.con THEN {"ACK"} ELSE {}, Codes, Nexts)
       \cup frames({q.tok}, ServerIds, {"CON", "NON"}, Codes, Nexts)
       \cup frames({EmptyToken}, {q.mid}, IF q.con THEN {"ACK", "RST"} ELSE {"RST"}, {"Empty"}, {"none"})

\* An error response announces no further block.
ServerFrames == {f \in UNION {FramesFor(q) : q \in wire} : f.code = "Error" => f.next = "none"}

\* The exchange of token t is the one that frame f is for, and f comes from its server.
\* All other frames are dropped.
Matches(f, t) ==
    /\ ~halted /\ Registered(t)
    /\ IF f.tok # EmptyToken /\ Registered(f.tok) THEN f.tok = t ELSE exchangeMap[t].mid = f.mid
    /\ IsMulticast(t) \/ f.from = reply[exchangeMap[t].reply].host

ErrorEvents(r) == <<Event("_q_setError", r, "-"), Event("_q_setFinished", r, "-")>>

\* The exchange when its frame has been accepted: transmission stopped, and the Observe
\* option removed when the observation was cancelled.
Accepted(t) ==
    LET e == Stopped(exchangeMap[t]) IN [e EXCEPT !.observe = @ /\ ~e.cancelled]

Asks(f) == IF f.type = "CON" THEN {[mid |-> f.mid, code |-> f.code]} ELSE {}

\* Fault: only the last block is acknowledged.
FaultyAnswersTo(f, t) ==
    IF f.type = "CON" /\ f.next = "none"
    THEN {[type |-> "ACK", mid |-> f.mid, host |-> reply[exchangeMap[t].reply].host]}
    ELSE {}

AnswersTo(f, t) ==
    LET type == CASE exchangeMap[t].cancelled -> {"RST"}
                  [] ~exchangeMap[t].cancelled /\ f.type = "CON" -> {"ACK"}
                  [] OTHER -> {}
    IN {[type |-> y, mid |-> f.mid, host |-> reply[exchangeMap[t].reply].host] : y \in type}

\* An error response ends the exchange; nothing acknowledges it.
ReceiveError(f, t) ==
    /\ Matches(f, t) /\ f.code = "Error"
    /\ LET r == exchangeMap[t].reply IN
       Post(r, <<Event("_q_setContent", r, "Error"), Event("_q_setFinished", r, "-")>>)
    /\ Forget(t)
    /\ answers' = {} /\ asked' = Asks(f)
    /\ UNCHANGED <<reply, signals, protocolQueue, wire, halted>>

\* The next block is sent or asked for under a new message id; a block of a multicast
\* response is asked for from its sender.
ReceiveBlock(f, t) ==
    /\ Matches(f, t) /\ f.code # "Error" /\ f.next # "none"
    /\ \E m \in FreeIds :
          Transmit(t, [Accepted(t) EXCEPT !.mid = m],
                   IF f.next = "receive" THEN f.from ELSE reply[exchangeMap[t].reply].host)
    /\ answers' = AnswersTo(f, t) /\ asked' = Asks(f)
    /\ UNCHANGED <<reply, signals, userQueue, protocolQueue, halted>>

\* onLastMessageReceived when the reply is gone, or the observation still asked to stop.
Unwanted(t) == \/ ~Alive(exchangeMap[t].reply)
               \/ Accepted(t).observe /\ exchangeMap[t].cancelled

ReceiveUnwanted(f, t) ==
    /\ Matches(f, t) /\ f.code # "Error" /\ f.next = "none" /\ Unwanted(t)
    /\ Forget(t)
    /\ answers' = AnswersTo(f, t) /\ asked' = Asks(f)
    /\ UNCHANGED <<reply, signals, userQueue, protocolQueue, wire, halted>>

\* An empty ACK is ignored, but the timers of the request have been stopped.
ReceiveEmptyAck(f, t) ==
    /\ Matches(f, t) /\ f.type = "ACK" /\ f.code = "Empty" /\ ~Unwanted(t)
    /\ exchangeMap' = [exchangeMap EXCEPT ![t] = Accepted(t)]
    /\ answers' = AnswersTo(f, t) /\ asked' = Asks(f)
    /\ UNCHANGED <<reply, signals, userQueue, protocolQueue, wire, halted>>

\* The response is complete: a notification, one of several multicast responses, or the end.
ReceiveResponse(f, t) ==
    /\ Matches(f, t) /\ f.code # "Error" /\ f.next = "none" /\ ~Unwanted(t)
    /\ ~ (f.type = "ACK" /\ f.code = "Empty")
    /\ LET r == exchangeMap[t].reply
           last == IF Accepted(t).observe THEN <<Event("_q_setNotified", r, "-")>>
                   ELSE IF IsMulticast(t) THEN <<>>
                   ELSE <<Event("_q_setFinished", r, "-")>>
       IN /\ Post(r, <<Event("_q_setContent", r, f.code)>> \o last)
          /\ IF Accepted(t).observe \/ IsMulticast(t)
             THEN /\ Len(SelectSeq(userQueue, LAMBDA e : e.slot = "_q_setContent")) < MaxQueue
                  /\ exchangeMap' = [exchangeMap EXCEPT ![t] = Accepted(t)]
             ELSE Forget(t)
    /\ answers' = AnswersTo(f, t) /\ asked' = Asks(f)
    /\ UNCHANGED <<reply, signals, protocolQueue, wire, halted>>

OnFrameReceived(f, t) ==
    \/ ReceiveError(f, t)
    \/ ReceiveBlock(f, t)
    \/ ReceiveUnwanted(f, t)
    \/ ReceiveEmptyAck(f, t)
    \/ ReceiveResponse(f, t)

(***************************************************************************)
(* The worker thread: timers.  They may fire whenever they run.            *)
(***************************************************************************)

\* Fault: the exchange of a failed request stays registered.
FaultyOnRequestError(t) ==
    /\ Post(exchangeMap[t].reply, ErrorEvents(exchangeMap[t].reply))
    /\ exchangeMap' = [exchangeMap EXCEPT ![t] = Stopped(@)]
    /\ UNCHANGED <<reply, signals, protocolQueue, wire, asked, answers, halted>>

OnRequestError(t) ==
    /\ Post(exchangeMap[t].reply, ErrorEvents(exchangeMap[t].reply))
    /\ Forget(t)
    /\ UNCHANGED <<reply, signals, protocolQueue, wire, asked, answers, halted>>

\* Fault: maximumRetransmitCount is not asked.
FaultyCanRetransmit(t) == reply[exchangeMap[t].reply].con

CanRetransmit(t) == /\ reply[exchangeMap[t].reply].con
                    /\ exchangeMap[t].counter < MaxRetransmit

OnRequestTimeout(t) ==
    /\ ~halted /\ Registered(t) /\ ~IsMulticast(t) /\ exchangeMap[t].inProgress
    /\ IF CanRetransmit(t)
       THEN /\ Transmit(t, exchangeMap[t], reply[exchangeMap[t].reply].host)
            /\ UNCHANGED <<reply, signals, userQueue, protocolQueue, asked, answers, halted>>
       ELSE OnRequestError(t)

OnRequestMaxTransmissionSpanReached(t) ==
    /\ ~halted /\ Registered(t) /\ ~IsMulticast(t) /\ exchangeMap[t].inProgress
    /\ OnRequestError(t)

OnMulticastRequestExpired(t) ==
    /\ ~halted /\ Registered(t) /\ IsMulticast(t) /\ exchangeMap[t].inProgress
    /\ LET r == exchangeMap[t].reply IN Post(r, <<Event("_q_setFinished", r, "-")>>)
    /\ Forget(t)
    /\ UNCHANGED <<reply, signals, protocolQueue, wire, asked, answers, halted>>

(***************************************************************************)
(* The program.                                                            *)
(***************************************************************************)

UserOperation ==
    \/ \E r \in Replies : Send(r) \/ Abort(r) \/ Delete(r) \/ CancelObserve(r)
    \/ \E h \in Targets : CancelObserveUrl(h)

RunSlot ==
    \E r \in Replies :
       \/ SetRunning(r) \/ SetContent(r) \/ SetNotified(r) \/ SetFinished(r)
       \/ SetError(r) \/ SetObserveCancelled(r) \/ ClientFinished(r)
       \/ \E s \in ReplySlots : DropEvent(s, r)

HandleEvent ==
    \/ \E r \in Replies : \/ StartRequest(r) \/ SkipRequest(r)
                          \/ OnCancelObserve(r) \/ RelayFinished(r)
    \/ \E t \in Tokens \cup {EmptyToken} : OnRequestAborted(t)
    \/ \E h \in Hosts \cup {Group} : OnCancelObserveUrl(h)

ReadFrame == \E f \in ServerFrames, t \in Tokens : OnFrameReceived(f, t)

FireTimer(t) == OnRequestMaxTransmissionSpanReached(t) \/ OnMulticastRequestExpired(t)

Next ==
    \/ UserOperation \/ RunSlot \/ HandleEvent \/ ReadFrame
    \/ \E t \in Tokens : OnRequestTimeout(t) \/ FireTimer(t)

Spec == Init /\ [][Next]_vars

\* A block takes a new message id, and its handler starts the timers of the exchange anew.
RestartTimers(t) ==
    /\ ~halted /\ Registered(t) /\ exchangeMap[t].inProgress
    /\ Registered(t)' /\ exchangeMap'[t].mid # exchangeMap[t].mid

\* Both event loops keep running, and a timer that runs fires unless it is stopped or a block
\* puts it off.  Nothing is assumed of the user, the network or the servers.
FairSpec == /\ Spec
            /\ WF_vars(RunSlot)
            /\ WF_vars(HandleEvent)
            /\ \A t \in Tokens : WF_vars(FireTimer(t) \/ RestartTimers(t))

(***************************************************************************)
(* Properties.                                                             *)
(***************************************************************************)

\* generateUniqueMessageId and the renumbering of blocks: no two registered exchanges
\* have the same message id, so findRequestByMessageId finds the only candidate.
UniqueMessageIds ==
    \A s, t \in Tokens :
       Registered(s) /\ Registered(t) /\ exchangeMap[s].mid = exchangeMap[t].mid => s = t

\* However abort, delete, cancel, timeout and response race, finished() is emitted once.
FinishedOnce ==
    \A r \in Replies : signals[r].finished = IF reply[r].finished THEN 1 ELSE 0

Posted(slots, r) ==
    \E i \in DOMAIN userQueue : userQueue[i].slot \in slots /\ userQueue[i].reply = r

\* Once the protocol has posted the end of a reply it has forgotten its exchange: nothing
\* it receives afterwards reaches the reply.
EndIsForgotten ==
    \A r \in Replies : Posted({"_q_setFinished"}, r) => ~HasExchange(r)

\* A running reply that is not finished still has its exchange, or its end is on the way:
\* no reply is left waiting for an exchange that somebody else removed.
NoOrphanReply ==
    \A r \in Replies :
       Alive(r) /\ reply[r].running /\ ~reply[r].finished =>
          \/ Registered(reply[r].token) /\ exchangeMap[reply[r].token].reply = r
          \/ Posted({"_q_setFinished"}, r)

\* The reply is told of its cancellation behind the i-th event on the way.
ToldAfter(r, i) == \E k \in DOMAIN userQueue :
    k > i /\ userQueue[k].slot = "_q_setObserveCancelled" /\ userQueue[k].reply = r

\* The worker marks the exchange of a cancelled observation and tells the reply in the same
\* step: until the reply has handled that, it can only be notified of what was posted before.
CancelledIsTold ==
    \A t \in Tokens :
       Registered(t) /\ exchangeMap[t].cancelled =>
          LET r == exchangeMap[t].reply IN
          Alive(r) /\ ~reply[r].finished =>
             /\ ToldAfter(r, 0)
             /\ \A i \in DOMAIN userQueue :
                   userQueue[i].slot = "_q_setNotified" /\ userQueue[i].reply = r => ToldAfter(r, i)

\* QCoapClient::finished() is emitted along with QCoapReply::finished(), so never more often.
ClientFollowsReply == \A r \in Replies : signals[r].client <= signals[r].finished

\* A reply that completes also finishes for the client, even if the user deletes it at once: its
\* finished() was relayed, or the relay is on its way through one of the two queues.
ClientIsTold ==
    \A r \in Replies :
       signals[r].cause = "completed" /\ signals[r].client = 0 =>
          \/ Posted({"clientFinished"}, r)
          \/ \E i \in DOMAIN protocolQueue : protocolQueue[i] = [op |-> "finished", arg |-> r]

Answered(q) == \E a \in answers : a.mid = q.mid

\* A confirmable response that the exchange accepts is answered with ACK or RST, unless it
\* reports an error.
ConfirmableAnswered == \A q \in asked : q.code # "Error" => Answered(q)

\* What a request is to its user: CoapRequestLifecycle.
Phase(r) ==
    CASE reply[r].stage = "none" -> "new"
      [] \E i \in DOMAIN protocolQueue : protocolQueue[i] = [op |-> "sendRequest", arg |-> r] -> "posted"
      [] HasExchange(r) -> "tracked"
      [] OTHER -> "over"

\* An empty ACK has stopped the timers of a confirmable request, whose separate response is
\* still to come.
Acknowledged(r) ==
    /\ reply[r].con
    /\ \E t \in Tokens : Registered(t) /\ exchangeMap[t].reply = r /\ ~exchangeMap[t].inProgress

\* The exchange of r takes no new message id: no further block is sent or asked for.
NoFurtherBlock(r) ==
    \A t \in Tokens :
       Registered(t) /\ exchangeMap[t].reply = r /\ Registered(t)' => exchangeMap'[t].mid = exchangeMap[t].mid

\* A request that does not observe and whose blocks come to an end ends itself: its reply is
\* finished and its exchange forgotten, whoever aborts, cancels or deletes it meanwhile.  It is
\* left waiting only when it was acknowledged and its separate response never comes.
RequestsEnd ==
    \A r \in Replies :
       <>[][NoFurtherBlock(r)]_vars =>
          (Alive(r) /\ ~reply[r].observe
             ~> (reply[r].finished /\ Phase(r) = "over") \/ Acknowledged(r) \/ halted)

Lifecycle == INSTANCE CoapRequestLifecycle WITH
    Requests <- Replies,
    phase <- [r \in Replies |-> Phase(r)],
    outcome <- [r \in Replies |-> signals[r].cause]

\* Every step of the two threads is a step of the lifecycle or leaves it alone.
ImplementsLifecycle == Lifecycle!Spec

(***************************************************************************)
(* What documentation and assertions say, and the code does not do.        *)
(***************************************************************************)

\* qcoapinternalrequest.cpp: "If the request is not finished at the end of the transmission
\* span, the request will timeout."
RequestsTimeOut ==
    \A r \in Replies : Alive(r) /\ ~reply[r].observe ~> reply[r].finished

CancelledByUser(r) == reply[r].finished /\ ~reply[r].aborted /\ signals[r].cause = "withdrawn"

\* "A Reset (RST) message will be sent at the reception of the next message": of an observation
\* that the reply has seen cancelled.
ResetAfterCancellation ==
    [][\A t \in Tokens :
          /\ Registered(t) /\ exchangeMap[t].observe /\ CancelledByUser(exchangeMap[t].reply)
          /\ \E f \in ServerFrames : f.code # "Error" /\ OnFrameReceived(f, t)
          => \E a \in answers' : a.type = "RST"]_vars

\* qcoapprotocol.cpp: Q_ASSERT(exchange.userReply) in cancelObserve(url).
NoAssertionFails == ~halted
=============================================================================
