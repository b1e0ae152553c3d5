--------------------- MODULE QCoapProtocolEvents_proofs ---------------------
(***************************************************************************)
(* Theorems of QCoapProtocol about the events that are on the way between  *)
(* the two threads, for every number of replies, tokens, ids and hosts and *)
(* queues of any length: which event may be waiting, and how often, when   *)
(* an exchange is registered or a reply finished.                          *)
(***************************************************************************)
EXTENDS QCoapProtocol_proofs, SequenceTheorems

(***************************************************************************)
(* Events in a queue.                                                      *)
(***************************************************************************)

Holds(q, e) == \E i \in DOMAIN q : q[i] = e
AtMostOnce(q, e) == \A i, j \in DOMAIN q : q[i] = e /\ q[j] = e => i = j

\* What is added to a queue goes behind what is there.
LEMMA AddedEvents ==
    ASSUME NEW S, NEW q \in Seq(S), NEW s \in Seq(S), NEW e
    PROVE  /\ Holds(q \o s, e) => Holds(q, e) \/ Holds(s, e)
           /\ AtMostOnce(q, e) /\ ~Holds(s, e) => AtMostOnce(q \o s, e)
           /\ ~Holds(q, e) /\ AtMostOnce(s, e) => AtMostOnce(q \o s, e)
  <1> DEFINE w == q \o s
  <1>1. /\ w \in Seq(S) /\ Len(w) = Len(q) + Len(s)
        /\ \A i \in 1..(Len(q) + Len(s)) : w[i] = IF i <= Len(q) THEN q[i] ELSE s[i - Len(q)]
    BY ConcatProperties
  <1> HIDE DEF w
  <1>2. Len(q) \in Nat /\ Len(s) \in Nat /\ DOMAIN q = 1..Len(q) /\ DOMAIN s = 1..Len(s)
        /\ DOMAIN w = 1..(Len(q) + Len(s))
    BY <1>1
  <1>3. ASSUME NEW i \in DOMAIN w
        PROVE  \/ i \in DOMAIN q /\ w[i] = q[i]
               \/ i - Len(q) \in DOMAIN s /\ w[i] = s[i - Len(q)]
    BY <1>1, <1>2
  <1>4. Holds(w, e) => Holds(q, e) \/ Holds(s, e)
    BY <1>3 DEF Holds
  <1>5. AtMostOnce(q, e) /\ ~Holds(s, e) => AtMostOnce(w, e)
    BY <1>3 DEF Holds, AtMostOnce
  <1>6. ASSUME ~Holds(q, e), AtMostOnce(s, e) PROVE AtMostOnce(w, e)
    <2> SUFFICES ASSUME NEW i \in DOMAIN w, NEW j \in DOMAIN w, w[i] = e, w[j] = e PROVE i = j
      BY DEF AtMostOnce
    <2>1. i - Len(q) \in DOMAIN s /\ s[i - Len(q)] = e /\ j - Len(q) \in DOMAIN s /\ s[j - Len(q)] = e
      BY <1>3, <1>6 DEF Holds
    <2>2. i - Len(q) = j - Len(q)
      BY <1>6, <2>1 DEF AtMostOnce
    <2> QED
      BY <1>2, <2>2
  <1> QED
    BY <1>4, <1>5, <1>6 DEF w

\* The first event is taken from a queue.
LEMMA TakenEvents ==
    ASSUME NEW S, NEW q \in Seq(S), q # <<>>, NEW e
    PROVE  /\ Holds(Tail(q), e) => Holds(q, e)
           /\ AtMostOnce(q, e) => AtMostOnce(Tail(q), e)
           /\ Holds(q, Head(q))
           /\ AtMostOnce(q, Head(q)) => ~Holds(Tail(q), Head(q))
  <1> DEFINE w == Tail(q)
  <1>1. /\ Head(q) = q[1] /\ 1 \in DOMAIN q
        /\ \A i \in DOMAIN w : i \in Nat \ {0} /\ i + 1 \in DOMAIN q /\ w[i] = q[i + 1]
    OBVIOUS
  <1> HIDE DEF w
  <1>2. Holds(w, e) => Holds(q, e)
    BY <1>1 DEF Holds
  <1>3. ASSUME AtMostOnce(q, e) PROVE AtMostOnce(w, e)
    <2> SUFFICES ASSUME NEW i \in DOMAIN w, NEW j \in DOMAIN w, w[i] = e, w[j] = e PROVE i = j
      BY DEF AtMostOnce
    <2>1. i + 1 = j + 1
      BY <1>1, <1>3 DEF AtMostOnce
    <2> QED
      BY <1>1, <2>1
  <1>4. Holds(q, Head(q))
    BY <1>1 DEF Holds
  <1>5. ASSUME AtMostOnce(q, Head(q)), Holds(w, Head(q)) PROVE FALSE
    <2>1. PICK i \in DOMAIN w : w[i] = Head(q)
      BY <1>5 DEF Holds
    <2>2. i + 1 = 1
      BY <1>1, <1>5, <2>1 DEF AtMostOnce
    <2> QED
      BY <1>1, <2>2
  <1> QED
    BY <1>2, <1>3, <1>4, <1>5 DEF w

\* What is in a queue stays there when more is added; only its first event can be taken.
LEMMA StaysInQueue ==
    ASSUME NEW S, NEW q \in Seq(S), NEW e
    PROVE  /\ \A s \in Seq(S) : Holds(q, e) => Holds(q \o s, e)
           /\ q # <<>> /\ Holds(q, e) => Holds(Tail(q), e) \/ e = Head(q)
  <1>1. ASSUME NEW s \in Seq(S), NEW i \in DOMAIN q, q[i] = e PROVE Holds(q \o s, e)
    <2>1. i \in DOMAIN (q \o s) /\ (q \o s)[i] = q[i]
      BY ConcatProperties
    <2> QED
      BY <1>1, <2>1 DEF Holds
  <1>2. ASSUME q # <<>>, NEW i \in DOMAIN q, q[i] = e, i # 1 PROVE Holds(Tail(q), e)
    <2>1. i - 1 \in DOMAIN Tail(q) /\ Tail(q)[i - 1] = q[i]
      BY <1>2
    <2> QED
      BY <1>2, <2>1 DEF Holds
  <1>3. \A s \in Seq(S) : Holds(q, e) => Holds(q \o s, e)
    BY <1>1 DEF Holds
  <1>4. ASSUME q # <<>>, Holds(q, e), e # Head(q) PROVE Holds(Tail(q), e)
    <2>1. PICK i \in DOMAIN q : q[i] = e
      BY <1>4 DEF Holds
    <2>2. i # 1
      BY <1>4, <2>1
    <2> QED
      BY <1>2, <1>4, <2>1, <2>2
  <1> QED
    BY <1>3, <1>4

(***************************************************************************)
(* Acknowledgements: one step suffices.                                    *)
(***************************************************************************)

LEMMA FrameAnswered ==
    ASSUME NEW f, NEW t
    PROVE  \A q \in Asks(f) : \E a \in AnswersTo(f, t) : a.mid = q.mid
  <1>1. CASE f.type = "CON"
    <2>1. Asks(f) = {[mid |-> f.mid, code |-> f.code]}
      BY <1>1 DEF Asks
    <2>2. CASE exchangeMap[t].cancelled
      <3>1. [type |-> "RST", mid |-> f.mid, host |-> reply[exchangeMap[t].reply].host] \in AnswersTo(f, t)
        BY <2>2 DEF AnswersTo
      <3> QED
        BY <2>1, <3>1
    <2>3. CASE ~exchangeMap[t].cancelled
      <3>1. [type |-> "ACK", mid |-> f.mid, host |-> reply[exchangeMap[t].reply].host] \in AnswersTo(f, t)
        BY <1>1, <2>3 DEF AnswersTo
      <3> QED
        BY <2>1, <3>1
    <2> QED
      BY <2>2, <2>3
  <1>2. CASE f.type # "CON"
    BY <1>2 DEF Asks
  <1> QED
    BY <1>1, <1>2

\* A confirmable response that an exchange accepts, in whatever branch of onFrameReceived but
\* that of an error, is answered: with a reset when the observation was cancelled, else an ACK.
THEOREM ConfirmablesAnswered == Spec => []ConfirmableAnswered
  <1>1. Init => ConfirmableAnswered
    BY DEF Init, ConfirmableAnswered
  <1>2. ConfirmableAnswered /\ [Next]_vars => ConfirmableAnswered'
    <2> SUFFICES ASSUME ConfirmableAnswered, [Next]_vars PROVE ConfirmableAnswered'
      OBVIOUS
    <2>1. CASE UNCHANGED <<asked, answers>>
      BY <2>1 DEF ConfirmableAnswered, Answered
    <2>2. ASSUME NEW f \in ServerFrames, NEW t \in Tokens, OnFrameReceived(f, t)
          PROVE  ConfirmableAnswered'
      <3>1. CASE ReceiveError(f, t)
        BY <3>1 DEF ReceiveError, Asks, ConfirmableAnswered
      <3>2. CASE ~ReceiveError(f, t)
        <4>1. asked' = Asks(f) /\ answers' = AnswersTo(f, t)
          BY <2>2, <3>2 DEF OnFrameReceived, ReceiveBlock, ReceiveUnwanted, ReceiveEmptyAck,
             ReceiveResponse
        <4> QED
          BY <4>1, FrameAnswered DEF ConfirmableAnswered, Answered
      <3> QED
        BY <3>1, <3>2
    <2>3. CASE UserOperation
      BY <2>1, <2>3 DEF UserOperation, Send, Abort, Delete, CancelObserve, CancelObserveUrl
    <2>4. CASE RunSlot
      BY <2>1, <2>4 DEF RunSlot, SetRunning, SetContent, SetNotified, SetFinished, SetError,
         SetObserveCancelled, ClientFinished, DropEvent, NextSlot
    <2>5. CASE HandleEvent
      BY <2>1, <2>5 DEF HandleEvent, StartRequest, SkipRequest, OnCancelObserve, RelayFinished,
         OnRequestAborted, OnCancelObserveUrl
    <2>6. CASE \E t \in Tokens : OnRequestTimeout(t) \/ FireTimer(t)
      BY <2>1, <2>6 DEF OnRequestTimeout, FireTimer, OnRequestMaxTransmissionSpanReached,
         OnMulticastRequestExpired, OnRequestError
    <2>7. CASE UNCHANGED vars
      BY <2>1, <2>7 DEF vars
    <2> QED
      BY <2>2, <2>3, <2>4, <2>5, <2>6, <2>7 DEF Next, ReadFrame
  <1> QED
    BY <1>1, <1>2, PTL DEF Spec

(***************************************************************************)
(* The end of an exchange.  The posted request of a reply, its exchange    *)
(* and its posted end exclude each other, and each is there at most once.  *)
(***************************************************************************)

Call(r) == [op |-> "sendRequest", arg |-> r]
End(r) == Event("_q_setFinished", r, "-")

\* Nothing that the worker does for r has begun.
Unbegun(r) == ~HasExchange(r) /\ ~Holds(userQueue, End(r))

SentOnce ==
    /\ \A r \in Replies : reply[r].stage = "none" => ~Holds(protocolQueue, Call(r)) /\ Unbegun(r)
    /\ \A r \in Replies : AtMostOnce(protocolQueue, Call(r))
    /\ \A r \in Replies : Holds(protocolQueue, Call(r)) => Unbegun(r)

OwnedOnce ==
    \A s, t \in Tokens :
       Registered(s) /\ Registered(t) /\ exchangeMap[s].reply = exchangeMap[t].reply => s = t

Ended == \A r \in Replies : Holds(userQueue, End(r)) => ~HasExchange(r)

OneEnd == SentOnce /\ OwnedOnce /\ Ended

\* What most steps leave as it is.
CallsKept == \A r \in Replies : /\ Holds(protocolQueue', Call(r)) => Holds(protocolQueue, Call(r))
                                /\ AtMostOnce(protocolQueue, Call(r)) => AtMostOnce(protocolQueue', Call(r))
OwnersKept == \A t \in Tokens :
                 Registered(t)' => Registered(t) /\ exchangeMap'[t].reply = exchangeMap[t].reply
EndsKept == \A r \in Replies : Holds(userQueue', End(r)) => Holds(userQueue, End(r))
StagesKept == \A r \in Replies : reply'[r].stage = "none" => reply[r].stage = "none"

LEMMA KeptOneEnd ==
    ASSUME OneEnd, CallsKept, OwnersKept, EndsKept, StagesKept PROVE OneEnd'
  <1>1. \A r \in Replies : HasExchange(r)' => HasExchange(r)
    BY DEF OwnersKept, HasExchange, Registered
  <1>2. \A r \in Replies : Unbegun(r) => Unbegun(r)'
    BY <1>1 DEF Unbegun, EndsKept
  <1>3. SentOnce'
    BY <1>2 DEF OneEnd, SentOnce, CallsKept, StagesKept
  <1>4. OwnedOnce'
    BY DEF OneEnd, OwnedOnce, OwnersKept, Registered
  <1>5. Ended'
    BY <1>1 DEF OneEnd, Ended, EndsKept
  <1> QED
    BY <1>3, <1>4, <1>5 DEF OneEnd

\* The end of reply r is posted when its only exchange is forgotten.
LEMMA ForgetOneEnd ==
    ASSUME TypeOK, OneEnd, NEW t \in Tokens, Registered(t), Forget(t), CallsKept, StagesKept,
           \A r \in Replies : Holds(userQueue', End(r)) =>
                                 Holds(userQueue, End(r)) \/ r = exchangeMap[t].reply
    PROVE  OneEnd'
  <1>0. exchangeMap[t].reply \in Replies
    BY RegisteredType DEF Exchange
  <1> PICK r \in Replies : r = exchangeMap[t].reply
    BY <1>0
  <1>1. HasExchange(r)
    BY DEF HasExchange
  <1>2. exchangeMap'[t] = NoExchange /\ \A s \in Tokens \ {t} : exchangeMap'[s] = exchangeMap[s]
    BY DEF Forget, TypeOK
  <1>3. OwnersKept
    BY <1>2 DEF OwnersKept, Registered
  <1>4. ~HasExchange(r)'
    BY <1>2 DEF OneEnd, OwnedOnce, HasExchange, Registered
  <1>5. reply[r].stage # "none" /\ ~Holds(protocolQueue, Call(r))
    BY <1>1 DEF OneEnd, SentOnce, Unbegun
  <1>6. \A q \in Replies : HasExchange(q)' => HasExchange(q)
    BY <1>3 DEF OwnersKept, HasExchange, Registered
  <1>7. \A q \in Replies : q # r /\ Unbegun(q) => Unbegun(q)'
    BY <1>6 DEF Unbegun
  <1>8. SentOnce'
    BY <1>1, <1>5, <1>7 DEF OneEnd, SentOnce, CallsKept, StagesKept
  <1>9. OwnedOnce'
    BY <1>3 DEF OneEnd, OwnedOnce, OwnersKept, Registered
  <1>10. Ended'
    BY <1>4, <1>6 DEF OneEnd, Ended
  <1> QED
    BY <1>8, <1>9, <1>10 DEF OneEnd

\* Events other than sendRequest join the queue of the worker, or its first event leaves it.
LEMMA AddedCalls ==
    ASSUME TypeOK, NEW s \in Seq(ProtocolEvent), protocolQueue' = protocolQueue \o s,
           \A i \in DOMAIN s : s[i].op # "sendRequest"
    PROVE  CallsKept
  <1>1. protocolQueue \in Seq(ProtocolEvent)
    BY DEF TypeOK
  <1>2. \A r \in Replies : ~Holds(s, Call(r))
    BY DEF Holds, Call
  <1> QED
    BY <1>1, <1>2, AddedEvents DEF CallsKept

LEMMA TakenCalls ==
    ASSUME TypeOK, NEW op, NEW a, NextEvent(op, a) PROVE CallsKept
  BY TakenEvents DEF TypeOK, NextEvent, CallsKept

\* The first event of the user leaves its queue.
LEMMA TakenEnds ==
    ASSUME TypeOK, NEW s, NEW r, NextSlot(s, r) PROVE EndsKept
  BY TakenEvents DEF TypeOK, NextSlot, EndsKept

\* Of the events posted, those that are ends are counted.
LEMMA PostedEnds ==
    ASSUME TypeOK, NEW r \in Replies, NEW s \in Seq(UserEvent), Post(r, s)
    PROVE  \A q \in Replies : Holds(userQueue', End(q)) => Holds(userQueue, End(q)) \/ Holds(s, End(q))
  <1>1. userQueue \in Seq(UserEvent) /\ <<>> \in Seq(UserEvent)
    BY DEF TypeOK
  <1>2. \A q : ~Holds(<<>>, q)
    BY DEF Holds
  <1>3. userQueue' = userQueue \o s \/ userQueue' = userQueue \o <<>>
    BY DEF Post
  <1>4. ASSUME NEW e, Holds(userQueue', e) PROVE Holds(userQueue, e) \/ Holds(s, e)
    <2>1. CASE userQueue' = userQueue \o s
      BY <1>1, <1>4, <2>1, AddedEvents
    <2>2. CASE userQueue' = userQueue \o <<>>
      BY <1>1, <1>2, <1>4, <2>2, AddedEvents
    <2> QED
      BY <1>3, <2>1, <2>2
  <1> QED
    BY <1>4

LEMMA UserOneEnd == ASSUME TypeOK, OneEnd, UserOperation PROVE OneEnd'
  <1>1. ASSUME NEW r \in Replies, Send(r) PROVE OneEnd'
    <2>1. /\ reply[r].stage = "none" /\ reply'[r].stage # "none"
          /\ \A q \in Replies \ {r} : reply'[q] = reply[q]
      BY <1>1 DEF Send, TypeOK, Reply
    <2>2. protocolQueue \in Seq(ProtocolEvent) /\ <<Call(r)>> \in Seq(ProtocolEvent)
      BY DEF TypeOK, Call, ProtocolEvent
    <2>3. protocolQueue' = protocolQueue \o <<Call(r)>>
      BY <1>1, <2>2 DEF Send, Call
    <2>4. \A q \in Replies : q # r => ~Holds(<<Call(r)>>, Call(q))
      BY DEF Holds, Call
    <2>5. AtMostOnce(<<Call(r)>>, Call(r))
      BY DEF AtMostOnce
    <2>6. ~Holds(protocolQueue, Call(r)) /\ Unbegun(r)
      BY <2>1 DEF OneEnd, SentOnce
    <2>7. \A q \in Replies \ {r} : /\ Holds(protocolQueue', Call(q)) => Holds(protocolQueue, Call(q))
                                   /\ AtMostOnce(protocolQueue', Call(q))
      BY <2>2, <2>3, <2>4, AddedEvents DEF OneEnd, SentOnce
    <2>8. AtMostOnce(protocolQueue', Call(r))
      BY <2>2, <2>3, <2>5, <2>6, AddedEvents
    <2>9. UNCHANGED <<exchangeMap, userQueue>>
      BY <1>1 DEF Send
    <2>10. \A q \in Replies : Unbegun(q)' <=> Unbegun(q)
      BY <2>9 DEF Unbegun, HasExchange, Registered
    <2>11. SentOnce'
      BY <2>1, <2>6, <2>7, <2>8, <2>10 DEF OneEnd, SentOnce
    <2>12. OwnedOnce' /\ Ended'
      BY <2>9 DEF OneEnd, OwnedOnce, Ended, HasExchange, Registered
    <2> QED
      BY <2>11, <2>12 DEF OneEnd
  <1>2. ASSUME NEW r \in Replies, Abort(r) \/ Delete(r) PROVE OneEnd'
    <2>1. PICK stage \in {"alive", "deleted"} : AbortReply(r, stage)
      BY <1>2 DEF Abort, Delete
    <2>2. StagesKept
      BY <2>1 DEF AbortReply, StagesKept, TypeOK, Reply
    <2>3. /\ [op |-> "finished", arg |-> r] \in ProtocolEvent
          /\ [op |-> "aborted", arg |-> reply[r].token] \in ProtocolEvent
      BY DEF ProtocolEvent, TypeOK, Reply
    <2>4. /\ AbortEvents(r) \in Seq(ProtocolEvent)
          /\ \A i \in DOMAIN AbortEvents(r) : AbortEvents(r)[i].op # "sendRequest"
      BY <2>3 DEF AbortEvents
    <2>5. CallsKept
      BY <2>1, <2>4, AddedCalls DEF AbortReply
    <2>6. OwnersKept /\ EndsKept
      BY <1>2 DEF Abort, Delete, OwnersKept, EndsKept, Registered
    <2> QED
      BY <2>2, <2>5, <2>6, KeptOneEnd
  <1>3. ASSUME NEW e \in ProtocolEvent, e.op # "sendRequest",
               protocolQueue' = Append(protocolQueue, e), UNCHANGED <<reply, exchangeMap, userQueue>>
        PROVE  OneEnd'
    <2>1. protocolQueue' = protocolQueue \o <<e>> /\ <<e>> \in Seq(ProtocolEvent)
          /\ \A i \in DOMAIN <<e>> : <<e>>[i].op # "sendRequest"
      BY <1>3 DEF TypeOK
    <2>2. CallsKept
      BY <2>1, AddedCalls
    <2>3. OwnersKept /\ EndsKept /\ StagesKept
      BY <1>3 DEF OwnersKept, EndsKept, StagesKept, Registered
    <2> QED
      BY <2>2, <2>3, KeptOneEnd
  <1>4. ASSUME NEW r \in Replies, CancelObserve(r) PROVE OneEnd'
    <2>1. [op |-> "cancelObserve", arg |-> r] \in ProtocolEvent
      BY DEF ProtocolEvent
    <2> QED
      BY <1>3, <1>4, <2>1 DEF CancelObserve
  <1>5. ASSUME NEW h \in Targets, CancelObserveUrl(h) PROVE OneEnd'
    <2>1. [op |-> "cancelObserveUrl", arg |-> h] \in ProtocolEvent
      BY HostAssumption DEF ProtocolEvent
    <2> QED
      BY <1>3, <1>5, <2>1 DEF CancelObserveUrl
  <1> QED
    BY <1>1, <1>2, <1>4, <1>5 DEF UserOperation

LEMMA SlotOneEnd == ASSUME TypeOK, OneEnd, RunSlot PROVE OneEnd'
  <1> SUFFICES ASSUME NEW r \in Replies,
                      \/ SetRunning(r) \/ SetContent(r) \/ SetNotified(r) \/ SetFinished(r)
                      \/ SetError(r) \/ SetObserveCancelled(r) \/ ClientFinished(r)
                      \/ \E s \in ReplySlots : DropEvent(s, r)
               PROVE  OneEnd'
    BY DEF RunSlot
  <1>1. PICK s : NextSlot(s, r)
    BY DEF SetRunning, SetContent, SetNotified, SetFinished, SetError, SetObserveCancelled,
       ClientFinished, DropEvent
  <1>2. EndsKept
    BY <1>1, TakenEnds
  <1>3. OwnersKept
    BY <1>1 DEF NextSlot, OwnersKept, Registered
  <1>4. StagesKept
    <2>1. CASE UNCHANGED reply
      BY <2>1 DEF StagesKept
    <2>2. CASE SetRunning(r)
      BY <2>2 DEF SetRunning, StagesKept, TypeOK, Reply
    <2>3. CASE SetContent(r)
      BY <2>3 DEF SetContent, StagesKept, TypeOK, Reply
    <2>4. CASE SetError(r)
      BY <2>4 DEF SetError, StagesKept, TypeOK, Reply
    <2>5. ASSUME NEW cause, EmitFinished(r, cause) PROVE StagesKept
      BY <2>5 DEF EmitFinished, StagesKept, TypeOK, Reply
    <2>6. CASE SetObserveCancelled(r)
      <3>1. CASE reply' = [reply EXCEPT ![r].running = FALSE]
        BY <3>1 DEF StagesKept, TypeOK, Reply
      <3> QED
        BY <2>5, <2>6, <3>1 DEF SetObserveCancelled
    <2>7. CASE SetNotified(r) \/ SetFinished(r) \/ ClientFinished(r) \/ \E x \in ReplySlots : DropEvent(x, r)
      BY <2>1, <2>5, <2>7 DEF SetNotified, SetFinished, ClientFinished, DropEvent
    <2> QED
      BY <2>2, <2>3, <2>4, <2>6, <2>7
  <1>5. CallsKept
    <2>1. [op |-> "finished", arg |-> r] \in ProtocolEvent
      BY DEF ProtocolEvent
    <2>2. /\ FinishedEvents(r) \in Seq(ProtocolEvent)
          /\ \A i \in DOMAIN FinishedEvents(r) : FinishedEvents(r)[i].op # "sendRequest"
      BY <2>1 DEF FinishedEvents
    <2>3. CASE protocolQueue' = protocolQueue \o FinishedEvents(r)
      BY <2>2, <2>3, AddedCalls
    <2>4. CASE UNCHANGED protocolQueue
      BY <2>4 DEF CallsKept
    <2> QED
      BY <2>3, <2>4 DEF SetRunning, SetContent, SetNotified, SetFinished, SetError,
         SetObserveCancelled, EmitFinished, ClientFinished, DropEvent
  <1> QED
    BY <1>2, <1>3, <1>4, <1>5, KeptOneEnd

\* Posting events of which none is an end.
LEMMA PostedOthers ==
    ASSUME TypeOK, NEW r \in Replies, NEW s \in Seq(UserEvent), Post(r, s),
           \A i \in DOMAIN s : s[i].slot # "_q_setFinished"
    PROVE  EndsKept
  <1>1. \A q \in Replies : ~Holds(s, End(q))
    BY DEF Holds, End, Event
  <1> QED
    BY <1>1, PostedEnds DEF EndsKept

\* A request begins: its call is taken from the queue, where it was once.
LEMMA StartOneEnd ==
    ASSUME TypeOK, OneEnd, NEW r \in Replies, StartRequest(r) PROVE OneEnd'
  <1> DEFINE new(m) == [reply |-> r, mid |-> m, observe |-> reply[r].observe,
                        cancelled |-> FALSE, inProgress |-> FALSE, counter |-> 0]
  <1>1. reply[r].token \in Tokens \cup {EmptyToken} /\ reply[r].observe \in BOOLEAN
    BY DEF TypeOK, Reply
  <1>2. PICK m \in FreeIds,
             t \in (IF reply[r].token = EmptyToken THEN FreeTokens ELSE {reply[r].token}) :
           /\ Transmit(t, new(m), reply[r].host)
           /\ Post(r, <<Event("_q_setRunning", r, t)>>)
    BY DEF StartRequest
  <1>3. t \in Tokens /\ m \in MessageIds
    BY <1>1, <1>2 DEF FreeIds, FreeTokens
  <1>4. Restarted(new(m)).reply = r
    BY DEF Restarted
  <1> HIDE DEF new
  <1>5. /\ exchangeMap'[t].reply = r
        /\ \A s \in Tokens \ {t} : exchangeMap'[s] = exchangeMap[s]
    BY <1>2, <1>3, <1>4 DEF Transmit, TypeOK
  <1>6. CallsKept
    BY TakenCalls DEF StartRequest
  <1>7. EndsKept
    <2>1. <<Event("_q_setRunning", r, t)>> \in Seq(UserEvent)
      BY <1>3 DEF Event, UserEvent
    <2>2. \A i \in DOMAIN <<Event("_q_setRunning", r, t)>> :
             <<Event("_q_setRunning", r, t)>>[i].slot # "_q_setFinished"
      BY DEF Event
    <2> QED
      BY <1>2, <2>1, <2>2, PostedOthers
  <1>8. \A q \in Replies : reply'[q].stage = reply[q].stage
    BY DEF StartRequest, TypeOK, Reply
  <1>9. /\ protocolQueue \in Seq(ProtocolEvent) /\ protocolQueue # <<>>
        /\ Head(protocolQueue) = Call(r) /\ protocolQueue' = Tail(protocolQueue)
    BY DEF StartRequest, NextEvent, TypeOK, Call
  <1>10. Unbegun(r) /\ ~Holds(protocolQueue', Call(r))
    <2>1. Holds(protocolQueue, Head(protocolQueue))
      BY <1>9, TakenEvents
    <2>2. AtMostOnce(protocolQueue, Head(protocolQueue))
      BY <1>9 DEF OneEnd, SentOnce
    <2>3. ~Holds(Tail(protocolQueue), Head(protocolQueue))
      BY <1>9, <2>2, TakenEvents
    <2> QED
      BY <1>9, <2>1, <2>3 DEF OneEnd, SentOnce
  <1>11. reply[r].stage # "none"
    BY DEF StartRequest, Alive
  <1>12. \A q \in Replies \ {r} : HasExchange(q)' => HasExchange(q)
    BY <1>5 DEF HasExchange, Registered
  <1>13. \A q \in Replies \ {r} : Unbegun(q) => Unbegun(q)'
    BY <1>7, <1>12 DEF Unbegun, EndsKept
  <1>14. SentOnce'
    BY <1>6, <1>8, <1>10, <1>11, <1>13 DEF OneEnd, SentOnce, CallsKept
  <1>15. OwnedOnce'
    <2>1. \A s \in Tokens \ {t} : Registered(s) => exchangeMap[s].reply # r
      BY <1>10 DEF Unbegun, HasExchange
    <2> QED
      BY <1>5, <2>1 DEF OneEnd, OwnedOnce, Registered
  <1>16. Ended'
    BY <1>7, <1>10, <1>12 DEF OneEnd, Ended, EndsKept, Unbegun
  <1> QED
    BY <1>14, <1>15, <1>16 DEF OneEnd

\* Cancelling observations keeps every exchange with its reply and ends none.
LEMMA CancelAllEnds ==
    ASSUME TypeOK, NEW rs \in Seq(Replies), CancelAll(rs) PROVE OwnersKept /\ EndsKept
  <1>1. OwnersKept
    <2>1. ASSUME NEW t \in Tokens
          PROVE  \/ exchangeMap'[t] = exchangeMap[t]
                 \/ /\ Registered(t)
                    /\ exchangeMap'[t] = [exchangeMap[t] EXCEPT !.cancelled = TRUE]
      BY DEF CancelAll, Registered
    <2>2. \A t \in Tokens : Registered(t) =>
             [exchangeMap[t] EXCEPT !.cancelled = TRUE].reply = exchangeMap[t].reply
      BY RegisteredType DEF Exchange
    <2> QED
      BY <2>1, <2>2 DEF OwnersKept, Registered
  <1>2. EndsKept
    <2> DEFINE s == [i \in DOMAIN rs |-> Event("_q_setObserveCancelled", rs[i], "-")]
    <2>1. s \in Seq(UserEvent)
      BY DEF Event, UserEvent
    <2>2. \A q : ~Holds(s, End(q))
      BY DEF Holds, End, Event
    <2>3. userQueue' = userQueue \o s /\ userQueue \in Seq(UserEvent)
      BY DEF CancelAll, TypeOK
    <2> HIDE DEF s
    <2>4. ASSUME NEW q \in Replies, Holds(userQueue', End(q)) PROVE Holds(userQueue, End(q))
      BY <2>1, <2>2, <2>3, <2>4, AddedEvents
    <2> QED
      BY <2>4 DEF EndsKept
  <1> QED
    BY <1>1, <1>2

LEMMA HandleOneEnd == ASSUME TypeOK, OneEnd, HandleEvent PROVE OneEnd'
  <1>1. ASSUME NEW r \in Replies, SkipRequest(r) PROVE OneEnd'
    <2>1. CallsKept
      BY <1>1, TakenCalls DEF SkipRequest
    <2>2. OwnersKept /\ EndsKept /\ StagesKept
      BY <1>1 DEF SkipRequest, OwnersKept, EndsKept, StagesKept, Registered
    <2> QED
      BY <2>1, <2>2, KeptOneEnd
  <1>2. ASSUME NEW r \in Replies, OnCancelObserve(r) PROVE OneEnd'
    <2>1. CallsKept /\ StagesKept
      BY <1>2, TakenCalls DEF OnCancelObserve, StagesKept
    <2>2. <<r>> \in Seq(Replies)
      OBVIOUS
    <2>3. CASE CancelAll(<<r>>)
      BY <2>1, <2>2, <2>3, CancelAllEnds, KeptOneEnd
    <2>4. CASE UNCHANGED <<exchangeMap, userQueue>>
      BY <2>1, <2>4, KeptOneEnd DEF OwnersKept, EndsKept, Registered
    <2> QED
      BY <1>2, <2>3, <2>4 DEF OnCancelObserve
  <1>3. ASSUME NEW r \in Replies, RelayFinished(r) PROVE OneEnd'
    <2>1. CallsKept /\ StagesKept /\ OwnersKept
      BY <1>3, TakenCalls DEF RelayFinished, StagesKept, OwnersKept, Registered
    <2> DEFINE s == <<Event("clientFinished", r, "-")>>
    <2>2. /\ userQueue \in Seq(UserEvent) /\ s \in Seq(UserEvent)
          /\ userQueue' = userQueue \o s
      BY <1>3 DEF RelayFinished, TypeOK, Event, UserEvent
    <2>3. \A q : ~Holds(s, End(q))
      BY DEF Holds, End, Event
    <2> HIDE DEF s
    <2>4. ASSUME NEW q \in Replies, Holds(userQueue', End(q)) PROVE Holds(userQueue, End(q))
      BY <2>2, <2>3, <2>4, AddedEvents
    <2> QED
      BY <2>1, <2>4, KeptOneEnd DEF EndsKept
  <1>4. ASSUME NEW t \in Tokens \cup {EmptyToken}, OnRequestAborted(t) PROVE OneEnd'
    <2>1. CallsKept /\ StagesKept /\ EndsKept
      BY <1>4, TakenCalls DEF OnRequestAborted, StagesKept, EndsKept
    <2>2. OwnersKept
      BY <1>4 DEF OnRequestAborted, Forget, OwnersKept, Registered, TypeOK
    <2> QED
      BY <2>1, <2>2, KeptOneEnd
  <1>5. ASSUME NEW h \in Hosts \cup {Group}, OnCancelObserveUrl(h) PROVE OneEnd'
    <2> DEFINE owners == {exchangeMap[t].reply : t \in {x \in Tokens : Registered(x)}}
               chosen == {r \in owners : reply[r].host = h /\ (Tracked(r) => Cancellable(r))}
    <2>1. CallsKept /\ StagesKept
      BY <1>5, TakenCalls DEF OnCancelObserveUrl, StagesKept
    <2>2. chosen \subseteq Replies
      BY RegisteredType DEF Exchange
    <2>3. CASE \E rs \in SetToSeqs(chosen) : CancelAll(rs)
      BY <2>1, <2>2, <2>3, OrderType, CancelAllEnds, KeptOneEnd
    <2>4. CASE UNCHANGED <<exchangeMap, userQueue>>
      BY <2>1, <2>4, KeptOneEnd DEF OwnersKept, EndsKept, Registered
    <2> QED
      BY <1>5, <2>3, <2>4 DEF OnCancelObserveUrl
  <1> QED
    BY <1>1, <1>2, <1>3, <1>4, <1>5, StartOneEnd DEF HandleEvent

\* The exchange of t goes on with what became of its record.
LEMMA OwnerKept ==
    ASSUME TypeOK, NEW t \in Tokens, Registered(t), NEW e,
           exchangeMap' = [exchangeMap EXCEPT ![t] = e], e.reply = exchangeMap[t].reply
    PROVE  OwnersKept
  BY DEF OwnersKept, Registered, TypeOK

\* Two events posted one after the other.
LEMMA TwoEvents == ASSUME NEW a, NEW b PROVE <<a>> \o <<b>> = <<a, b>>
  <1> DEFINE S == {a, b}
             w == <<a>> \o <<b>>
  <1>1. <<a>> \in Seq(S) /\ <<b>> \in Seq(S) /\ <<a, b>> \in Seq(S)
    OBVIOUS
  <1>2. w \in Seq(S) /\ Len(w) = 2 /\ w[1] = a /\ w[2] = b
    BY <1>1, ConcatProperties
  <1> HIDE DEF w
  <1>3. Len(w) = Len(<<a, b>>) /\ \A i \in 1..Len(w) : w[i] = <<a, b>>[i]
    BY <1>2
  <1>4. w = <<a, b>>
    BY <1>1, <1>2, <1>3, SeqEqual
  <1> QED
    BY <1>4 DEF w

LEMMA FrameOneEnd == ASSUME TypeOK, OneEnd, ReadFrame PROVE OneEnd'
  <1> SUFFICES ASSUME NEW f \in ServerFrames, NEW t \in Tokens, OnFrameReceived(f, t)
               PROVE  OneEnd'
    BY DEF ReadFrame
  <1>1. Registered(t)
    BY DEF OnFrameReceived, ReceiveError, ReceiveBlock, ReceiveUnwanted, ReceiveEmptyAck,
           ReceiveResponse, Matches
  <1>2. UNCHANGED <<reply, protocolQueue>>
    BY DEF OnFrameReceived, ReceiveError, ReceiveBlock, ReceiveUnwanted, ReceiveEmptyAck,
           ReceiveResponse
  <1>3. CallsKept /\ StagesKept
    BY <1>2 DEF CallsKept, StagesKept
  <1>4. PICK r \in Replies : r = exchangeMap[t].reply
    BY <1>1, RegisteredType DEF Exchange
  <1>5. ASSUME NEW s \in Seq(UserEvent), Post(r, s), Forget(t),
               \A i \in DOMAIN s : s[i].reply = r
        PROVE  OneEnd'
    <2>1. \A q \in Replies : Holds(s, End(q)) => q = r
      BY <1>5 DEF Holds, End, Event
    <2>2. \A q \in Replies : Holds(userQueue', End(q)) =>
                                 Holds(userQueue, End(q)) \/ q = exchangeMap[t].reply
      BY <1>4, <1>5, <2>1, PostedEnds
    <2> QED
      BY <1>1, <1>3, <1>5, <2>2, ForgetOneEnd
  <1>6. CASE ReceiveError(f, t)
    <2> DEFINE s == <<Event("_q_setContent", r, "Error"), Event("_q_setFinished", r, "-")>>
    <2>1. s \in Seq(UserEvent) /\ \A i \in DOMAIN s : s[i].reply = r
      BY DEF Event, UserEvent
    <2> QED
      BY <1>4, <1>5, <1>6, <2>1 DEF ReceiveError
  <1>7. CASE ReceiveBlock(f, t)
    <2>1. PICK m \in FreeIds :
             Transmit(t, [Accepted(t) EXCEPT !.mid = m],
                      IF f.next = "receive" THEN f.from ELSE reply[r].host)
      BY <1>4, <1>7 DEF ReceiveBlock
    <2>2. Restarted([Accepted(t) EXCEPT !.mid = m]).reply = exchangeMap[t].reply
      BY <1>1, <2>1, AcceptedType DEF Restarted, Exchange
    <2>3. OwnersKept
      BY <1>1, <2>1, <2>2, OwnerKept DEF Transmit
    <2>4. EndsKept
      BY <1>7 DEF ReceiveBlock, EndsKept
    <2> QED
      BY <1>3, <2>3, <2>4, KeptOneEnd
  <1>8. CASE ReceiveUnwanted(f, t)
    BY <1>1, <1>3, <1>8, ForgetOneEnd DEF ReceiveUnwanted
  <1>9. CASE ReceiveEmptyAck(f, t)
    <2>1. OwnersKept
      BY <1>1, <1>9, AcceptedType, OwnerKept DEF ReceiveEmptyAck
    <2>2. EndsKept
      BY <1>9 DEF ReceiveEmptyAck, EndsKept
    <2> QED
      BY <1>3, <2>1, <2>2, KeptOneEnd
  <1>10. CASE ReceiveResponse(f, t)
    <2> DEFINE last == IF Accepted(t).observe THEN <<Event("_q_setNotified", r, "-")>>
                       ELSE IF IsMulticast(t) THEN <<>>
                       ELSE <<Event("_q_setFinished", r, "-")>>
               content == <<Event("_q_setContent", r, f.code)>>
    <2>1. /\ Post(r, content \o last)
          /\ IF Accepted(t).observe \/ IsMulticast(t)
             THEN exchangeMap' = [exchangeMap EXCEPT ![t] = Accepted(t)]
             ELSE Forget(t)
      BY <1>4, <1>10 DEF ReceiveResponse
    <2>2. f.code \in {"Empty", "Content"}
      BY <1>10, FrameType DEF Frame, ReceiveResponse
    <2>3. CASE Accepted(t).observe
      <3>1. content \o last = <<Event("_q_setContent", r, f.code), Event("_q_setNotified", r, "-")>>
        <4>1. last = <<Event("_q_setNotified", r, "-")>>
          BY <2>3
        <4> QED
          BY <4>1, TwoEvents
      <3>2. /\ content \o last \in Seq(UserEvent)
            /\ \A i \in DOMAIN (content \o last) : (content \o last)[i].slot # "_q_setFinished"
        <4> HIDE DEF content, last
        <4> QED
          BY <2>2, <3>1 DEF Event, UserEvent
      <3>3. EndsKept
        BY <2>1, <3>2, PostedOthers
      <3>4. OwnersKept
        BY <1>1, <2>1, <2>3, AcceptedType, OwnerKept
      <3> QED
        BY <1>3, <3>3, <3>4, KeptOneEnd
    <2>4. CASE ~Accepted(t).observe /\ IsMulticast(t)
      <3>1. content \o last = content
        BY <2>4
      <3>2. /\ content \in Seq(UserEvent)
            /\ \A i \in DOMAIN content : content[i].slot # "_q_setFinished"
        BY <2>2 DEF Event, UserEvent
      <3>3. EndsKept
        BY <2>1, <3>1, <3>2, PostedOthers
      <3>4. OwnersKept
        BY <1>1, <2>1, <2>4, AcceptedType, OwnerKept
      <3> QED
        BY <1>3, <3>3, <3>4, KeptOneEnd
    <2>5. CASE ~Accepted(t).observe /\ ~IsMulticast(t)
      <3>1. content \o last = <<Event("_q_setContent", r, f.code), Event("_q_setFinished", r, "-")>>
        <4>1. last = <<Event("_q_setFinished", r, "-")>>
          BY <2>5
        <4> QED
          BY <4>1, TwoEvents
      <3>2. /\ content \o last \in Seq(UserEvent)
            /\ \A i \in DOMAIN (content \o last) : (content \o last)[i].reply = r
        <4> HIDE DEF content, last
        <4> QED
          BY <2>2, <3>1 DEF Event, UserEvent
      <3>3. Forget(t)
        BY <2>1, <2>5
      <3> HIDE DEF content, last
      <3> QED
        BY <1>5, <2>1, <3>2, <3>3
    <2> QED
      BY <2>3, <2>4, <2>5
  <1> QED
    BY <1>6, <1>7, <1>8, <1>9, <1>10 DEF OnFrameReceived

LEMMA TimerOneEnd ==
    ASSUME TypeOK, OneEnd, NEW t \in Tokens, OnRequestTimeout(t) \/ FireTimer(t) PROVE OneEnd'
  <1>1. Registered(t) /\ UNCHANGED <<reply, protocolQueue>>
    BY DEF OnRequestTimeout, FireTimer, OnRequestMaxTransmissionSpanReached,
           OnMulticastRequestExpired, OnRequestError
  <1>2. CallsKept /\ StagesKept
    BY <1>1 DEF CallsKept, StagesKept
  <1>3. PICK r \in Replies : r = exchangeMap[t].reply
    BY <1>1, RegisteredType DEF Exchange
  <1>4. CASE OnRequestTimeout(t) /\ CanRetransmit(t)
    <2>1. Restarted(exchangeMap[t]).reply = exchangeMap[t].reply
      BY <1>1, RegisteredType DEF Restarted, Exchange
    <2>2. OwnersKept
      BY <1>1, <1>4, <2>1, OwnerKept DEF OnRequestTimeout, Transmit
    <2>3. EndsKept
      BY <1>4 DEF OnRequestTimeout, EndsKept
    <2> QED
      BY <1>2, <2>2, <2>3, KeptOneEnd
  <1>5. ASSUME NEW s \in Seq(UserEvent), Post(r, s), Forget(t),
               \A i \in DOMAIN s : s[i].reply = r
        PROVE  OneEnd'
    <2>1. \A q \in Replies : Holds(s, End(q)) => q = r
      BY <1>5 DEF Holds, End, Event
    <2>2. \A q \in Replies : Holds(userQueue', End(q)) =>
                                 Holds(userQueue, End(q)) \/ q = exchangeMap[t].reply
      BY <1>3, <1>5, <2>1, PostedEnds
    <2> QED
      BY <1>1, <1>2, <1>5, <2>2, ForgetOneEnd
  <1>6. CASE OnRequestError(t)
    <2>1. /\ ErrorEvents(r) \in Seq(UserEvent)
          /\ \A i \in DOMAIN ErrorEvents(r) : ErrorEvents(r)[i].reply = r
      BY DEF ErrorEvents, Event, UserEvent
    <2> QED
      BY <1>3, <1>5, <1>6, <2>1 DEF OnRequestError
  <1>7. CASE OnMulticastRequestExpired(t)
    <2> DEFINE s == <<Event("_q_setFinished", r, "-")>>
    <2>1. s \in Seq(UserEvent) /\ \A i \in DOMAIN s : s[i].reply = r
      BY DEF Event, UserEvent
    <2> QED
      BY <1>3, <1>5, <1>7, <2>1 DEF OnMulticastRequestExpired
  <1> QED
    BY <1>4, <1>6, <1>7 DEF OnRequestTimeout, FireTimer, OnRequestMaxTransmissionSpanReached

LEMMA InitOneEnd == Init => OneEnd
  <1> SUFFICES ASSUME Init PROVE OneEnd
    OBVIOUS
  <1>1. /\ userQueue = <<>> /\ protocolQueue = <<>>
        /\ \A t \in Tokens : ~Registered(t)
    BY DEF Init, Registered
  <1>2. \A e : ~Holds(<<>>, e) /\ AtMostOnce(<<>>, e)
    BY DEF Holds, AtMostOnce
  <1>3. \A r \in Replies : Unbegun(r)
    BY <1>1, <1>2 DEF Unbegun, HasExchange
  <1> QED
    BY <1>1, <1>2, <1>3 DEF OneEnd, SentOnce, OwnedOnce, Ended

LEMMA StepOneEnd == ASSUME TypeOK, OneEnd, [Next]_vars PROVE OneEnd'
  <1>1. CASE UNCHANGED vars
    BY <1>1, KeptOneEnd DEF vars, CallsKept, OwnersKept, EndsKept, StagesKept, Registered
  <1> QED
    BY <1>1, UserOneEnd, SlotOneEnd, HandleOneEnd, FrameOneEnd, TimerOneEnd DEF Next

LEMMA OneEndHolds == Spec => []OneEnd
  BY InitOneEnd, StepOneEnd, TypeCorrect, PTL DEF Spec

\* Once the protocol has posted the end of a reply it has forgotten its exchange: nothing that
\* it receives afterwards, however late or often, reaches the reply.
THEOREM EndsAreForgotten == Spec => []EndIsForgotten
  <1>1. TypeOK /\ OneEnd => EndIsForgotten
    <2> SUFFICES ASSUME TypeOK, OneEnd, NEW r \in Replies, Posted({"_q_setFinished"}, r)
                 PROVE  ~HasExchange(r)
      BY DEF EndIsForgotten
    <2>1. PICK i \in DOMAIN userQueue :
             userQueue[i].slot = "_q_setFinished" /\ userQueue[i].reply = r
      BY DEF Posted
    <2>2. userQueue[i] \in UserEvent
      BY DEF TypeOK
    <2>3. userQueue[i] = End(r)
      BY <2>1, <2>2 DEF UserEvent, End, Event
    <2> QED
      BY <2>3 DEF Holds, OneEnd, Ended
  <1> QED
    BY <1>1, TypeCorrect, OneEndHolds, PTL DEF Spec

(***************************************************************************)
(* QCoapClient::finished().  The signal of a reply travels through both    *)
(* queues to the client: it is in one of them or has been counted, once.   *)
(***************************************************************************)

Finish(r) == [op |-> "finished", arg |-> r]
Relay(r) == Event("clientFinished", r, "-")

\* Nothing of the signal has been relayed yet.
Unrelayed(r) == ~Holds(userQueue, Relay(r)) /\ signals[r].client = 0

Relayed ==
    \A r \in Replies :
       /\ ~reply[r].finished => ~Holds(protocolQueue, Finish(r)) /\ Unrelayed(r)
       /\ AtMostOnce(protocolQueue, Finish(r)) /\ AtMostOnce(userQueue, Relay(r))
       /\ Holds(protocolQueue, Finish(r)) => Unrelayed(r)
       /\ Holds(userQueue, Relay(r)) => signals[r].client = 0
       /\ signals[r].client <= 1

\* A step that adds no event e to the queue.
Fewer(q, w, e) == /\ Holds(w, e) => Holds(q, e)
                  /\ AtMostOnce(q, e) => AtMostOnce(w, e)

FinishesKept == \A r \in Replies : Fewer(protocolQueue, protocolQueue', Finish(r))
RelaysKept == \A r \in Replies : Fewer(userQueue, userQueue', Relay(r))
ClientsKept == \A r \in Replies : signals'[r].client = signals[r].client
FinishedKept == \A r \in Replies : reply[r].finished => reply'[r].finished

LEMMA KeptRelayed ==
    ASSUME Relayed, FinishesKept, RelaysKept, ClientsKept, FinishedKept PROVE Relayed'
  <1> SUFFICES ASSUME NEW r \in Replies
               PROVE  /\ ~reply'[r].finished => ~Holds(protocolQueue', Finish(r)) /\ Unrelayed(r)'
                      /\ AtMostOnce(protocolQueue', Finish(r)) /\ AtMostOnce(userQueue', Relay(r))
                      /\ Holds(protocolQueue', Finish(r)) => Unrelayed(r)'
                      /\ Holds(userQueue', Relay(r)) => signals'[r].client = 0
                      /\ signals'[r].client <= 1
    BY DEF Relayed
  <1>1. /\ Fewer(protocolQueue, protocolQueue', Finish(r))
        /\ Fewer(userQueue, userQueue', Relay(r))
        /\ signals'[r].client = signals[r].client
        /\ reply[r].finished => reply'[r].finished
    BY DEF FinishesKept, RelaysKept, ClientsKept, FinishedKept
  <1>2. Unrelayed(r) => Unrelayed(r)'
    BY <1>1 DEF Unrelayed, Fewer
  <1> QED
    BY <1>1, <1>2 DEF Relayed, Fewer

\* Events are added of which none is e, or the first event is taken.
LEMMA AddedOthers ==
    ASSUME NEW S, NEW q \in Seq(S), NEW s \in Seq(S), NEW e, ~Holds(s, e)
    PROVE  Fewer(q, q \o s, e)
  BY AddedEvents DEF Fewer

LEMMA TakenFirst ==
    ASSUME NEW S, NEW q \in Seq(S), q # <<>>, NEW e PROVE Fewer(q, Tail(q), e)
  BY TakenEvents DEF Fewer

LEMMA PostedRelays ==
    ASSUME TypeOK, NEW r \in Replies, NEW s \in Seq(UserEvent), Post(r, s),
           \A i \in DOMAIN s : s[i].slot # "clientFinished"
    PROVE  RelaysKept
  <1>1. userQueue \in Seq(UserEvent) /\ <<>> \in Seq(UserEvent)
    BY DEF TypeOK
  <1>2. userQueue' = userQueue \o s \/ userQueue' = userQueue \o <<>>
    BY DEF Post
  <1>3. ASSUME NEW q \in Replies PROVE Fewer(userQueue, userQueue', Relay(q))
    <2>1. ~Holds(s, Relay(q)) /\ ~Holds(<<>>, Relay(q))
      BY DEF Holds, Relay, Event
    <2>2. CASE userQueue' = userQueue \o s
      BY <1>1, <2>1, <2>2, AddedOthers
    <2>3. CASE userQueue' = userQueue \o <<>>
      BY <1>1, <2>1, <2>3, AddedOthers
    <2> QED
      BY <1>2, <2>2, <2>3
  <1> QED
    BY <1>3 DEF RelaysKept

\* The reply finishes: its signal is posted to the worker, at most once.
LEMMA FinishRelayed ==
    ASSUME TypeOK, Relayed, NEW r \in Replies, ~reply[r].finished, NEW s \in Seq(ProtocolEvent),
           protocolQueue' = protocolQueue \o s, AtMostOnce(s, Finish(r)),
           \A q \in Replies \ {r} : ~Holds(s, Finish(q)),
           reply'[r].finished, FinishedKept, RelaysKept, ClientsKept
    PROVE  Relayed'
  <1>1. protocolQueue \in Seq(ProtocolEvent)
    BY DEF TypeOK
  <1>2. ~Holds(protocolQueue, Finish(r)) /\ Unrelayed(r)
    BY DEF Relayed
  <1>3. AtMostOnce(protocolQueue', Finish(r))
    BY <1>1, <1>2, AddedEvents
  <1>4. \A q \in Replies \ {r} : Fewer(protocolQueue, protocolQueue', Finish(q))
    BY <1>1, AddedOthers
  <1>5. Unrelayed(r)' /\ AtMostOnce(userQueue', Relay(r)) /\ signals'[r].client <= 1
    BY <1>2 DEF Unrelayed, RelaysKept, ClientsKept, Fewer, Relayed
  <1>8. ASSUME NEW q \in Replies \ {r}
        PROVE  /\ ~reply'[q].finished => ~Holds(protocolQueue', Finish(q)) /\ Unrelayed(q)'
               /\ AtMostOnce(protocolQueue', Finish(q)) /\ AtMostOnce(userQueue', Relay(q))
               /\ Holds(protocolQueue', Finish(q)) => Unrelayed(q)'
               /\ Holds(userQueue', Relay(q)) => signals'[q].client = 0
               /\ signals'[q].client <= 1
    <2>1. /\ Fewer(protocolQueue, protocolQueue', Finish(q))
          /\ Fewer(userQueue, userQueue', Relay(q))
          /\ signals'[q].client = signals[q].client
          /\ reply[q].finished => reply'[q].finished
      BY <1>4 DEF RelaysKept, ClientsKept, FinishedKept
    <2>2. Unrelayed(q) => Unrelayed(q)'
      BY <2>1 DEF Unrelayed, Fewer
    <2> QED
      BY <2>1, <2>2 DEF Relayed, Fewer
  <1>9. /\ ~reply'[r].finished => ~Holds(protocolQueue', Finish(r)) /\ Unrelayed(r)'
        /\ AtMostOnce(protocolQueue', Finish(r)) /\ AtMostOnce(userQueue', Relay(r))
        /\ Holds(protocolQueue', Finish(r)) => Unrelayed(r)'
        /\ Holds(userQueue', Relay(r)) => signals'[r].client = 0
        /\ signals'[r].client <= 1
    BY <1>3, <1>5 DEF Unrelayed
  <1> QED
    BY <1>8, <1>9 DEF Relayed

LEMMA EmitRelayed ==
    ASSUME TypeOK, Relayed, NEW r \in Replies, ~reply[r].finished, RelaysKept,
           NEW cause \in {"completed", "withdrawn"}, EmitFinished(r, cause)
    PROVE  Relayed'
  <1>1. Finish(r) \in ProtocolEvent
    BY DEF ProtocolEvent, Finish
  <1>2. /\ FinishedEvents(r) \in Seq(ProtocolEvent)
        /\ AtMostOnce(FinishedEvents(r), Finish(r))
        /\ \A q \in Replies \ {r} : ~Holds(FinishedEvents(r), Finish(q))
    BY <1>1 DEF FinishedEvents, Finish, AtMostOnce, Holds
  <1>3. reply'[r].finished /\ FinishedKept
    BY DEF EmitFinished, FinishedKept, TypeOK, Reply
  <1>4. ClientsKept
    BY FinishedSignals DEF EmitFinished, ClientsKept
  <1>5. protocolQueue' = protocolQueue \o FinishedEvents(r)
    BY DEF EmitFinished
  <1> QED
    BY <1>2, <1>3, <1>4, <1>5, FinishRelayed

\* The worker's queue gets events other than finished.
LEMMA QueuedRelayed ==
    ASSUME TypeOK, Relayed, NEW s \in Seq(ProtocolEvent), protocolQueue' = protocolQueue \o s,
           \A i \in DOMAIN s : s[i].op # "finished",
           RelaysKept, ClientsKept, FinishedKept
    PROVE  Relayed'
  <1>1. \A r \in Replies : ~Holds(s, Finish(r))
    BY DEF Holds, Finish
  <1>2. protocolQueue \in Seq(ProtocolEvent)
    BY DEF TypeOK
  <1>3. FinishesKept
    BY <1>1, <1>2, AddedOthers DEF FinishesKept
  <1> QED
    BY <1>3, KeptRelayed

LEMMA UserRelayed == ASSUME TypeOK, Relayed, UserOperation PROVE Relayed'
  <1>1. RelaysKept
    BY DEF UserOperation, Send, Abort, Delete, CancelObserve, CancelObserveUrl, RelaysKept, Fewer
  <1>2. protocolQueue \in Seq(ProtocolEvent)
    BY DEF TypeOK
  <1>3. ASSUME NEW e \in ProtocolEvent, e.op # "finished", UNCHANGED signals, FinishedKept,
               protocolQueue' = Append(protocolQueue, e)
        PROVE  Relayed'
    <2>1. protocolQueue' = protocolQueue \o <<e>> /\ <<e>> \in Seq(ProtocolEvent)
          /\ \A i \in DOMAIN <<e>> : <<e>>[i].op # "finished"
      BY <1>2, <1>3
    <2>2. ClientsKept
      BY <1>3 DEF ClientsKept
    <2> QED
      BY <1>1, <1>3, <2>1, <2>2, QueuedRelayed
  <1>4. ASSUME NEW r \in Replies, Send(r) PROVE Relayed'
    <2>1. [op |-> "sendRequest", arg |-> r] \in ProtocolEvent
      BY DEF ProtocolEvent
    <2>2. FinishedKept
      BY <1>4 DEF Send, FinishedKept, TypeOK, Reply
    <2> QED
      BY <1>3, <1>4, <2>1, <2>2 DEF Send
  <1>5. ASSUME NEW r \in Replies, CancelObserve(r) PROVE Relayed'
    <2>1. [op |-> "cancelObserve", arg |-> r] \in ProtocolEvent
      BY DEF ProtocolEvent
    <2>2. UNCHANGED <<reply, signals>> /\ FinishedKept
      BY <1>5 DEF CancelObserve, FinishedKept
    <2> QED
      BY <1>3, <1>5, <2>1, <2>2 DEF CancelObserve
  <1>6. ASSUME NEW h \in Targets, CancelObserveUrl(h) PROVE Relayed'
    <2>1. [op |-> "cancelObserveUrl", arg |-> h] \in ProtocolEvent
      BY HostAssumption DEF ProtocolEvent
    <2>2. UNCHANGED <<reply, signals>> /\ FinishedKept
      BY <1>6 DEF CancelObserveUrl, FinishedKept
    <2> QED
      BY <1>3, <1>6, <2>1, <2>2 DEF CancelObserveUrl
  <1>7. ASSUME NEW r \in Replies, NEW stage, AbortReply(r, stage) PROVE Relayed'
    <2>1. reply'[r].finished /\ FinishedKept
      BY <1>7 DEF AbortReply, FinishedKept, TypeOK, Reply
    <2>2. ClientsKept
      <3>1. CASE UNCHANGED signals
        BY <3>1 DEF ClientsKept
      <3>2. CASE signals' = Finished(r, "withdrawn")
        BY <3>2, FinishedSignals DEF ClientsKept
      <3> QED
        BY <1>7, <3>1, <3>2 DEF AbortReply
    <2>3. protocolQueue' = protocolQueue \o AbortEvents(r)
      BY <1>7 DEF AbortReply
    <2>4. CASE reply[r].finished
      <3>1. /\ AbortEvents(r) \in Seq(ProtocolEvent)
            /\ \A i \in DOMAIN AbortEvents(r) : AbortEvents(r)[i].op # "finished"
        BY <2>4 DEF AbortEvents
      <3> QED
        BY <1>1, <2>1, <2>2, <2>3, <3>1, QueuedRelayed
    <2>5. CASE ~reply[r].finished
      <3>1. /\ Finish(r) \in ProtocolEvent
            /\ [op |-> "aborted", arg |-> reply[r].token] \in ProtocolEvent
        BY DEF ProtocolEvent, TypeOK, Reply, Finish
      <3>2. /\ AbortEvents(r) \in Seq(ProtocolEvent)
            /\ AtMostOnce(AbortEvents(r), Finish(r))
            /\ \A q \in Replies \ {r} : ~Holds(AbortEvents(r), Finish(q))
        BY <3>1 DEF AbortEvents, Finish, AtMostOnce, Holds
      <3> QED
        BY <1>1, <2>1, <2>2, <2>3, <2>5, <3>2, FinishRelayed
    <2> QED
      BY <2>4, <2>5
  <1> QED
    BY <1>4, <1>5, <1>6, <1>7 DEF UserOperation, Abort, Delete

LEMMA SlotRelayed == ASSUME TypeOK, Relayed, RunSlot PROVE Relayed'
  <1> SUFFICES ASSUME NEW r \in Replies,
                      \/ SetRunning(r) \/ SetContent(r) \/ SetNotified(r) \/ SetFinished(r)
                      \/ SetError(r) \/ SetObserveCancelled(r) \/ ClientFinished(r)
                      \/ \E s \in ReplySlots : DropEvent(s, r)
               PROVE  Relayed'
    BY DEF RunSlot
  <1>1. PICK s : NextSlot(s, r)
    BY DEF SetRunning, SetContent, SetNotified, SetFinished, SetError, SetObserveCancelled,
       ClientFinished, DropEvent
  <1>2. /\ userQueue \in Seq(UserEvent) /\ userQueue # <<>>
        /\ userQueue' = Tail(userQueue)
    BY <1>1 DEF NextSlot, TypeOK
  <1>3. RelaysKept
    BY <1>2, TakenFirst DEF RelaysKept
  <1>4. ASSUME NEW cause \in {"completed", "withdrawn"}, EmitFinished(r, cause),
               ~reply[r].finished
        PROVE  Relayed'
    BY <1>3, <1>4, EmitRelayed
  <1>5. ASSUME UNCHANGED protocolQueue, ClientsKept, FinishedKept PROVE Relayed'
    <2>1. FinishesKept
      BY <1>5 DEF FinishesKept, Fewer
    <2> QED
      BY <1>3, <1>5, <2>1, KeptRelayed
  <1>6. CASE ClientFinished(r)
    <2>1. Head(userQueue) = Relay(r)
      <3>1. Head(userQueue) \in UserEvent
        BY <1>2
      <3>2. Head(userQueue).slot = "clientFinished" /\ Head(userQueue).reply = r
        BY <1>6 DEF ClientFinished, NextSlot
      <3> QED
        BY <3>1, <3>2 DEF UserEvent, Relay, Event
    <2>2. Holds(userQueue, Head(userQueue))
      BY <1>2, TakenEvents
    <2>3. AtMostOnce(userQueue, Head(userQueue))
      BY <2>1 DEF Relayed
    <2>4. ~Holds(userQueue', Relay(r))
      BY <1>2, <2>1, <2>3, TakenEvents
    <2>5. /\ signals[r].client = 0 /\ reply[r].finished /\ ~Holds(protocolQueue, Finish(r))
      BY <2>1, <2>2 DEF Relayed, Unrelayed
    <2>6. /\ signals'[r].client = 1
          /\ \A q \in Replies \ {r} : signals'[q] = signals[q]
          /\ UNCHANGED <<reply, protocolQueue>>
      BY <1>6, <2>5 DEF ClientFinished, TypeOK, Signals
    <2>7. \A q \in Replies : Fewer(userQueue, userQueue', Relay(q))
      BY <1>3 DEF RelaysKept
    <2>8. \A q \in Replies \ {r} : Unrelayed(q) => Unrelayed(q)'
      BY <2>6, <2>7 DEF Unrelayed, Fewer
    <2> QED
      BY <2>4, <2>5, <2>6, <2>7, <2>8 DEF Relayed, Fewer
  <1>7. CASE SetRunning(r)
    BY <1>5, <1>7 DEF SetRunning, ClientsKept, FinishedKept, TypeOK, Reply
  <1>8. CASE SetContent(r)
    BY <1>5, <1>8 DEF SetContent, ClientsKept, FinishedKept, TypeOK, Reply
  <1>10. CASE SetNotified(r)
    <2>1. FinishedKept /\ UNCHANGED protocolQueue
      BY <1>10 DEF SetNotified, FinishedKept
    <2>2. ClientsKept
      BY <1>10 DEF SetNotified, ClientsKept
    <2> QED
      BY <1>5, <2>1, <2>2
  <1>11. CASE SetError(r)
    <2>1. FinishedKept /\ UNCHANGED protocolQueue
      BY <1>11 DEF SetError, FinishedKept, TypeOK, Reply
    <2>2. ClientsKept
      BY <1>11 DEF SetError, ClientsKept
    <2> QED
      BY <1>5, <2>1, <2>2
  <1>12. CASE SetFinished(r)
    <2>1. CASE reply[r].finished
      BY <1>5, <1>12, <2>1 DEF SetFinished, ClientsKept, FinishedKept
    <2> QED
      BY <1>4, <1>12, <2>1 DEF SetFinished
  <1>13. CASE SetObserveCancelled(r)
    <2>1. CASE reply[r].finished
      <3>1. reply' = [reply EXCEPT ![r].running = FALSE] /\ UNCHANGED <<signals, protocolQueue>>
        BY <1>13, <2>1 DEF SetObserveCancelled
      <3> QED
        BY <1>5, <3>1 DEF ClientsKept, FinishedKept, TypeOK, Reply
    <2> QED
      BY <1>4, <1>13, <2>1 DEF SetObserveCancelled
  <1>14. CASE \E x \in ReplySlots : DropEvent(x, r)
    BY <1>5, <1>14 DEF DropEvent, ClientsKept, FinishedKept
  <1> QED
    BY <1>6, <1>7, <1>8, <1>10, <1>11, <1>12, <1>13, <1>14

LEMMA HandleRelayed == ASSUME TypeOK, Relayed, HandleEvent PROVE Relayed'
  <1>1. PICK op, a : NextEvent(op, a)
    BY DEF HandleEvent, StartRequest, SkipRequest, OnCancelObserve, RelayFinished,
       OnRequestAborted, OnCancelObserveUrl
  <1>2. /\ protocolQueue \in Seq(ProtocolEvent) /\ protocolQueue # <<>>
        /\ protocolQueue' = Tail(protocolQueue)
    BY <1>1 DEF NextEvent, TypeOK
  <1>3. FinishesKept
    BY <1>2, TakenFirst DEF FinishesKept
  <1>4. UNCHANGED signals /\ ClientsKept
    BY DEF HandleEvent, StartRequest, SkipRequest, OnCancelObserve, RelayFinished,
       OnRequestAborted, OnCancelObserveUrl, ClientsKept
  <1>5. ASSUME NEW rs \in Seq(Replies), CancelAll(rs) PROVE RelaysKept
    <2> DEFINE s == [i \in DOMAIN rs |-> Event("_q_setObserveCancelled", rs[i], "-")]
    <2>1. s \in Seq(UserEvent)
      BY DEF Event, UserEvent
    <2>2. \A q : ~Holds(s, Relay(q))
      BY DEF Holds, Relay, Event
    <2>3. userQueue' = userQueue \o s /\ userQueue \in Seq(UserEvent)
      BY <1>5 DEF CancelAll, TypeOK
    <2> HIDE DEF s
    <2> QED
      BY <2>1, <2>2, <2>3, AddedOthers DEF RelaysKept
  <1>6. ASSUME UNCHANGED userQueue PROVE RelaysKept
    BY <1>6 DEF RelaysKept, Fewer
  <1>7. ASSUME NEW r \in Replies, StartRequest(r) PROVE Relayed'
    <2>1. reply[r].token \in Tokens \cup {EmptyToken}
      BY DEF TypeOK, Reply
    <2>2. PICK t \in (IF reply[r].token = EmptyToken THEN FreeTokens ELSE {reply[r].token}) :
             Post(r, <<Event("_q_setRunning", r, t)>>)
      BY <1>7 DEF StartRequest
    <2>3. t \in Tokens
      BY <2>1, <2>2 DEF FreeTokens
    <2>4. /\ <<Event("_q_setRunning", r, t)>> \in Seq(UserEvent)
          /\ \A i \in DOMAIN <<Event("_q_setRunning", r, t)>> :
                <<Event("_q_setRunning", r, t)>>[i].slot # "clientFinished"
      BY <2>3 DEF Event, UserEvent
    <2>5. RelaysKept
      BY <2>2, <2>4, PostedRelays
    <2>6. FinishedKept
      BY <1>7 DEF StartRequest, FinishedKept, TypeOK, Reply
    <2> QED
      BY <1>3, <1>4, <2>5, <2>6, KeptRelayed
  <1>8. ASSUME RelaysKept, UNCHANGED reply PROVE Relayed'
    BY <1>3, <1>4, <1>8, KeptRelayed DEF FinishedKept
  <1>9. ASSUME NEW r \in Replies, SkipRequest(r) PROVE Relayed'
    BY <1>6, <1>8, <1>9 DEF SkipRequest
  <1>10. ASSUME NEW r \in Replies, OnCancelObserve(r) PROVE Relayed'
    <2>1. <<r>> \in Seq(Replies)
      OBVIOUS
    <2> QED
      BY <1>5, <1>6, <1>8, <1>10, <2>1 DEF OnCancelObserve
  <1>11. ASSUME NEW t \in Tokens \cup {EmptyToken}, OnRequestAborted(t) PROVE Relayed'
    BY <1>6, <1>8, <1>11 DEF OnRequestAborted
  <1>12. ASSUME NEW h \in Hosts \cup {Group}, OnCancelObserveUrl(h) PROVE Relayed'
    <2> DEFINE owners == {exchangeMap[t].reply : t \in {x \in Tokens : Registered(x)}}
               chosen == {r \in owners : reply[r].host = h /\ (Tracked(r) => Cancellable(r))}
    <2>1. chosen \subseteq Replies
      BY RegisteredType DEF Exchange
    <2>2. CASE \E rs \in SetToSeqs(chosen) : CancelAll(rs)
      BY <1>5, <1>8, <1>12, <2>1, <2>2, OrderType DEF OnCancelObserveUrl
    <2>3. CASE UNCHANGED userQueue
      BY <1>6, <1>8, <1>12, <2>3 DEF OnCancelObserveUrl
    <2> QED
      BY <1>12, <2>2, <2>3 DEF OnCancelObserveUrl
  <1>13. ASSUME NEW r \in Replies, RelayFinished(r) PROVE Relayed'
    <2> DEFINE s == <<Relay(r)>>
    <2>1. s \in Seq(UserEvent) /\ userQueue \in Seq(UserEvent) /\ userQueue' = userQueue \o s
      BY <1>13 DEF RelayFinished, TypeOK, Relay, Event, UserEvent
    <2>2. AtMostOnce(s, Relay(r)) /\ \A q \in Replies \ {r} : ~Holds(s, Relay(q))
      BY DEF AtMostOnce, Holds, Relay, Event
    <2> HIDE DEF s
    <2>3. Head(protocolQueue) = Finish(r) /\ UNCHANGED reply
      BY <1>13 DEF RelayFinished, NextEvent, Finish
    <2>4. Holds(protocolQueue, Head(protocolQueue))
      BY <1>2, TakenEvents
    <2>5. AtMostOnce(protocolQueue, Head(protocolQueue))
      BY <2>3 DEF Relayed
    <2>6. ~Holds(protocolQueue', Finish(r))
      BY <1>2, <2>3, <2>5, TakenEvents
    <2>7. Unrelayed(r) /\ reply[r].finished
      BY <2>3, <2>4 DEF Relayed
    <2>8. AtMostOnce(userQueue', Relay(r)) /\ signals'[r].client = 0
      BY <1>4, <2>1, <2>2, <2>7, AddedEvents DEF Unrelayed
    <2>9. \A q \in Replies \ {r} : Fewer(userQueue, userQueue', Relay(q))
      BY <2>1, <2>2, AddedOthers
    <2>10. \A q \in Replies : Fewer(protocolQueue, protocolQueue', Finish(q))
      BY <1>3 DEF FinishesKept
    <2>11. \A q \in Replies \ {r} : Unrelayed(q) => Unrelayed(q)'
      BY <1>4, <2>9 DEF Unrelayed, Fewer
    <2> QED
      BY <1>4, <2>3, <2>6, <2>7, <2>8, <2>9, <2>10, <2>11 DEF Relayed, Fewer
  <1> QED
    BY <1>7, <1>9, <1>10, <1>11, <1>12, <1>13 DEF HandleEvent

\* What a frame or a timer posts is for the reply, never for the client.
LEMMA WorkerRelayed ==
    ASSUME TypeOK, Relayed, UNCHANGED <<reply, signals, protocolQueue>>, RelaysKept PROVE Relayed'
  BY KeptRelayed DEF FinishesKept, ClientsKept, FinishedKept, Fewer

LEMMA FrameRelayed == ASSUME TypeOK, Relayed, ReadFrame PROVE Relayed'
  <1> SUFFICES ASSUME NEW f \in ServerFrames, NEW t \in Tokens, OnFrameReceived(f, t)
               PROVE  Relayed'
    BY DEF ReadFrame
  <1>1. Registered(t)
    BY DEF OnFrameReceived, ReceiveError, ReceiveBlock, ReceiveUnwanted, ReceiveEmptyAck,
           ReceiveResponse, Matches
  <1>2. UNCHANGED <<reply, signals, protocolQueue>>
    BY DEF OnFrameReceived, ReceiveError, ReceiveBlock, ReceiveUnwanted, ReceiveEmptyAck,
           ReceiveResponse
  <1>3. PICK r \in Replies : r = exchangeMap[t].reply
    BY <1>1, RegisteredType DEF Exchange
  <1>4. CASE UNCHANGED userQueue
    BY <1>2, <1>4, WorkerRelayed DEF RelaysKept, Fewer
  <1>5. CASE ReceiveError(f, t)
    <2> DEFINE s == <<Event("_q_setContent", r, "Error"), Event("_q_setFinished", r, "-")>>
    <2>1. s \in Seq(UserEvent) /\ \A i \in DOMAIN s : s[i].slot # "clientFinished"
      BY DEF Event, UserEvent
    <2>2. RelaysKept
      BY <1>3, <1>5, <2>1, PostedRelays DEF ReceiveError
    <2> QED
      BY <1>2, <2>2, WorkerRelayed
  <1>6. CASE ReceiveResponse(f, t)
    <2>1. f.code \in {"Empty", "Content"}
      BY <1>6, FrameType DEF Frame, ReceiveResponse
    <2> DEFINE content == <<Event("_q_setContent", r, f.code)>>
               last == IF Accepted(t).observe THEN <<Event("_q_setNotified", r, "-")>>
                       ELSE IF IsMulticast(t) THEN <<>>
                       ELSE <<Event("_q_setFinished", r, "-")>>
    <2>2. Post(r, content \o last)
      BY <1>3, <1>6 DEF ReceiveResponse
    <2>3. content \in Seq(UserEvent) /\ \A i \in DOMAIN content : content[i].slot # "clientFinished"
      BY <2>1 DEF Event, UserEvent
    <2>4. last \in Seq(UserEvent) /\ \A i \in DOMAIN last : last[i].slot # "clientFinished"
      <3>1. CASE last = <<Event("_q_setNotified", r, "-")>>
        <4> HIDE DEF last
        <4> QED
          BY <3>1 DEF Event, UserEvent
      <3>2. CASE last = <<Event("_q_setFinished", r, "-")>>
        <4> HIDE DEF last
        <4> QED
          BY <3>2 DEF Event, UserEvent
      <3>3. CASE last = <<>>
        <4> HIDE DEF last
        <4> QED
          BY <3>3
      <3> QED
        BY <3>1, <3>2, <3>3
    <2> HIDE DEF content, last
    <2>5. content \o last \in Seq(UserEvent)
          /\ \A i \in DOMAIN (content \o last) : (content \o last)[i].slot # "clientFinished"
      BY <2>3, <2>4
    <2>6. RelaysKept
      BY <2>2, <2>5, PostedRelays
    <2> QED
      BY <1>2, <2>6, WorkerRelayed
  <1> QED
    BY <1>4, <1>5, <1>6 DEF OnFrameReceived, ReceiveBlock, ReceiveUnwanted, ReceiveEmptyAck

LEMMA TimerRelayed ==
    ASSUME TypeOK, Relayed, NEW t \in Tokens, OnRequestTimeout(t) \/ FireTimer(t) PROVE Relayed'
  <1>1. Registered(t) /\ UNCHANGED <<reply, signals, protocolQueue>>
    BY DEF OnRequestTimeout, FireTimer, OnRequestMaxTransmissionSpanReached,
           OnMulticastRequestExpired, OnRequestError
  <1>2. PICK r \in Replies : r = exchangeMap[t].reply
    BY <1>1, RegisteredType DEF Exchange
  <1>3. CASE UNCHANGED userQueue
    BY <1>1, <1>3, WorkerRelayed DEF RelaysKept, Fewer
  <1>4. ASSUME NEW s \in Seq(UserEvent), Post(r, s), \A i \in DOMAIN s : s[i].slot # "clientFinished"
        PROVE  Relayed'
    BY <1>1, <1>4, PostedRelays, WorkerRelayed
  <1>5. CASE OnRequestError(t)
    <2>1. /\ ErrorEvents(r) \in Seq(UserEvent)
          /\ \A i \in DOMAIN ErrorEvents(r) : ErrorEvents(r)[i].slot # "clientFinished"
      BY DEF ErrorEvents, Event, UserEvent
    <2> QED
      BY <1>2, <1>4, <1>5, <2>1 DEF OnRequestError
  <1>6. CASE OnMulticastRequestExpired(t)
    <2> DEFINE s == <<Event("_q_setFinished", r, "-")>>
    <2>1. s \in Seq(UserEvent) /\ \A i \in DOMAIN s : s[i].slot # "clientFinished"
      BY DEF Event, UserEvent
    <2> QED
      BY <1>2, <1>4, <1>6, <2>1 DEF OnMulticastRequestExpired
  <1> QED
    BY <1>3, <1>5, <1>6 DEF OnRequestTimeout, FireTimer, OnRequestMaxTransmissionSpanReached

\* The client announces a reply at most as often as the reply announced its end, whatever is
\* still on the way when it is aborted, deleted or cancelled.
THEOREM ClientFollows == Spec => []ClientFollowsReply
  <1>1. Init => Relayed
    <2> SUFFICES ASSUME Init PROVE Relayed
      OBVIOUS
    <2>1. \A e : ~Holds(<<>>, e) /\ AtMostOnce(<<>>, e)
      BY DEF Holds, AtMostOnce
    <2> QED
      BY <2>1 DEF Init, Relayed, Unrelayed
  <1>2. TypeOK /\ Relayed /\ [Next]_vars => Relayed'
    <2> SUFFICES ASSUME TypeOK, Relayed, [Next]_vars PROVE Relayed'
      OBVIOUS
    <2>1. CASE UNCHANGED vars
      BY <2>1, WorkerRelayed DEF vars, RelaysKept, Fewer
    <2> QED
      BY <2>1, UserRelayed, SlotRelayed, HandleRelayed, FrameRelayed, TimerRelayed DEF Next
  <1>3. TypeOK /\ Relayed /\ FinishedOnce => ClientFollowsReply
    <2> SUFFICES ASSUME TypeOK, Relayed, FinishedOnce, NEW r \in Replies
                 PROVE  signals[r].client <= signals[r].finished
      BY DEF ClientFollowsReply
    <2>1. signals[r].client \in Nat
      BY DEF TypeOK, Signals
    <2>2. CASE reply[r].finished
      BY <2>1, <2>2 DEF Relayed, FinishedOnce
    <2>3. CASE ~reply[r].finished
      BY <2>1, <2>3 DEF Relayed, FinishedOnce, Unrelayed
    <2> QED
      BY <2>2, <2>3
  <1> QED
    BY <1>1, <1>2, <1>3, TypeCorrect, FinishedExactlyOnce, PTL DEF Spec

(***************************************************************************)
(* What the client is told.  The worker connects finished() of a reply     *)
(* before it registers an exchange, so that it is connected when an end is *)
(* posted; the signal of a request that completes is therefore relayed.    *)
(***************************************************************************)

\* Whatever has an exchange, or an end on its way, is connected.
Connected ==
    /\ \A t \in Tokens : Registered(t) => reply[exchangeMap[t].reply].connected
    /\ \A r \in Replies : Holds(userQueue, End(r)) => reply[r].connected

OnTheWay(r) == Holds(userQueue, Relay(r)) \/ Holds(protocolQueue, Finish(r))

Announced ==
    \A r \in Replies : signals[r].cause = "completed" /\ signals[r].client = 0 => OnTheWay(r)

ConnectedKept == \A r \in Replies : reply[r].connected => reply'[r].connected
WaysKept == \A r \in Replies : OnTheWay(r) => OnTheWay(r)'

LEMMA KeptConnected ==
    ASSUME TypeOK, Connected, ConnectedKept, OwnersKept,
           \A r \in Replies : Holds(userQueue', End(r)) =>
                                 Holds(userQueue, End(r)) \/ reply[r].connected
    PROVE  Connected'
  <1>1. \A t \in Tokens : Registered(t) => exchangeMap[t].reply \in Replies
    BY RegisteredType DEF Exchange
  <1> QED
    BY <1>1 DEF Connected, ConnectedKept, OwnersKept

\* What is added to the queues leaves what is on its way.
LEMMA AddedWays ==
    ASSUME TypeOK, NEW s \in Seq(UserEvent), NEW w \in Seq(ProtocolEvent),
           userQueue' = userQueue \o s, protocolQueue' = protocolQueue \o w
    PROVE  WaysKept
  BY StaysInQueue DEF TypeOK, WaysKept, OnTheWay

LEMMA UserTold ==
    ASSUME TypeOK, Connected, Announced, UserOperation PROVE Connected' /\ Announced'
  <1>1. UNCHANGED <<userQueue, exchangeMap>>
    BY DEF UserOperation, Send, Abort, Delete, CancelObserve, CancelObserveUrl
  <1>2. protocolQueue \in Seq(ProtocolEvent) /\ userQueue' = userQueue
    BY <1>1 DEF TypeOK
  <1>3. ConnectedKept
    <2>1. CASE UNCHANGED reply
      BY <2>1 DEF ConnectedKept
    <2>2. ASSUME NEW r \in Replies, Send(r) PROVE ConnectedKept
      BY <2>2 DEF Send, ConnectedKept, TypeOK, Reply
    <2>3. ASSUME NEW r \in Replies, NEW stage, AbortReply(r, stage) PROVE ConnectedKept
      BY <2>3 DEF AbortReply, ConnectedKept, TypeOK, Reply
    <2> QED
      BY <2>1, <2>2, <2>3 DEF UserOperation, Abort, Delete, CancelObserve, CancelObserveUrl
  <1>4. Connected'
    BY <1>1, <1>3, KeptConnected DEF OwnersKept, Registered
  <1>5. ASSUME NEW w \in Seq(ProtocolEvent), protocolQueue' = protocolQueue \o w PROVE WaysKept
    BY <1>2, <1>5, StaysInQueue DEF WaysKept, OnTheWay
  <1>6. ASSUME NEW e \in ProtocolEvent, protocolQueue' = Append(protocolQueue, e), UNCHANGED signals
        PROVE  Announced'
    <2>1. protocolQueue' = protocolQueue \o <<e>> /\ <<e>> \in Seq(ProtocolEvent)
      BY <1>2, <1>6
    <2>2. WaysKept
      BY <1>5, <2>1
    <2> QED
      BY <1>6, <2>2 DEF Announced, WaysKept
  <1>7. ASSUME NEW r \in Replies, Send(r) PROVE Announced'
    BY <1>6, <1>7 DEF Send, ProtocolEvent
  <1>8. ASSUME NEW r \in Replies, CancelObserve(r) PROVE Announced'
    BY <1>6, <1>8 DEF CancelObserve, ProtocolEvent
  <1>9. ASSUME NEW h \in Targets, CancelObserveUrl(h) PROVE Announced'
    BY <1>6, <1>9, HostAssumption DEF CancelObserveUrl, ProtocolEvent
  <1>10. ASSUME NEW r \in Replies, NEW stage, AbortReply(r, stage) PROVE Announced'
    <2>1. /\ [op |-> "finished", arg |-> r] \in ProtocolEvent
          /\ [op |-> "aborted", arg |-> reply[r].token] \in ProtocolEvent
      BY DEF ProtocolEvent, TypeOK, Reply
    <2>2. AbortEvents(r) \in Seq(ProtocolEvent)
      BY <2>1 DEF AbortEvents
    <2>3. WaysKept
      BY <1>5, <1>10, <2>2 DEF AbortReply
    <2>4. \A q \in Replies : \/ signals'[q] = signals[q]
                             \/ signals'[q].cause = "withdrawn"
      BY <1>10, FinishedSignals DEF AbortReply
    <2> QED
      BY <2>3, <2>4 DEF Announced, WaysKept
  <1> QED
    BY <1>4, <1>7, <1>8, <1>9, <1>10 DEF UserOperation, Abort, Delete

LEMMA SlotTold ==
    ASSUME TypeOK, Connected, Announced, RunSlot PROVE Connected' /\ Announced'
  <1> SUFFICES ASSUME NEW r \in Replies,
                      \/ SetRunning(r) \/ SetContent(r) \/ SetNotified(r) \/ SetFinished(r)
                      \/ SetError(r) \/ SetObserveCancelled(r) \/ ClientFinished(r)
                      \/ \E s \in ReplySlots : DropEvent(s, r)
               PROVE  Connected' /\ Announced'
    BY DEF RunSlot
  <1>1. PICK s : NextSlot(s, r)
    BY DEF SetRunning, SetContent, SetNotified, SetFinished, SetError, SetObserveCancelled,
       ClientFinished, DropEvent
  <1>2. /\ userQueue \in Seq(UserEvent) /\ userQueue # <<>> /\ userQueue' = Tail(userQueue)
        /\ protocolQueue \in Seq(ProtocolEvent) /\ UNCHANGED exchangeMap
    BY <1>1 DEF NextSlot, TypeOK
  <1>3. ConnectedKept
    <2>1. CASE UNCHANGED reply
      BY <2>1 DEF ConnectedKept
    <2>2. CASE SetRunning(r)
      BY <2>2 DEF SetRunning, ConnectedKept, TypeOK, Reply
    <2>3. CASE SetContent(r)
      BY <2>3 DEF SetContent, ConnectedKept, TypeOK, Reply
    <2>4. CASE SetError(r)
      BY <2>4 DEF SetError, ConnectedKept, TypeOK, Reply
    <2>5. ASSUME NEW cause, EmitFinished(r, cause) PROVE ConnectedKept
      BY <2>5 DEF EmitFinished, ConnectedKept, TypeOK, Reply
    <2>6. CASE SetObserveCancelled(r)
      <3>1. CASE reply' = [reply EXCEPT ![r].running = FALSE]
        BY <3>1 DEF ConnectedKept, TypeOK, Reply
      <3> QED
        BY <2>5, <2>6, <3>1 DEF SetObserveCancelled
    <2>7. CASE SetNotified(r) \/ SetFinished(r) \/ ClientFinished(r) \/ \E x \in ReplySlots : DropEvent(x, r)
      BY <2>1, <2>5, <2>7 DEF SetNotified, SetFinished, ClientFinished, DropEvent
    <2> QED
      BY <2>2, <2>3, <2>4, <2>6, <2>7
  <1>4. Connected'
    <2>1. OwnersKept
      BY <1>2 DEF OwnersKept, Registered
    <2>2. EndsKept
      BY <1>1, TakenEnds
    <2> QED
      BY <1>3, <2>1, <2>2, KeptConnected DEF EndsKept
  <1>5. FinishedEvents(r) \in Seq(ProtocolEvent)
    <2>1. [op |-> "finished", arg |-> r] \in ProtocolEvent
      BY DEF ProtocolEvent
    <2> QED
      BY <2>1 DEF FinishedEvents
  <1>6. /\ UNCHANGED protocolQueue => \A q \in Replies : Holds(protocolQueue, Finish(q)) => Holds(protocolQueue', Finish(q))
        /\ protocolQueue' = protocolQueue \o FinishedEvents(r) =>
              \A q \in Replies : Holds(protocolQueue, Finish(q)) => Holds(protocolQueue', Finish(q))
    BY <1>2, <1>5, StaysInQueue
  <1>7. \A q \in Replies : Holds(protocolQueue, Finish(q)) => Holds(protocolQueue', Finish(q))
    BY <1>6 DEF SetRunning, SetContent, SetNotified, SetFinished, SetError,
       SetObserveCancelled, EmitFinished, ClientFinished, DropEvent
  <1>8. CASE ClientFinished(r)
    <2>1. Head(userQueue) = Relay(r)
      <3>1. Head(userQueue) \in UserEvent
        BY <1>2
      <3>2. Head(userQueue).slot = "clientFinished" /\ Head(userQueue).reply = r
        BY <1>8 DEF ClientFinished, NextSlot
      <3> QED
        BY <3>1, <3>2 DEF UserEvent, Relay, Event
    <2>2. /\ signals'[r].client # 0
          /\ \A q \in Replies \ {r} : signals'[q] = signals[q]
      BY <1>8 DEF ClientFinished, TypeOK, Signals
    <2>3. \A q \in Replies \ {r} : Relay(q) # Relay(r)
      BY DEF Relay, Event
    <2>4. \A q \in Replies \ {r} : Holds(userQueue, Relay(q)) => Holds(userQueue', Relay(q))
      BY <1>2, <2>1, <2>3, StaysInQueue
    <2>5. Announced'
      BY <1>7, <2>2, <2>4 DEF Announced, OnTheWay
    <2> QED
      BY <1>4, <2>5
  <1>9. CASE ~ClientFinished(r)
    <2>1. Head(userQueue).slot \in ReplySlots
      BY <1>9 DEF SetRunning, SetContent, SetNotified, SetFinished, SetError, SetObserveCancelled,
         DropEvent, NextSlot, ReplySlots
    <2>2. \A q \in Replies : Head(userQueue) # Relay(q)
      BY <2>1 DEF Relay, Event, ReplySlots
    <2>3. \A q \in Replies : Holds(userQueue, Relay(q)) => Holds(userQueue', Relay(q))
      BY <1>2, <2>2, StaysInQueue
    <2>4. WaysKept
      BY <1>7, <2>3 DEF WaysKept, OnTheWay
    <2>5. CASE UNCHANGED signals
      BY <1>4, <2>4, <2>5 DEF Announced, WaysKept
    <2>6. CASE EmitFinished(r, "withdrawn")
      <3>1. \A q \in Replies : signals'[q] = signals[q] \/ signals'[q].cause = "withdrawn"
        BY <2>6, FinishedSignals DEF EmitFinished
      <3> QED
        BY <1>4, <2>4, <3>1 DEF Announced, WaysKept
    <2>7. CASE SetFinished(r) /\ EmitFinished(r, "completed")
      <3>1. Head(userQueue) \in UserEvent
        BY <1>2
      <3>2. Head(userQueue) = End(r)
        BY <2>7, <3>1 DEF SetFinished, NextSlot, UserEvent, End, Event
      <3>3. reply[r].connected
        BY <1>2, <3>2, TakenEvents DEF Connected
      <3>4. protocolQueue' = protocolQueue \o <<Finish(r)>>
        BY <2>7, <3>3 DEF EmitFinished, FinishedEvents, Finish
      <3>5. <<Finish(r)>> \in Seq(ProtocolEvent)
        BY DEF Finish, ProtocolEvent
      <3>6. Len(protocolQueue) + 1 \in DOMAIN protocolQueue' /\ protocolQueue'[Len(protocolQueue) + 1] = Finish(r)
        BY <1>2, <3>4, <3>5, ConcatProperties
      <3>7. OnTheWay(r)'
        BY <3>6 DEF OnTheWay, Holds
      <3>8. \A q \in Replies \ {r} : signals'[q] = signals[q]
        BY <2>7, FinishedSignals DEF EmitFinished
      <3> QED
        BY <1>4, <2>4, <3>7, <3>8 DEF Announced, WaysKept
    <2> QED
      BY <1>9, <2>5, <2>6, <2>7 DEF SetRunning, SetContent, SetNotified, SetFinished, SetError,
         SetObserveCancelled, DropEvent
  <1> QED
    BY <1>8, <1>9

\* The worker handles an event other than the signal of a reply.
LEMMA HandledTold ==
    ASSUME TypeOK, Connected, Announced, NEW op, NEW a, NextEvent(op, a), op # "finished",
           NEW s \in Seq(UserEvent), userQueue' = userQueue \o s, UNCHANGED signals
    PROVE  Announced'
  <1>1. /\ protocolQueue \in Seq(ProtocolEvent) /\ protocolQueue # <<>>
        /\ protocolQueue' = Tail(protocolQueue) /\ userQueue \in Seq(UserEvent)
    BY DEF NextEvent, TypeOK
  <1>2. \A q \in Replies : Finish(q) # Head(protocolQueue)
    BY DEF NextEvent, Finish
  <1>3. WaysKept
    BY <1>1, <1>2, StaysInQueue DEF WaysKept, OnTheWay
  <1> QED
    BY <1>3 DEF Announced, WaysKept

LEMMA HandleTold ==
    ASSUME TypeOK, Connected, Announced, HandleEvent PROVE Connected' /\ Announced'
  <1>1. userQueue \in Seq(UserEvent) /\ <<>> \in Seq(UserEvent) /\ userQueue = userQueue \o <<>>
    BY DEF TypeOK
  <1>2. ASSUME NEW r \in Replies, StartRequest(r) PROVE Connected' /\ Announced'
    <2> DEFINE new(m) == [reply |-> r, mid |-> m, observe |-> reply[r].observe,
                          cancelled |-> FALSE, inProgress |-> FALSE, counter |-> 0]
    <2>1. reply[r].token \in Tokens \cup {EmptyToken} /\ reply[r].observe \in BOOLEAN
      BY DEF TypeOK, Reply
    <2>2. PICK m \in FreeIds,
               t \in (IF reply[r].token = EmptyToken THEN FreeTokens ELSE {reply[r].token}) :
             /\ Transmit(t, new(m), reply[r].host)
             /\ Post(r, <<Event("_q_setRunning", r, t)>>)
      BY <1>2 DEF StartRequest
    <2>3. t \in Tokens
      BY <2>1, <2>2 DEF FreeTokens
    <2>4. Restarted(new(m)).reply = r
      BY DEF Restarted
    <2> HIDE DEF new
    <2>5. /\ exchangeMap'[t].reply = r
          /\ \A x \in Tokens \ {t} : exchangeMap'[x] = exchangeMap[x]
      BY <2>2, <2>3, <2>4 DEF Transmit, TypeOK
    <2>6. reply'[r].connected /\ ConnectedKept
      BY <1>2 DEF StartRequest, ConnectedKept, TypeOK, Reply
    <2> DEFINE posted == <<Event("_q_setRunning", r, t)>>
    <2>7. posted \in Seq(UserEvent) /\ \A i \in DOMAIN posted : posted[i].slot # "_q_setFinished"
      BY <2>3 DEF Event, UserEvent
    <2>8. EndsKept
      BY <2>2, <2>7, PostedOthers
    <2>9. Connected'
      <3>1. \A x \in Tokens : Registered(x) => exchangeMap[x].reply \in Replies
        BY RegisteredType DEF Exchange
      <3> QED
        BY <2>5, <2>6, <2>8, <3>1 DEF Connected, ConnectedKept, EndsKept, Registered
    <2>10. userQueue' = userQueue \o posted
      BY <1>2, <2>2 DEF Post, StartRequest
    <2> HIDE DEF posted
    <2>11. Announced'
      BY <1>2, <2>7, <2>10, HandledTold DEF StartRequest
    <2> QED
      BY <2>9, <2>11
  <1>3. ASSUME NEW r \in Replies, SkipRequest(r) PROVE Connected' /\ Announced'
    <2>1. Connected'
      BY <1>3 DEF SkipRequest, Connected, Registered
    <2>2. Announced'
      BY <1>1, <1>3, HandledTold DEF SkipRequest
    <2> QED
      BY <2>1, <2>2
  <1>4. ASSUME NEW rs \in Seq(Replies), CancelAll(rs), UNCHANGED <<reply, signals>>,
               NEW op, NEW a, NextEvent(op, a), op # "finished"
        PROVE  Connected' /\ Announced'
    <2>1. OwnersKept /\ EndsKept
      BY <1>4, CancelAllEnds
    <2>2. Connected'
      BY <1>4, <2>1, KeptConnected DEF ConnectedKept, EndsKept
    <2> DEFINE told == [i \in DOMAIN rs |-> Event("_q_setObserveCancelled", rs[i], "-")]
    <2>3. told \in Seq(UserEvent)
      BY DEF Event, UserEvent
    <2>4. userQueue' = userQueue \o told
      BY <1>4 DEF CancelAll
    <2> HIDE DEF told
    <2>5. Announced'
      BY <1>4, <2>3, <2>4, HandledTold
    <2> QED
      BY <2>2, <2>5
  <1>5. ASSUME UNCHANGED <<reply, signals, exchangeMap, userQueue>>,
               NEW op, NEW a, NextEvent(op, a), op # "finished"
        PROVE  Connected' /\ Announced'
    <2>1. Connected'
      BY <1>5 DEF Connected, Registered
    <2>2. userQueue' = userQueue \o <<>>
      BY <1>1, <1>5
    <2>3. Announced'
      BY <1>1, <1>5, <2>2, HandledTold
    <2> QED
      BY <2>1, <2>3
  <1>6. ASSUME NEW r \in Replies, OnCancelObserve(r) PROVE Connected' /\ Announced'
    <2>1. <<r>> \in Seq(Replies)
      OBVIOUS
    <2>2. NextEvent("cancelObserve", r) /\ UNCHANGED <<reply, signals>>
      BY <1>6 DEF OnCancelObserve
    <2>3. CancelAll(<<r>>) \/ UNCHANGED <<exchangeMap, userQueue>>
      BY <1>6 DEF OnCancelObserve
    <2>4. CASE CancelAll(<<r>>)
      BY <1>4, <2>1, <2>2, <2>4
    <2>5. CASE UNCHANGED <<exchangeMap, userQueue>>
      BY <1>5, <2>2, <2>5
    <2> QED
      BY <2>3, <2>4, <2>5
  <1>7. ASSUME NEW h \in Hosts \cup {Group}, OnCancelObserveUrl(h) PROVE Connected' /\ Announced'
    <2> DEFINE owners == {exchangeMap[t].reply : t \in {x \in Tokens : Registered(x)}}
               chosen == {r \in owners : reply[r].host = h /\ (Tracked(r) => Cancellable(r))}
    <2>1. chosen \subseteq Replies
      BY RegisteredType DEF Exchange
    <2>2. NextEvent("cancelObserveUrl", h) /\ UNCHANGED <<reply, signals>>
      BY <1>7 DEF OnCancelObserveUrl
    <2>3. (\E rs \in SetToSeqs(chosen) : CancelAll(rs)) \/ UNCHANGED <<exchangeMap, userQueue>>
      BY <1>7 DEF OnCancelObserveUrl
    <2>4. CASE \E rs \in SetToSeqs(chosen) : CancelAll(rs)
      BY <1>4, <2>1, <2>2, <2>4, OrderType
    <2>5. CASE UNCHANGED <<exchangeMap, userQueue>>
      BY <1>5, <2>2, <2>5
    <2> QED
      BY <2>3, <2>4, <2>5
  <1>8. ASSUME NEW t \in Tokens \cup {EmptyToken}, OnRequestAborted(t) PROVE Connected' /\ Announced'
    <2>1. OwnersKept
      BY <1>8 DEF OnRequestAborted, Forget, OwnersKept, Registered, TypeOK
    <2>2. Connected'
      BY <1>8, <2>1, KeptConnected DEF OnRequestAborted, ConnectedKept
    <2>3. NextEvent("aborted", t) /\ UNCHANGED signals /\ userQueue' = userQueue \o <<>>
      BY <1>1, <1>8 DEF OnRequestAborted
    <2>4. Announced'
      BY <1>1, <2>3, HandledTold
    <2> QED
      BY <2>2, <2>4
  <1>9. ASSUME NEW r \in Replies, RelayFinished(r) PROVE Connected' /\ Announced'
    <2> DEFINE s == <<Relay(r)>>
    <2>1. s \in Seq(UserEvent) /\ userQueue' = userQueue \o s
      BY <1>1, <1>9 DEF RelayFinished, Relay, Event, UserEvent
    <2>2. /\ protocolQueue \in Seq(ProtocolEvent) /\ protocolQueue # <<>>
          /\ protocolQueue' = Tail(protocolQueue) /\ Head(protocolQueue) = Finish(r)
      BY <1>9 DEF RelayFinished, NextEvent, TypeOK, Finish
    <2>3. \A q \in Replies : ~Holds(s, End(q))
      BY DEF Holds, End, Relay, Event
    <2>4. Len(userQueue) + 1 \in DOMAIN userQueue' /\ userQueue'[Len(userQueue) + 1] = Relay(r)
      BY <1>1, <2>1, ConcatProperties
    <2> HIDE DEF s
    <2>5. \A q \in Replies : Holds(userQueue', End(q)) => Holds(userQueue, End(q))
      BY <1>1, <2>1, <2>3, AddedEvents
    <2>6. Connected'
      BY <1>9, <2>5, KeptConnected DEF RelayFinished, ConnectedKept, OwnersKept, Registered
    <2>7. OnTheWay(r)'
      BY <2>4 DEF OnTheWay, Holds
    <2>8. \A q \in Replies \ {r} : Finish(q) # Finish(r)
      BY DEF Finish
    <2>9. \A q \in Replies \ {r} : OnTheWay(q) => OnTheWay(q)'
      BY <1>1, <2>1, <2>2, <2>8, StaysInQueue DEF OnTheWay
    <2>10. UNCHANGED signals
      BY <1>9 DEF RelayFinished
    <2> QED
      BY <2>6, <2>7, <2>9, <2>10 DEF Announced
  <1> QED
    BY <1>2, <1>3, <1>6, <1>7, <1>8, <1>9 DEF HandleEvent

\* A frame or a timer posts events for the reply of a registered exchange.
LEMMA PostedTold ==
    ASSUME TypeOK, Connected, Announced, UNCHANGED <<reply, signals, protocolQueue>>, OwnersKept,
           NEW t \in Tokens, Registered(t), NEW s \in Seq(UserEvent),
           Post(exchangeMap[t].reply, s),
           \A i \in DOMAIN s : s[i].reply = exchangeMap[t].reply
    PROVE  Connected' /\ Announced'
  <1>1. PICK r \in Replies : r = exchangeMap[t].reply
    BY RegisteredType DEF Exchange
  <1>2. \A q \in Replies : Holds(s, End(q)) => q = r
    BY <1>1 DEF Holds, End, Event
  <1>3. \A q \in Replies : Holds(userQueue', End(q)) => Holds(userQueue, End(q)) \/ reply[q].connected
    BY <1>1, <1>2, PostedEnds DEF Connected
  <1>4. ConnectedKept
    BY DEF ConnectedKept
  <1>5. Connected'
    BY <1>3, <1>4, KeptConnected
  <1>6. userQueue \in Seq(UserEvent) /\ <<>> \in Seq(UserEvent)
    BY DEF TypeOK
  <1>7. userQueue' = userQueue \o s \/ userQueue' = userQueue \o <<>>
    BY DEF Post
  <1>8. \A q \in Replies : Holds(userQueue, Relay(q)) => Holds(userQueue', Relay(q))
    BY <1>6, <1>7, StaysInQueue
  <1>9. Announced'
    BY <1>8 DEF Announced, OnTheWay
  <1> QED
    BY <1>5, <1>9

LEMMA QuietTold ==
    ASSUME TypeOK, Connected, Announced, UNCHANGED <<reply, signals, protocolQueue, userQueue>>,
           OwnersKept
    PROVE  Connected' /\ Announced'
  <1>1. Connected'
    BY KeptConnected DEF ConnectedKept
  <1> QED
    BY <1>1 DEF Announced, OnTheWay

LEMMA FrameTold ==
    ASSUME TypeOK, Connected, Announced, ReadFrame PROVE Connected' /\ Announced'
  <1> SUFFICES ASSUME NEW f \in ServerFrames, NEW t \in Tokens, OnFrameReceived(f, t)
               PROVE  Connected' /\ Announced'
    BY DEF ReadFrame
  <1>1. Registered(t)
    BY DEF OnFrameReceived, ReceiveError, ReceiveBlock, ReceiveUnwanted, ReceiveEmptyAck,
           ReceiveResponse, Matches
  <1>2. UNCHANGED <<reply, signals, protocolQueue>>
    BY DEF OnFrameReceived, ReceiveError, ReceiveBlock, ReceiveUnwanted, ReceiveEmptyAck,
           ReceiveResponse
  <1>3. PICK r \in Replies : r = exchangeMap[t].reply
    BY <1>1, RegisteredType DEF Exchange
  <1>4. ASSUME Forget(t) PROVE OwnersKept
    BY <1>4 DEF Forget, OwnersKept, Registered, TypeOK
  <1>5. ASSUME exchangeMap' = [exchangeMap EXCEPT ![t] = Accepted(t)] PROVE OwnersKept
    BY <1>1, <1>5, AcceptedType, OwnerKept
  <1>6. CASE ReceiveError(f, t)
    <2> DEFINE s == <<Event("_q_setContent", r, "Error"), Event("_q_setFinished", r, "-")>>
    <2>1. s \in Seq(UserEvent) /\ \A i \in DOMAIN s : s[i].reply = r
      BY DEF Event, UserEvent
    <2>2. Post(r, s) /\ OwnersKept
      BY <1>3, <1>4, <1>6 DEF ReceiveError
    <2> HIDE DEF s
    <2> QED
      BY <1>1, <1>2, <1>3, <2>1, <2>2, PostedTold
  <1>7. CASE ReceiveBlock(f, t)
    <2>1. PICK m \in FreeIds :
             Transmit(t, [Accepted(t) EXCEPT !.mid = m],
                      IF f.next = "receive" THEN f.from ELSE reply[r].host)
      BY <1>3, <1>7 DEF ReceiveBlock
    <2>2. Restarted([Accepted(t) EXCEPT !.mid = m]).reply = exchangeMap[t].reply
      BY <1>1, <2>1, AcceptedType DEF Restarted, Exchange
    <2>3. OwnersKept
      BY <1>1, <2>1, <2>2, OwnerKept DEF Transmit
    <2> QED
      BY <1>2, <1>7, <2>3, QuietTold DEF ReceiveBlock
  <1>8. CASE ReceiveUnwanted(f, t)
    BY <1>2, <1>4, <1>8, QuietTold DEF ReceiveUnwanted
  <1>9. CASE ReceiveEmptyAck(f, t)
    BY <1>2, <1>5, <1>9, QuietTold DEF ReceiveEmptyAck
  <1>10. CASE ReceiveResponse(f, t)
    <2>1. f.code \in {"Empty", "Content"}
      BY <1>10, FrameType DEF Frame, ReceiveResponse
    <2> DEFINE content == <<Event("_q_setContent", r, f.code)>>
               last == IF Accepted(t).observe THEN <<Event("_q_setNotified", r, "-")>>
                       ELSE IF IsMulticast(t) THEN <<>>
                       ELSE <<Event("_q_setFinished", r, "-")>>
    <2>2. Post(r, content \o last) /\ OwnersKept
      BY <1>3, <1>4, <1>5, <1>10 DEF ReceiveResponse
    <2>3. content \in Seq(UserEvent) /\ \A i \in DOMAIN content : content[i].reply = r
      BY <2>1 DEF Event, UserEvent
    <2>4. last \in Seq(UserEvent) /\ \A i \in DOMAIN last : last[i].reply = r
      <3>1. CASE last = <<Event("_q_setNotified", r, "-")>>
        <4> HIDE DEF last
        <4> QED
          BY <3>1 DEF Event, UserEvent
      <3>2. CASE last = <<Event("_q_setFinished", r, "-")>>
        <4> HIDE DEF last
        <4> QED
          BY <3>2 DEF Event, UserEvent
      <3>3. CASE last = <<>>
        <4> HIDE DEF last
        <4> QED
          BY <3>3
      <3> QED
        BY <3>1, <3>2, <3>3
    <2> HIDE DEF content, last
    <2>5. content \o last \in Seq(UserEvent)
          /\ \A i \in DOMAIN (content \o last) : (content \o last)[i].reply = r
      BY <2>3, <2>4
    <2> QED
      BY <1>1, <1>2, <1>3, <2>2, <2>5, PostedTold
  <1> QED
    BY <1>6, <1>7, <1>8, <1>9, <1>10 DEF OnFrameReceived

LEMMA TimerTold ==
    ASSUME TypeOK, Connected, Announced, NEW t \in Tokens, OnRequestTimeout(t) \/ FireTimer(t)
    PROVE  Connected' /\ Announced'
  <1>1. Registered(t) /\ UNCHANGED <<reply, signals, protocolQueue>>
    BY DEF OnRequestTimeout, FireTimer, OnRequestMaxTransmissionSpanReached,
           OnMulticastRequestExpired, OnRequestError
  <1>2. PICK r \in Replies : r = exchangeMap[t].reply
    BY <1>1, RegisteredType DEF Exchange
  <1>3. ASSUME Forget(t) PROVE OwnersKept
    BY <1>3 DEF Forget, OwnersKept, Registered, TypeOK
  <1>4. CASE OnRequestTimeout(t) /\ CanRetransmit(t)
    <2>1. Restarted(exchangeMap[t]).reply = exchangeMap[t].reply
      BY <1>1, RegisteredType DEF Restarted, Exchange
    <2>2. OwnersKept
      BY <1>1, <1>4, <2>1, OwnerKept DEF OnRequestTimeout, Transmit
    <2> QED
      BY <1>1, <1>4, <2>2, QuietTold DEF OnRequestTimeout
  <1>5. CASE OnRequestError(t)
    <2>1. /\ ErrorEvents(r) \in Seq(UserEvent)
          /\ \A i \in DOMAIN ErrorEvents(r) : ErrorEvents(r)[i].reply = r
      BY DEF ErrorEvents, Event, UserEvent
    <2>2. Post(r, ErrorEvents(r)) /\ OwnersKept
      BY <1>2, <1>3, <1>5 DEF OnRequestError
    <2> QED
      BY <1>1, <1>2, <2>1, <2>2, PostedTold
  <1>6. CASE OnMulticastRequestExpired(t)
    <2> DEFINE s == <<Event("_q_setFinished", r, "-")>>
    <2>1. s \in Seq(UserEvent) /\ \A i \in DOMAIN s : s[i].reply = r
      BY DEF Event, UserEvent
    <2>2. Post(r, s) /\ OwnersKept
      BY <1>2, <1>3, <1>6 DEF OnMulticastRequestExpired
    <2> HIDE DEF s
    <2> QED
      BY <1>1, <1>2, <2>1, <2>2, PostedTold
  <1> QED
    BY <1>4, <1>5, <1>6 DEF OnRequestTimeout, FireTimer, OnRequestMaxTransmissionSpanReached

\* A request that completes is announced by the client too, also when its reply is deleted at
\* once: as long as it has not been, the signal of the reply is in one of the queues.
THEOREM ClientsAreTold == Spec => []ClientIsTold
  <1>1. Init => Connected /\ Announced
    <2> SUFFICES ASSUME Init PROVE Connected /\ Announced
      OBVIOUS
    <2>1. \A e : ~Holds(<<>>, e)
      BY DEF Holds
    <2>2. \A r \in Replies : signals[r].cause = "none"
      BY DEF Init
    <2>3. \A t \in Tokens : ~Registered(t)
      BY DEF Init, Registered
    <2>4. Connected
      BY <2>1, <2>3 DEF Init, Connected
    <2> QED
      BY <2>2, <2>4 DEF Announced
  <1>2. TypeOK /\ Connected /\ Announced /\ [Next]_vars => Connected' /\ Announced'
    <2> SUFFICES ASSUME TypeOK, Connected, Announced, [Next]_vars PROVE Connected' /\ Announced'
      OBVIOUS
    <2>1. CASE UNCHANGED vars
      <3>1. OwnersKept
        BY <2>1 DEF vars, OwnersKept, Registered
      <3> QED
        BY <2>1, <3>1, QuietTold DEF vars
    <2> QED
      BY <2>1, UserTold, SlotTold, HandleTold, FrameTold, TimerTold DEF Next
  <1>3. TypeOK /\ Announced => ClientIsTold
    <2> SUFFICES ASSUME TypeOK, Announced, NEW r \in Replies, signals[r].cause = "completed",
                        signals[r].client = 0
                 PROVE  \/ Posted({"clientFinished"}, r)
                        \/ \E i \in DOMAIN protocolQueue : protocolQueue[i] = [op |-> "finished", arg |-> r]
      BY DEF ClientIsTold
    <2>1. OnTheWay(r)
      BY DEF Announced
    <2> QED
      BY <2>1 DEF OnTheWay, Holds, Relay, Event, Finish, Posted
  <1> QED
    BY <1>1, <1>2, <1>3, TypeCorrect, PTL DEF Spec

(***************************************************************************)
(* Tokens.  When the generator never returns a token used before and the   *)
(* user sets none, a token belongs to one reply for good: an abort, which  *)
(* the worker learns by token alone, cannot reach the exchange of another. *)
(***************************************************************************)

Starts(r, t) == Event("_q_setRunning", r, t)
Withdraws(t) == [op |-> "aborted", arg |-> t]

Used(t) == \E q \in wire : q.tok = t
Waits(r) == Alive(r) /\ ~reply[r].finished
Owned(r, t) == Registered(t) /\ exchangeMap[t].reply = r

\* The reply has its token, or is about to get it.
Knows(r, t) == reply[r].token = t \/ Holds(userQueue, Starts(r, t))
Unstarted(r) == /\ reply[r].token = EmptyToken /\ ~reply[r].running
                /\ \A t \in Tokens : ~Holds(userQueue, Starts(r, t))

TokenInv ==
    /\ \A r \in Replies :
          reply[r].stage = "none" \/ Holds(protocolQueue, Call(r)) => Unstarted(r)
    /\ \A r \in Replies : reply[r].running => reply[r].token \in Tokens
    /\ \A r \in Replies, t \in Tokens : Knows(r, t) => Used(t)
    /\ \A q, r \in Replies, t \in Tokens : Knows(q, t) /\ Knows(r, t) => q = r
    /\ \A t \in Tokens : Holds(protocolQueue, Withdraws(t)) =>
          Used(t) /\ \A r \in Replies : Knows(r, t) => reply[r].finished
    /\ \A r \in Replies, t \in Tokens :
          Waits(r) /\ Knows(r, t) => Owned(r, t) \/ Holds(userQueue, End(r))

\* What a step leaves as it is that starts no request.
StartsKept == \A r \in Replies, t \in Tokens :
                 Holds(userQueue', Starts(r, t)) => Holds(userQueue, Starts(r, t))
EndsStay == \A r \in Replies : Waits(r)' /\ Holds(userQueue, End(r)) => Holds(userQueue', End(r))
OwnersStay == \A r \in Replies, t \in Tokens :
                 Waits(r) /\ Waits(r)' /\ Knows(r, t) /\ Owned(r, t) =>
                    Owned(r, t)' \/ Holds(userQueue', End(r))
WithdrawalsKept == \A t \in Tokens :
                      Holds(protocolQueue', Withdraws(t)) => Holds(protocolQueue, Withdraws(t))

LEMMA KeptTokens ==
    ASSUME TypeOK, TokenInv, wire \subseteq wire', FinishedKept, EndsStay, OwnersStay,
           \A r \in Replies : reply'[r].stage = "none" \/ Holds(protocolQueue', Call(r)) =>
              reply[r].stage = "none" \/ Holds(protocolQueue, Call(r)),
           \A r \in Replies : Unstarted(r) => Unstarted(r)',
           \A r \in Replies : reply'[r].running => reply'[r].token \in Tokens,
           \A r \in Replies, t \in Tokens : Knows(r, t)' => Knows(r, t),
           \A r \in Replies : Waits(r)' => Waits(r) \/ reply[r].stage = "none",
           \A t \in Tokens : Holds(protocolQueue', Withdraws(t)) =>
              \/ Holds(protocolQueue, Withdraws(t))
              \/ \E r \in Replies : Knows(r, t) /\ reply'[r].finished
    PROVE  TokenInv'
  <1>1. \A t \in Tokens : Used(t) => Used(t)'
    BY DEF Used
  <1>2. \A r \in Replies :
           reply'[r].stage = "none" \/ Holds(protocolQueue', Call(r)) => Unstarted(r)'
    BY DEF TokenInv
  <1>3. \A r \in Replies, t \in Tokens : Knows(r, t)' => Used(t)'
    BY <1>1 DEF TokenInv
  <1>4. \A q, r \in Replies, t \in Tokens : Knows(q, t)' /\ Knows(r, t)' => q = r
    BY DEF TokenInv
  <1>5. ASSUME NEW t \in Tokens, Holds(protocolQueue', Withdraws(t))
        PROVE  Used(t)' /\ \A r \in Replies : Knows(r, t)' => reply'[r].finished
    <2>1. CASE Holds(protocolQueue, Withdraws(t))
      BY <1>1, <2>1 DEF TokenInv, FinishedKept
    <2>2. CASE \E r \in Replies : Knows(r, t) /\ reply'[r].finished
      BY <1>1, <2>2 DEF TokenInv
    <2> QED
      BY <1>5, <2>1, <2>2
  <1>6. ASSUME NEW r \in Replies, NEW t \in Tokens, Waits(r)', Knows(r, t)'
        PROVE  Owned(r, t)' \/ Holds(userQueue', End(r))
    <2>1. Knows(r, t)
      BY <1>6
    <2>2. ~Unstarted(r)
      BY <2>1, TokenAssumption DEF Unstarted, Knows
    <2>3. Waits(r)
      BY <1>6, <2>2 DEF TokenInv
    <2>4. CASE Owned(r, t)
      BY <1>6, <2>1, <2>3, <2>4 DEF OwnersStay
    <2>5. CASE Holds(userQueue, End(r))
      BY <1>6, <2>5 DEF EndsStay
    <2> QED
      BY <2>1, <2>3, <2>4, <2>5 DEF TokenInv
  <1> QED
    BY <1>2, <1>3, <1>4, <1>5, <1>6 DEF TokenInv

\* A step of the worker that leaves the replies alone.
LEMMA WorkerTokens ==
    ASSUME TypeOK, TokenInv, UNCHANGED reply, wire \subseteq wire', CallsKept, StartsKept,
           EndsStay, OwnersStay, WithdrawalsKept
    PROVE  TokenInv'
  <1>1. FinishedKept
    BY DEF FinishedKept
  <1>2. \A r \in Replies : Unstarted(r) => Unstarted(r)'
    BY DEF Unstarted, StartsKept
  <1>3. \A r \in Replies, t \in Tokens : Knows(r, t)' => Knows(r, t)
    BY DEF Knows, StartsKept
  <1>4. \A r \in Replies : Waits(r)' => Waits(r)
    BY DEF Waits, Alive
  <1>5. \A r \in Replies : reply'[r].running => reply'[r].token \in Tokens
    BY DEF TokenInv
  <1>6. \A r \in Replies : reply'[r].stage = "none" \/ Holds(protocolQueue', Call(r)) =>
           reply[r].stage = "none" \/ Holds(protocolQueue, Call(r))
    BY DEF CallsKept
  <1> QED
    BY <1>1, <1>2, <1>3, <1>4, <1>5, <1>6, KeptTokens DEF WithdrawalsKept

\* What is posted to a reply leaves the events that wait for it in the queue.
LEMMA PostedTokens ==
    ASSUME TypeOK, NEW r \in Replies, NEW s \in Seq(UserEvent), Post(r, s),
           \A i \in DOMAIN s : s[i].slot # "_q_setRunning"
    PROVE  StartsKept /\ EndsStay /\ (Alive(r) /\ Holds(s, End(r)) => Holds(userQueue', End(r)))
  <1>1. userQueue \in Seq(UserEvent) /\ <<>> \in Seq(UserEvent)
    BY DEF TypeOK
  <1>2. PICK w \in Seq(UserEvent) : w = (IF Alive(r) THEN s ELSE <<>>)
    BY <1>1
  <1>3. userQueue' = userQueue \o w
    BY <1>2 DEF Post
  <1>4. \A q \in Replies, t \in Tokens : ~Holds(w, Starts(q, t))
    BY <1>2 DEF Holds, Starts, Event
  <1>5. StartsKept
    BY <1>1, <1>2, <1>3, <1>4, AddedEvents DEF StartsKept
  <1>6. EndsStay
    BY <1>1, <1>2, <1>3, StaysInQueue DEF EndsStay
  <1>7. ASSUME Alive(r), NEW i \in DOMAIN s, s[i] = End(r) PROVE Holds(userQueue', End(r))
    <2>1. w = s /\ i \in 1..Len(s)
      BY <1>2, <1>7
    <2>2. /\ Len(userQueue \o s) = Len(userQueue) + Len(s)
          /\ Len(userQueue) + i \in 1..(Len(userQueue) + Len(s))
          /\ (userQueue \o s)[Len(userQueue) + i] = s[i]
      BY <1>1, <2>1, ConcatProperties
    <2>3. userQueue' = userQueue \o s /\ userQueue \o s \in Seq(UserEvent)
      BY <1>1, <1>3, <2>1
    <2>4. Len(userQueue) + i \in DOMAIN userQueue'
      BY <2>2, <2>3
    <2> QED
      BY <1>7, <2>2, <2>3, <2>4 DEF Holds
  <1> QED
    BY <1>5, <1>6, <1>7 DEF Holds

\* The reply of an exchange that is forgotten has its end posted, or is gone.
LEMMA ForgetTokens ==
    ASSUME TypeOK, NEW t \in Tokens, Forget(t), UNCHANGED reply,
           Waits(exchangeMap[t].reply) => Holds(userQueue', End(exchangeMap[t].reply))
    PROVE  OwnersStay
  <1>1. exchangeMap' = [exchangeMap EXCEPT ![t] = NoExchange]
    BY DEF Forget
  <1>2. \A s \in Tokens \ {t} : exchangeMap'[s] = exchangeMap[s]
    BY <1>1 DEF TypeOK
  <1> SUFFICES ASSUME NEW r \in Replies, NEW s \in Tokens, Waits(r), Owned(r, s)
               PROVE  Owned(r, s)' \/ Holds(userQueue', End(r))
    BY DEF OwnersStay
  <1>3. CASE s # t
    BY <1>2, <1>3 DEF Owned, Registered
  <1>4. CASE s = t
    BY <1>4 DEF Owned
  <1> QED
    BY <1>3, <1>4

\* An exchange that goes on stays its reply's.
LEMMA UpdatedTokens ==
    ASSUME TypeOK, NEW t \in Tokens, NEW e \in Exchange, e.reply = exchangeMap[t].reply,
           exchangeMap' = [exchangeMap EXCEPT ![t] = e]
    PROVE  OwnersStay
  <1>1. exchangeMap'[t] = e /\ \A s \in Tokens \ {t} : exchangeMap'[s] = exchangeMap[s]
    BY DEF TypeOK
  <1>2. e # NoExchange
    BY ExchangeAssumption
  <1> QED
    BY <1>1, <1>2 DEF OwnersStay, Owned, Registered

LEMMA CancelAllTokens ==
    ASSUME TypeOK, NEW rs \in Seq(Replies), CancelAll(rs)
    PROVE  StartsKept /\ EndsStay /\ OwnersStay
  <1> DEFINE s == [i \in DOMAIN rs |-> Event("_q_setObserveCancelled", rs[i], "-")]
  <1>1. s \in Seq(UserEvent)
    BY DEF Event, UserEvent
  <1>2. \A r \in Replies, t \in Tokens : ~Holds(s, Starts(r, t))
    BY DEF Holds, Starts, Event
  <1>3. userQueue' = userQueue \o s /\ userQueue \in Seq(UserEvent)
    BY DEF CancelAll, TypeOK
  <1> HIDE DEF s
  <1>4. StartsKept
    BY <1>1, <1>2, <1>3, AddedEvents DEF StartsKept
  <1>5. EndsStay
    BY <1>1, <1>3, StaysInQueue DEF EndsStay
  <1>6. ASSUME NEW r \in Replies, NEW t \in Tokens, Owned(r, t) PROVE Owned(r, t)'
    <2>1. \/ exchangeMap'[t] = exchangeMap[t]
          \/ exchangeMap'[t] = [exchangeMap[t] EXCEPT !.cancelled = TRUE]
      BY DEF CancelAll
    <2>2. /\ [exchangeMap[t] EXCEPT !.cancelled = TRUE] \in Exchange
          /\ [exchangeMap[t] EXCEPT !.cancelled = TRUE].reply = exchangeMap[t].reply
      BY <1>6, RegisteredType DEF Exchange, Owned
    <2> QED
      BY <1>6, <2>1, <2>2, ExchangeAssumption DEF Owned, Registered
  <1> QED
    BY <1>4, <1>5, <1>6 DEF OwnersStay

\* TokenInv holds initially; the next lemmas say that every step keeps it.
LEMMA InitTokens == Init => TokenInv
  <1> SUFFICES ASSUME Init PROVE TokenInv
    OBVIOUS
  <1>1. \A e : ~Holds(<<>>, e)
    BY DEF Holds
  <1>2. userQueue = <<>> /\ protocolQueue = <<>>
    BY DEF Init
  <1>3. \A r \in Replies : /\ reply[r].token = EmptyToken /\ ~reply[r].running
                           /\ reply[r].stage = "none"
    BY DEF Init
  <1>4. \A r \in Replies, t \in Tokens : ~Knows(r, t)
    BY <1>1, <1>2, <1>3, TokenAssumption DEF Knows
  <1>5. \A r \in Replies : Unstarted(r)
    BY <1>1, <1>2, <1>3 DEF Unstarted
  <1> QED
    BY <1>1, <1>2, <1>3, <1>4, <1>5 DEF TokenInv

\* An abort tells the worker the token that the finished reply knows.
LEMMA UserTokensKept ==
    ASSUME UserTokens \subseteq {EmptyToken}, TypeOK, TokenInv, UserOperation
    PROVE  TokenInv'
  <1>1. UNCHANGED <<userQueue, exchangeMap, wire>> /\ protocolQueue \in Seq(ProtocolEvent)
    BY DEF UserOperation, Send, Abort, Delete, CancelObserve, CancelObserveUrl, TypeOK
  <1>2. EndsStay /\ OwnersStay /\ StartsKept
    BY <1>1 DEF EndsStay, OwnersStay, StartsKept, Owned, Registered
  <1>3. ASSUME NEW r \in Replies, Send(r) PROVE TokenInv'
    <2>1. PICK h \in Targets, c \in Confirmables, o \in Observes :
             reply' = [reply EXCEPT ![r] = [reply[r] EXCEPT !.stage = "alive", !.host = h, !.con = c,
                                                !.observe = o, !.token = EmptyToken]]
      BY <1>3 DEF Send
    <2>2. /\ reply[r].stage = "none" /\ reply'[r].token = EmptyToken
          /\ reply'[r].stage = "alive"
          /\ reply'[r].running = reply[r].running /\ reply'[r].finished = reply[r].finished
          /\ \A q \in Replies \ {r} : reply'[q] = reply[q]
      BY <1>3, <2>1 DEF Send, TypeOK, Reply
    <2>3. Unstarted(r)
      BY <2>2 DEF TokenInv
    <2>4. /\ <<Call(r)>> \in Seq(ProtocolEvent) /\ protocolQueue' = protocolQueue \o <<Call(r)>>
          /\ \A q \in Replies \ {r} : ~Holds(<<Call(r)>>, Call(q))
          /\ \A t \in Tokens : ~Holds(<<Call(r)>>, Withdraws(t))
      BY <1>1, <1>3 DEF Send, Call, ProtocolEvent, Holds, Withdraws
    <2>5. \A q \in Replies \ {r} : Holds(protocolQueue', Call(q)) => Holds(protocolQueue, Call(q))
      BY <1>1, <2>4, AddedEvents
    <2>6. WithdrawalsKept
      BY <1>1, <2>4, AddedEvents DEF WithdrawalsKept
    <2>7. FinishedKept /\ wire \subseteq wire'
      BY <1>1, <2>2 DEF FinishedKept
    <2>8. \A q \in Replies : Unstarted(q) => Unstarted(q)'
      BY <1>1, <2>2 DEF Unstarted
    <2>9. \A q \in Replies, t \in Tokens : Knows(q, t)' => Knows(q, t)
      BY <1>1, <2>2, TokenAssumption DEF Knows
    <2>10. \A q \in Replies : reply'[q].running => reply'[q].token \in Tokens
      BY <2>2, <2>3 DEF TokenInv, Unstarted
    <2>11. \A q \in Replies : Waits(q)' => Waits(q) \/ reply[q].stage = "none"
      BY <2>2 DEF Waits, Alive
    <2>12. \A q \in Replies : reply'[q].stage = "none" \/ Holds(protocolQueue', Call(q)) =>
              reply[q].stage = "none" \/ Holds(protocolQueue, Call(q))
      BY <2>2, <2>5
    <2> QED
      BY <1>2, <2>6, <2>7, <2>8, <2>9, <2>10, <2>11, <2>12, KeptTokens DEF WithdrawalsKept
  <1>4. ASSUME NEW r \in Replies, NEW stage \in {"alive", "deleted"}, Alive(r), AbortReply(r, stage)
        PROVE  TokenInv'
    <2>1. /\ reply'[r].token = reply[r].token /\ reply'[r].stage = stage
          /\ ~reply'[r].running /\ reply'[r].finished
          /\ \A q \in Replies \ {r} : reply'[q] = reply[q]
      BY <1>4 DEF AbortReply, TypeOK, Reply
    <2>2. /\ [op |-> "finished", arg |-> r] \in ProtocolEvent
          /\ [op |-> "aborted", arg |-> reply[r].token] \in ProtocolEvent
      BY DEF ProtocolEvent, TypeOK, Reply
    <2>3. /\ AbortEvents(r) \in Seq(ProtocolEvent)
          /\ \A i \in DOMAIN AbortEvents(r) :
                \/ AbortEvents(r)[i] = Withdraws(reply[r].token)
                \/ AbortEvents(r)[i].op = "finished"
      BY <2>2 DEF AbortEvents, Withdraws
    <2>4. \A q \in Replies : ~Holds(AbortEvents(r), Call(q))
      BY <2>3 DEF Holds, Call, Withdraws
    <2>5. \A t \in Tokens : Holds(AbortEvents(r), Withdraws(t)) => t = reply[r].token
      BY <2>3 DEF Holds, Withdraws
    <2>6. protocolQueue' = protocolQueue \o AbortEvents(r)
      BY <1>4 DEF AbortReply
    <2>7. \A q \in Replies : Holds(protocolQueue', Call(q)) => Holds(protocolQueue, Call(q))
      BY <1>1, <2>3, <2>4, <2>6, AddedEvents
    <2>8. \A t \in Tokens : Holds(protocolQueue', Withdraws(t)) =>
             \/ Holds(protocolQueue, Withdraws(t))
             \/ \E q \in Replies : Knows(q, t) /\ reply'[q].finished
      <3>1. \A t \in Tokens : Holds(protocolQueue', Withdraws(t)) =>
               Holds(protocolQueue, Withdraws(t)) \/ Holds(AbortEvents(r), Withdraws(t))
        BY <1>1, <2>3, <2>6, AddedEvents
      <3> QED
        BY <2>1, <2>5, <3>1 DEF Knows
    <2>9. FinishedKept /\ wire \subseteq wire'
      BY <1>1, <2>1 DEF FinishedKept
    <2>10. \A q \in Replies : Unstarted(q) => Unstarted(q)'
      BY <1>1, <2>1 DEF Unstarted
    <2>11. \A q \in Replies, t \in Tokens : Knows(q, t)' => Knows(q, t)
      BY <1>1, <2>1 DEF Knows
    <2>12. \A q \in Replies : reply'[q].running => reply'[q].token \in Tokens
      BY <2>1 DEF TokenInv
    <2>13. \A q \in Replies : Waits(q)' => Waits(q)
      BY <2>1 DEF Waits, Alive
    <2>14. \A q \in Replies : reply'[q].stage = "none" \/ Holds(protocolQueue', Call(q)) =>
              reply[q].stage = "none" \/ Holds(protocolQueue, Call(q))
      BY <2>1, <2>7
    <2> QED
      BY <1>2, <2>8, <2>9, <2>10, <2>11, <2>12, <2>13, <2>14, KeptTokens
  <1>5. ASSUME NEW e \in ProtocolEvent, e.op \notin {"sendRequest", "aborted"},
               protocolQueue' = Append(protocolQueue, e), UNCHANGED reply
        PROVE  TokenInv'
    <2>1. protocolQueue' = protocolQueue \o <<e>> /\ <<e>> \in Seq(ProtocolEvent)
          /\ \A i \in DOMAIN <<e>> : <<e>>[i].op # "sendRequest"
      BY <1>1, <1>5
    <2>2. \A t \in Tokens : ~Holds(<<e>>, Withdraws(t))
      BY <1>5 DEF Holds, Withdraws
    <2>3. CallsKept /\ WithdrawalsKept
      BY <1>1, <2>1, <2>2, AddedCalls, AddedEvents DEF WithdrawalsKept
    <2> QED
      BY <1>1, <1>2, <1>5, <2>3, WorkerTokens
  <1>6. ASSUME NEW r \in Replies, CancelObserve(r) PROVE TokenInv'
    <2>1. [op |-> "cancelObserve", arg |-> r] \in ProtocolEvent
      BY DEF ProtocolEvent
    <2> QED
      BY <1>5, <1>6, <2>1 DEF CancelObserve
  <1>7. ASSUME NEW h \in Targets, CancelObserveUrl(h) PROVE TokenInv'
    <2>1. [op |-> "cancelObserveUrl", arg |-> h] \in ProtocolEvent
      BY HostAssumption DEF ProtocolEvent
    <2> QED
      BY <1>5, <1>7, <2>1 DEF CancelObserveUrl
  <1> QED
    BY <1>3, <1>4, <1>6, <1>7 DEF UserOperation, Abort, Delete

\* A slot takes its own event, so what it leaves in the queue is for later slots.
LEMMA SlotTokens == ASSUME TypeOK, TokenInv, RunSlot PROVE TokenInv'
  <1> SUFFICES ASSUME NEW r \in Replies,
                      \/ SetRunning(r) \/ SetContent(r) \/ SetNotified(r) \/ SetFinished(r)
                      \/ SetError(r) \/ SetObserveCancelled(r) \/ ClientFinished(r)
                      \/ \E s \in ReplySlots : DropEvent(s, r)
               PROVE  TokenInv'
    BY DEF RunSlot
  <1>1. PICK s : NextSlot(s, r)
    BY DEF SetRunning, SetContent, SetNotified, SetFinished, SetError, SetObserveCancelled,
       ClientFinished, DropEvent
  <1>2. /\ userQueue \in Seq(UserEvent) /\ userQueue # <<>> /\ userQueue' = Tail(userQueue)
        /\ protocolQueue \in Seq(ProtocolEvent) /\ UNCHANGED <<exchangeMap, wire>>
    BY <1>1 DEF NextSlot, TypeOK
  <1>3. StartsKept /\ OwnersStay /\ wire \subseteq wire'
    BY <1>2, TakenEvents DEF StartsKept, OwnersStay, Owned, Registered
  <1>4. CallsKept /\ WithdrawalsKept
    <2>1. CASE UNCHANGED protocolQueue
      BY <2>1 DEF CallsKept, WithdrawalsKept
    <2>2. CASE protocolQueue' = protocolQueue \o FinishedEvents(r)
      <3>1. [op |-> "finished", arg |-> r] \in ProtocolEvent
        BY DEF ProtocolEvent
      <3>2. /\ FinishedEvents(r) \in Seq(ProtocolEvent)
            /\ \A i \in DOMAIN FinishedEvents(r) : FinishedEvents(r)[i].op = "finished"
        BY <3>1 DEF FinishedEvents
      <3>3. \A t \in Tokens : ~Holds(FinishedEvents(r), Withdraws(t))
        BY <3>2 DEF Holds, Withdraws
      <3>4. WithdrawalsKept
        BY <1>2, <2>2, <3>2, <3>3, AddedEvents DEF WithdrawalsKept
      <3>5. \A i \in DOMAIN FinishedEvents(r) : FinishedEvents(r)[i].op # "sendRequest"
        BY <3>2
      <3> QED
        BY <2>2, <3>2, <3>4, <3>5, AddedCalls
    <2> QED
      BY <2>1, <2>2 DEF SetRunning, SetContent, SetNotified, SetFinished, SetError,
         SetObserveCancelled, ClientFinished, DropEvent, EmitFinished
  <1>5. /\ \A q \in Replies \ {r} : reply'[q] = reply[q]
        /\ reply'[r].stage = reply[r].stage
        /\ reply[r].finished => reply'[r].finished
    <2>1. CASE SetRunning(r)
      BY <2>1 DEF SetRunning, TypeOK, Reply
    <2>2. CASE SetContent(r)
      BY <2>2 DEF SetContent, TypeOK, Reply
    <2>3. CASE SetFinished(r) \/ SetObserveCancelled(r)
      BY <2>3 DEF SetFinished, SetObserveCancelled, EmitFinished, TypeOK, Reply
    <2>4. CASE SetError(r)
      BY <2>4 DEF SetError, TypeOK, Reply
    <2>5. CASE UNCHANGED reply
      BY <2>5
    <2> QED
      BY <2>1, <2>2, <2>3, <2>4, <2>5 DEF SetNotified, ClientFinished, DropEvent
  <1>6. \/ reply'[r].token = reply[r].token /\ (reply'[r].running => reply[r].running)
        \/ /\ \E t \in Tokens : reply'[r].token = t /\ Head(userQueue) = Starts(r, t)
    <2>1. CASE SetRunning(r)
      <3>1. /\ reply'[r].token = Head(userQueue).arg /\ Head(userQueue) \in UserEvent
            /\ Head(userQueue).slot = "_q_setRunning" /\ Head(userQueue).reply = r
        BY <1>2, <2>1 DEF SetRunning, NextSlot, TypeOK, Reply
      <3>2. Head(userQueue).arg \in Tokens /\ Head(userQueue) = Starts(r, Head(userQueue).arg)
        BY <3>1 DEF UserEvent, Starts, Event
      <3> QED
        BY <3>1, <3>2
    <2>2. CASE SetContent(r)
      BY <2>2 DEF SetContent, TypeOK, Reply
    <2>3. CASE SetFinished(r) \/ SetObserveCancelled(r)
      BY <2>3 DEF SetFinished, SetObserveCancelled, EmitFinished, TypeOK, Reply
    <2>4. CASE SetError(r)
      BY <2>4 DEF SetError, TypeOK, Reply
    <2>5. CASE UNCHANGED reply
      BY <2>5
    <2> QED
      BY <2>1, <2>2, <2>3, <2>4, <2>5 DEF SetNotified, ClientFinished, DropEvent
  <1>7. ASSUME Head(userQueue) = End(r) PROVE ~Waits(r)'
    <2>1. Head(userQueue).slot = "_q_setFinished"
      BY <1>7 DEF End, Event
    <2>2. SetFinished(r) \/ DropEvent("_q_setFinished", r)
      BY <2>1 DEF SetRunning, SetContent, SetNotified, SetError, SetObserveCancelled,
         ClientFinished, DropEvent, NextSlot
    <2>3. CASE SetFinished(r)
      <3>1. CASE reply[r].finished
        BY <2>3, <3>1 DEF SetFinished, Waits
      <3>2. CASE ~reply[r].finished
        <4>1. EmitFinished(r, "completed")
          BY <2>3, <3>2 DEF SetFinished
        <4>2. reply'[r].finished
          BY <4>1 DEF EmitFinished, TypeOK, Reply
        <4> QED
          BY <4>2 DEF Waits
      <3> QED
        BY <3>1, <3>2
    <2>4. CASE DropEvent("_q_setFinished", r)
      BY <2>4 DEF DropEvent, Waits, Alive
    <2> QED
      BY <2>2, <2>3, <2>4
  <1>8. EndsStay
    <2> SUFFICES ASSUME NEW q \in Replies, Waits(q)', Holds(userQueue, End(q))
                 PROVE  Holds(userQueue', End(q))
      BY DEF EndsStay
    <2>1. Head(userQueue).reply = r
      BY <1>1 DEF NextSlot
    <2>2. End(q) # Head(userQueue)
      BY <1>7, <2>1 DEF End, Event
    <2> QED
      BY <1>2, <2>2, StaysInQueue
  <1>9. Holds(userQueue, Head(userQueue))
    BY <1>2, TakenEvents
  <1>10. FinishedKept
    BY <1>5 DEF FinishedKept
  <1>11. \A q \in Replies : Unstarted(q) => Unstarted(q)'
    BY <1>3, <1>5, <1>6, <1>9 DEF Unstarted, StartsKept
  <1>12. \A q \in Replies : reply'[q].running => reply'[q].token \in Tokens
    BY <1>5, <1>6 DEF TokenInv
  <1>13. \A q \in Replies, t \in Tokens : Knows(q, t)' => Knows(q, t)
    BY <1>3, <1>5, <1>6, <1>9 DEF Knows, StartsKept
  <1>14. \A q \in Replies : Waits(q)' => Waits(q)
    BY <1>5 DEF Waits, Alive
  <1>15. \A q \in Replies : reply'[q].stage = "none" \/ Holds(protocolQueue', Call(q)) =>
            reply[q].stage = "none" \/ Holds(protocolQueue, Call(q))
    BY <1>4, <1>5 DEF CallsKept
  <1> QED
    BY <1>3, <1>4, <1>8, <1>10, <1>11, <1>12, <1>13, <1>14, <1>15, KeptTokens
    DEF WithdrawalsKept

\* The token of a new request has never been used: no reply knows it, no abort names it.
LEMMA StartTokens ==
    ASSUME ~ReuseTokens, TypeOK, OneEnd, TokenInv, NEW r \in Replies, StartRequest(r)
    PROVE  TokenInv'
  <1> DEFINE new(m) == [reply |-> r, mid |-> m, observe |-> reply[r].observe,
                        cancelled |-> FALSE, inProgress |-> FALSE, counter |-> 0]
  <1>1. /\ protocolQueue \in Seq(ProtocolEvent) /\ protocolQueue # <<>>
        /\ protocolQueue' = Tail(protocolQueue) /\ Head(protocolQueue) = Call(r)
        /\ userQueue \in Seq(UserEvent)
    BY DEF StartRequest, NextEvent, Call, TypeOK
  <1>2. Holds(protocolQueue, Call(r)) /\ ~Holds(protocolQueue', Call(r))
    BY <1>1, TakenEvents DEF OneEnd, SentOnce
  <1>3. Unstarted(r) /\ Alive(r)
    BY <1>2 DEF TokenInv, StartRequest
  <1>4. PICK m \in FreeIds, t \in FreeTokens :
           Transmit(t, new(m), reply[r].host) /\ Post(r, <<Starts(r, t)>>)
    BY <1>3 DEF StartRequest, Unstarted, Starts
  <1>5. t \in Tokens /\ ~Used(t) /\ ~Registered(t) /\ m \in MessageIds
    BY DEF FreeTokens, FreeIds, Used
  <1>6. /\ \A q \in Replies \ {r} : reply'[q] = reply[q]
        /\ reply'[r].token = EmptyToken /\ ~reply'[r].running
        /\ reply'[r].stage = "alive" /\ reply'[r].finished = reply[r].finished
    BY <1>3 DEF StartRequest, TypeOK, Reply, Unstarted, Alive
  <1>7. new(m) \in Exchange
    BY <1>5, NewExchangeType DEF TypeOK, Reply
  <1>8. /\ Restarted(new(m)) \in Exchange /\ Restarted(new(m)).reply = r
    <2>1. new(m).reply = r /\ ~new(m).inProgress
      OBVIOUS
    <2> HIDE DEF new
    <2> QED
      BY <1>7, <2>1, RestartedType
  <1>9. /\ exchangeMap'[t] = Restarted(new(m))
        /\ \A s \in Tokens \ {t} : exchangeMap'[s] = exchangeMap[s]
        /\ wire \subseteq wire'
        /\ \E q \in wire' : q.tok = t
    <2>1. PICK e, w : e = Restarted(new(m)) /\ w.tok = t
             /\ exchangeMap' = [exchangeMap EXCEPT ![t] = e] /\ wire' = wire \cup {w}
      BY <1>4 DEF Transmit
    <2> QED
      BY <1>5, <2>1 DEF TypeOK
  <1>10. Owned(r, t)' /\ \A q \in Replies, s \in Tokens : Owned(q, s) => Owned(q, s)'
    BY <1>5, <1>8, <1>9, ExchangeAssumption DEF Owned, Registered
  <1>11. /\ <<Starts(r, t)>> \in Seq(UserEvent) /\ userQueue' = userQueue \o <<Starts(r, t)>>
    BY <1>3, <1>4, <1>5 DEF Post, Starts, Event, UserEvent
  <1>12. \A q \in Replies, s \in Tokens :
            Holds(userQueue', Starts(q, s)) => Holds(userQueue, Starts(q, s)) \/ (q = r /\ s = t)
    <2>1. \A q \in Replies, s \in Tokens : Holds(<<Starts(r, t)>>, Starts(q, s)) => q = r /\ s = t
      BY DEF Holds, Starts, Event
    <2> QED
      BY <1>1, <1>11, <2>1, AddedEvents
  <1>13. \A q \in Replies : Holds(userQueue, End(q)) => Holds(userQueue', End(q))
    BY <1>1, <1>11, StaysInQueue
  <1>14. \A q \in Replies, s \in Tokens : Knows(q, s)' => Knows(q, s) \/ (q = r /\ s = t)
    BY <1>3, <1>6, <1>12 DEF Knows, Unstarted
  <1>15. \A q \in Replies : ~Knows(q, t)
    BY <1>5 DEF TokenInv
  <1>16. \A s \in Tokens : Used(s) => Used(s)'
    BY <1>9 DEF Used
  <1>17. \A q \in Replies : reply'[q].stage = "none" \/ Holds(protocolQueue', Call(q)) => Unstarted(q)'
    <2> SUFFICES ASSUME NEW q \in Replies, reply'[q].stage = "none" \/ Holds(protocolQueue', Call(q))
                 PROVE  Unstarted(q)'
      OBVIOUS
    <2>1. q # r
      BY <1>2, <1>6
    <2>2. Holds(protocolQueue', Call(q)) => Holds(protocolQueue, Call(q))
      BY <1>1, TakenEvents
    <2>3. Unstarted(q)
      BY <1>6, <2>1, <2>2 DEF TokenInv
    <2> QED
      BY <1>6, <1>12, <2>1, <2>3 DEF Unstarted
  <1>18. \A q \in Replies : reply'[q].running => reply'[q].token \in Tokens
    BY <1>6 DEF TokenInv
  <1>19. \A q \in Replies, s \in Tokens : Knows(q, s)' => Used(s)'
    BY <1>9, <1>14, <1>16 DEF TokenInv, Used
  <1>20. \A p, q \in Replies, s \in Tokens : Knows(p, s)' /\ Knows(q, s)' => p = q
    BY <1>14, <1>15 DEF TokenInv
  <1>21. ASSUME NEW s \in Tokens, Holds(protocolQueue', Withdraws(s))
         PROVE  Used(s)' /\ \A q \in Replies : Knows(q, s)' => reply'[q].finished
    <2>1. Holds(protocolQueue, Withdraws(s))
      BY <1>1, <1>21, TakenEvents
    <2>2. Used(s) /\ s # t /\ \A q \in Replies : Knows(q, s) => reply[q].finished
      BY <1>5, <2>1 DEF TokenInv
    <2> QED
      BY <1>6, <1>14, <1>16, <2>2
  <1>22. ASSUME NEW q \in Replies, NEW s \in Tokens, Waits(q)', Knows(q, s)'
         PROVE  Owned(q, s)' \/ Holds(userQueue', End(q))
    <2>1. CASE q = r /\ s = t
      BY <1>10, <2>1
    <2>2. CASE ~(q = r /\ s = t)
      <3>1. Knows(q, s) /\ Waits(q)
        BY <1>3, <1>6, <1>14, <1>22, <2>2 DEF Waits, Alive
      <3> QED
        BY <1>10, <1>13, <3>1 DEF TokenInv
    <2> QED
      BY <2>1, <2>2
  <1> QED
    BY <1>17, <1>18, <1>19, <1>20, <1>21, <1>22 DEF TokenInv

\* An abort takes the exchange of its own reply, which is finished.
LEMMA HandleTokens ==
    ASSUME ~ReuseTokens, TypeOK, OneEnd, TokenInv, HandleEvent PROVE TokenInv'
  <1>1. PICK op, a : NextEvent(op, a)
    BY DEF HandleEvent, StartRequest, SkipRequest, OnCancelObserve, RelayFinished,
       OnRequestAborted, OnCancelObserveUrl
  <1>2. /\ protocolQueue \in Seq(ProtocolEvent) /\ protocolQueue # <<>>
        /\ protocolQueue' = Tail(protocolQueue) /\ userQueue \in Seq(UserEvent)
    BY <1>1 DEF NextEvent, TypeOK
  <1>3. CallsKept /\ WithdrawalsKept
    BY <1>1, <1>2, TakenCalls, TakenEvents DEF WithdrawalsKept
  <1>4. ASSUME UNCHANGED <<reply, wire>>, StartsKept, EndsStay, OwnersStay PROVE TokenInv'
    BY <1>3, <1>4, WorkerTokens
  <1>5. ASSUME UNCHANGED userQueue PROVE StartsKept /\ EndsStay
    BY <1>5 DEF StartsKept, EndsStay
  <1>6. ASSUME UNCHANGED exchangeMap PROVE OwnersStay
    BY <1>6 DEF OwnersStay, Owned, Registered
  <1>7. ASSUME NEW r \in Replies, StartRequest(r) PROVE TokenInv'
    BY <1>7, StartTokens
  <1>8. ASSUME NEW r \in Replies, SkipRequest(r) PROVE TokenInv'
    BY <1>4, <1>5, <1>6, <1>8 DEF SkipRequest
  <1>9. ASSUME NEW r \in Replies, OnCancelObserve(r) PROVE TokenInv'
    <2>1. <<r>> \in Seq(Replies)
      OBVIOUS
    <2> QED
      BY <1>4, <1>5, <1>6, <1>9, <2>1, CancelAllTokens DEF OnCancelObserve
  <1>10. ASSUME NEW h \in Hosts \cup {Group}, OnCancelObserveUrl(h) PROVE TokenInv'
    <2> DEFINE owners == {exchangeMap[t].reply : t \in {x \in Tokens : Registered(x)}}
               chosen == {r \in owners : reply[r].host = h /\ (Tracked(r) => Cancellable(r))}
    <2>1. chosen \subseteq Replies
      BY RegisteredType DEF Exchange
    <2>2. CASE \E rs \in SetToSeqs(chosen) : CancelAll(rs)
      BY <1>4, <1>10, <2>1, <2>2, OrderType, CancelAllTokens DEF OnCancelObserveUrl
    <2>3. CASE UNCHANGED <<exchangeMap, userQueue>>
      BY <1>4, <1>5, <1>6, <1>10, <2>3 DEF OnCancelObserveUrl
    <2> QED
      BY <1>10, <2>2, <2>3 DEF OnCancelObserveUrl
  <1>11. ASSUME NEW r \in Replies, RelayFinished(r) PROVE TokenInv'
    <2> DEFINE s == <<Event("clientFinished", r, "-")>>
    <2>1. s \in Seq(UserEvent) /\ userQueue' = userQueue \o s
      BY <1>2, <1>11 DEF RelayFinished, Event, UserEvent
    <2>2. \A q \in Replies, t \in Tokens : ~Holds(s, Starts(q, t))
      BY DEF Holds, Starts, Event
    <2> HIDE DEF s
    <2>3. StartsKept /\ EndsStay
      BY <1>2, <2>1, <2>2, AddedEvents, StaysInQueue DEF StartsKept, EndsStay
    <2> QED
      BY <1>4, <1>6, <1>11, <2>3 DEF RelayFinished
  <1>12. ASSUME NEW t \in Tokens \cup {EmptyToken}, OnRequestAborted(t) PROVE TokenInv'
    <2>1. CASE t = EmptyToken
      BY <1>4, <1>5, <1>6, <1>12, <2>1 DEF OnRequestAborted
    <2>2. CASE t # EmptyToken
      <3>1. t \in Tokens /\ Forget(t) /\ UNCHANGED <<reply, wire, userQueue>>
            /\ Head(protocolQueue) = Withdraws(t)
        BY <1>12, <2>2 DEF OnRequestAborted, NextEvent, Withdraws
      <3>2. \A r \in Replies : Knows(r, t) => reply[r].finished
        BY <1>2, <3>1, TakenEvents DEF TokenInv
      <3>3. \A s \in Tokens \ {t} : exchangeMap'[s] = exchangeMap[s]
        BY <3>1 DEF Forget, TypeOK
      <3>4. OwnersStay
        BY <3>2, <3>3 DEF OwnersStay, Owned, Registered, Waits
      <3> QED
        BY <1>4, <1>5, <3>1, <3>4
    <2> QED
      BY <2>1, <2>2
  <1> QED
    BY <1>7, <1>8, <1>9, <1>10, <1>11, <1>12 DEF HandleEvent

\* The exchange of an unfinished reply is forgotten only when its end is posted.
LEMMA FrameTokens == ASSUME TypeOK, TokenInv, ReadFrame PROVE TokenInv'
  <1> SUFFICES ASSUME NEW f \in ServerFrames, NEW t \in Tokens, OnFrameReceived(f, t)
               PROVE  TokenInv'
    BY DEF ReadFrame
  <1>1. /\ Registered(t) /\ UNCHANGED <<reply, signals, protocolQueue>>
    BY DEF OnFrameReceived, ReceiveError, ReceiveBlock, ReceiveUnwanted, ReceiveEmptyAck,
           ReceiveResponse, Matches
  <1>2. PICK r \in Replies : r = exchangeMap[t].reply
    BY <1>1, RegisteredType DEF Exchange
  <1>3. CallsKept /\ WithdrawalsKept
    BY <1>1 DEF CallsKept, WithdrawalsKept
  <1>4. ASSUME wire \subseteq wire', StartsKept, EndsStay, OwnersStay PROVE TokenInv'
    BY <1>1, <1>3, <1>4, WorkerTokens
  <1>5. ASSUME UNCHANGED userQueue PROVE StartsKept /\ EndsStay
    BY <1>5 DEF StartsKept, EndsStay
  <1>6. /\ Accepted(t) \in Exchange /\ Accepted(t).reply = r
        /\ (reply[r].host # Group => ~Accepted(t).inProgress)
    BY <1>1, <1>2, AcceptedType
  <1>7. CASE ReceiveError(f, t)
    <2> DEFINE s == <<Event("_q_setContent", r, "Error"), End(r)>>
    <2>1. /\ s \in Seq(UserEvent) /\ \A i \in DOMAIN s : s[i].slot # "_q_setRunning"
          /\ Holds(s, End(r))
      BY DEF Event, UserEvent, Holds, End
    <2>2. Post(r, s) /\ Forget(t) /\ UNCHANGED wire
      BY <1>2, <1>7 DEF ReceiveError, End
    <2> HIDE DEF s
    <2>3. StartsKept /\ EndsStay /\ (Alive(r) => Holds(userQueue', End(r)))
      BY <2>1, <2>2, PostedTokens
    <2>4. OwnersStay
      BY <1>1, <1>2, <2>2, <2>3, ForgetTokens DEF Waits
    <2> QED
      BY <1>4, <2>2, <2>3, <2>4
  <1>8. CASE ReceiveBlock(f, t)
    <2>1. PICK m, h : m \in FreeIds /\ Transmit(t, [Accepted(t) EXCEPT !.mid = m], h)
      BY <1>8 DEF ReceiveBlock
    <2>2. PICK e \in Exchange : e = [Accepted(t) EXCEPT !.mid = m] /\ e.reply = r
                                /\ e.inProgress = Accepted(t).inProgress
      <3>1. m \in MessageIds
        BY <2>1 DEF FreeIds
      <3>2. \A x \in Exchange : /\ [x EXCEPT !.mid = m] \in Exchange
                                /\ [x EXCEPT !.mid = m].reply = x.reply
                                /\ [x EXCEPT !.mid = m].inProgress = x.inProgress
        BY <3>1 DEF Exchange
      <3> QED
        BY <1>6, <3>2
    <2>3. Restarted(e) \in Exchange /\ Restarted(e).reply = r
      BY <1>6, <2>2, RestartedType
    <2>4. /\ exchangeMap' = [exchangeMap EXCEPT ![t] = Restarted(e)] /\ wire \subseteq wire'
          /\ UNCHANGED userQueue
      BY <1>8, <2>1, <2>2 DEF Transmit, ReceiveBlock
    <2>5. OwnersStay
      BY <1>2, <2>3, <2>4, UpdatedTokens
    <2> QED
      BY <1>4, <1>5, <2>4, <2>5
  <1>9. CASE ReceiveUnwanted(f, t)
    <2>1. ~Accepted(t).observe \/ ~exchangeMap[t].cancelled
      BY <1>1, RegisteredType DEF Accepted, Stopped, Exchange
    <2>2. ~Waits(r) /\ Forget(t) /\ UNCHANGED <<userQueue, wire>>
      BY <1>2, <1>9, <2>1 DEF ReceiveUnwanted, Unwanted, Waits
    <2>3. OwnersStay
      BY <1>1, <1>2, <2>2, ForgetTokens
    <2> QED
      BY <1>4, <1>5, <2>2, <2>3
  <1>10. CASE ReceiveEmptyAck(f, t)
    <2>1. exchangeMap' = [exchangeMap EXCEPT ![t] = Accepted(t)] /\ UNCHANGED <<userQueue, wire>>
      BY <1>10 DEF ReceiveEmptyAck
    <2>2. OwnersStay
      BY <1>2, <1>6, <2>1, UpdatedTokens
    <2> QED
      BY <1>4, <1>5, <2>1, <2>2
  <1>11. CASE ReceiveResponse(f, t)
    <2>1. f.code \in {"Empty", "Content"}
      BY <1>11, FrameType DEF Frame, ReceiveResponse
    <2> DEFINE goes == Accepted(t).observe \/ IsMulticast(t)
               content == <<Event("_q_setContent", r, f.code)>>
               last == IF Accepted(t).observe THEN <<Event("_q_setNotified", r, "-")>>
                       ELSE IF IsMulticast(t) THEN <<>>
                       ELSE <<Event("_q_setFinished", r, "-")>>
    <2>2. /\ Post(r, content \o last) /\ UNCHANGED wire
          /\ goes => exchangeMap' = [exchangeMap EXCEPT ![t] = Accepted(t)]
          /\ ~goes => Forget(t)
      BY <1>2, <1>11 DEF ReceiveResponse
    <2>3. content \in Seq(UserEvent) /\ \A i \in DOMAIN content : content[i].slot # "_q_setRunning"
      BY <2>1 DEF Event, UserEvent
    <2>4. last \in {<<Event("_q_setNotified", r, "-")>>, <<>>, <<End(r)>>}
          /\ (~goes => last = <<End(r)>>)
      BY DEF End
    <2> HIDE DEF content, last, goes
    <2>5. last \in Seq(UserEvent) /\ \A i \in DOMAIN last : last[i].slot # "_q_setRunning"
      <3>1. CASE last = <<>>
        BY <3>1
      <3>2. CASE last = <<Event("_q_setNotified", r, "-")>>
        BY <3>2 DEF Event, UserEvent
      <3>3. CASE last = <<End(r)>>
        BY <3>3 DEF End, Event, UserEvent
      <3> QED
        BY <2>4, <3>1, <3>2, <3>3
    <2>6. content \o last \in Seq(UserEvent)
          /\ \A i \in DOMAIN (content \o last) : (content \o last)[i].slot # "_q_setRunning"
      BY <2>3, <2>5
    <2>7. ~goes => Holds(content \o last, End(r))
      <3> SUFFICES ASSUME ~goes PROVE Holds(content \o last, End(r))
        OBVIOUS
      <3>1. content \o last = <<Event("_q_setContent", r, f.code), End(r)>>
        BY <2>4, TwoEvents DEF content
      <3> QED
        BY <3>1 DEF Holds
    <2>8. StartsKept /\ EndsStay /\ (~goes /\ Alive(r) => Holds(userQueue', End(r)))
      BY <2>2, <2>6, <2>7, PostedTokens
    <2>9. OwnersStay
      <3>1. CASE goes
        BY <1>2, <1>6, <2>2, <3>1, UpdatedTokens
      <3>2. CASE ~goes
        BY <1>1, <1>2, <2>2, <2>8, <3>2, ForgetTokens DEF Waits
      <3> QED
        BY <3>1, <3>2
    <2> QED
      BY <1>4, <2>2, <2>8, <2>9
  <1> QED
    BY <1>7, <1>8, <1>9, <1>10, <1>11 DEF OnFrameReceived

LEMMA TimerTokens ==
    ASSUME TypeOK, TokenInv, NEW t \in Tokens, OnRequestTimeout(t) \/ FireTimer(t) PROVE TokenInv'
  <1>1. Registered(t) /\ UNCHANGED <<reply, signals, protocolQueue>>
    BY DEF OnRequestTimeout, FireTimer, OnRequestMaxTransmissionSpanReached,
           OnMulticastRequestExpired, OnRequestError
  <1>2. PICK r \in Replies : r = exchangeMap[t].reply
    BY <1>1, RegisteredType DEF Exchange
  <1>3. CallsKept /\ WithdrawalsKept
    BY <1>1 DEF CallsKept, WithdrawalsKept
  <1>4. ASSUME wire \subseteq wire', StartsKept, EndsStay, OwnersStay PROVE TokenInv'
    BY <1>1, <1>3, <1>4, WorkerTokens
  <1>5. ASSUME NEW s \in Seq(UserEvent), Post(r, s), Forget(t), UNCHANGED wire, Holds(s, End(r)),
               \A i \in DOMAIN s : s[i].slot # "_q_setRunning"
        PROVE  TokenInv'
    <2>1. StartsKept /\ EndsStay /\ (Alive(r) => Holds(userQueue', End(r)))
      BY <1>5, PostedTokens
    <2>2. OwnersStay
      BY <1>1, <1>2, <1>5, <2>1, ForgetTokens DEF Waits
    <2> QED
      BY <1>4, <1>5, <2>1, <2>2
  <1>6. CASE OnRequestTimeout(t) /\ CanRetransmit(t)
    <2>1. PICK e \in Exchange : e = exchangeMap[t] /\ e.counter < MaxRetransmit
      BY <1>1, <1>6, RegisteredType DEF CanRetransmit
    <2>2. Restarted(e) \in Exchange /\ Restarted(e).reply = r
      BY <1>2, <2>1, RestartedType
    <2>3. /\ exchangeMap' = [exchangeMap EXCEPT ![t] = Restarted(e)] /\ wire \subseteq wire'
          /\ UNCHANGED userQueue
      BY <1>6, <2>1 DEF OnRequestTimeout, Transmit
    <2>4. OwnersStay /\ StartsKept /\ EndsStay
      BY <1>2, <2>2, <2>3, UpdatedTokens DEF StartsKept, EndsStay
    <2> QED
      BY <1>4, <2>3, <2>4
  <1>7. CASE OnRequestError(t)
    <2>1. /\ ErrorEvents(r) \in Seq(UserEvent) /\ Holds(ErrorEvents(r), End(r))
          /\ \A i \in DOMAIN ErrorEvents(r) : ErrorEvents(r)[i].slot # "_q_setRunning"
      BY DEF ErrorEvents, Event, UserEvent, Holds, End
    <2> QED
      BY <1>2, <1>5, <1>7, <2>1 DEF OnRequestError
  <1>8. CASE OnMulticastRequestExpired(t)
    <2>1. /\ <<End(r)>> \in Seq(UserEvent) /\ Holds(<<End(r)>>, End(r))
          /\ \A i \in DOMAIN <<End(r)>> : <<End(r)>>[i].slot # "_q_setRunning"
      BY DEF Event, UserEvent, Holds, End
    <2>2. Post(r, <<End(r)>>)
      BY <1>2, <1>8 DEF OnMulticastRequestExpired, End
    <2> QED
      BY <1>5, <1>8, <2>1, <2>2 DEF OnMulticastRequestExpired
  <1> QED
    BY <1>6, <1>7, <1>8 DEF OnRequestTimeout, FireTimer, OnRequestMaxTransmissionSpanReached

LEMMA TokensKept ==
    ASSUME ~ReuseTokens, UserTokens \subseteq {EmptyToken}
    PROVE  Spec => []TokenInv
  <1>1. TypeOK /\ OneEnd /\ TokenInv /\ [Next]_vars => TokenInv'
    <2> SUFFICES ASSUME TypeOK, OneEnd, TokenInv, [Next]_vars PROVE TokenInv'
      OBVIOUS
    <2>1. CASE UNCHANGED vars
      BY <2>1, WorkerTokens DEF vars, CallsKept, StartsKept, EndsStay, OwnersStay,
         WithdrawalsKept, Owned, Registered
    <2> QED
      BY <2>1, UserTokensKept, SlotTokens, HandleTokens, FrameTokens, TimerTokens DEF Next
  <1> QED
    BY InitTokens, <1>1, TypeCorrect, OneEndHolds, PTL DEF Spec

\* No running reply is left without its exchange before its end is on the way, whatever is
\* aborted, deleted, cancelled or answered at the same time - as long as no token is used
\* for two requests: an abort removes the exchange it finds under its token.
THEOREM NoReplyOrphaned ==
    ASSUME ~ReuseTokens, UserTokens \subseteq {EmptyToken}
    PROVE  Spec => []NoOrphanReply
  <1>1. TypeOK /\ TokenInv => NoOrphanReply
    <2> SUFFICES ASSUME TypeOK, TokenInv, NEW r \in Replies,
                        Alive(r), reply[r].running, ~reply[r].finished
                 PROVE  \/ Registered(reply[r].token) /\ exchangeMap[reply[r].token].reply = r
                        \/ Posted({"_q_setFinished"}, r)
      BY DEF NoOrphanReply
    <2>1. reply[r].token \in Tokens /\ Waits(r) /\ Knows(r, reply[r].token)
      BY DEF TokenInv, Waits, Knows
    <2>2. Owned(r, reply[r].token) \/ Holds(userQueue, End(r))
      BY <2>1 DEF TokenInv
    <2> QED
      BY <2>2 DEF Owned, Posted, Holds, End, Event
  <1> QED
    BY <1>1, TokensKept, TypeCorrect, PTL
(***************************************************************************)
(* Cancelled observations.  The worker finds the exchange of a reply by    *)
(* the token, which no other reply knows: the reply that is told is the    *)
(* one whose exchange is marked.                                           *)
(***************************************************************************)

Cancel(r) == Event("_q_setObserveCancelled", r, "-")
Note(r) == Event("_q_setNotified", r, "-")

\* In queue q a cancellation of r is behind all notifications of r.
Told(q, r) ==
    \E k \in DOMAIN q : q[k] = Cancel(r) /\ \A i \in DOMAIN q : q[i] = Note(r) => i < k

CancelInv ==
    /\ \A r \in Replies, t \in Tokens : Owned(r, t) /\ Alive(r) => Knows(r, t)
    /\ \A r \in Replies, s, t \in Tokens : Knows(r, s) /\ Knows(r, t) => s = t
    /\ \A r \in Replies, t \in Tokens :
          Owned(r, t) /\ exchangeMap[t].cancelled /\ Waits(r) => Told(userQueue, r)

LEMMA ToldGrows ==
    ASSUME NEW S, NEW q \in Seq(S), NEW s \in Seq(S), NEW w, w = q \o s, NEW r,
           ~Holds(s, Note(r)), Told(q, r) \/ Holds(s, Cancel(r))
    PROVE  Told(w, r)
  <1>1. /\ w \in Seq(S) /\ Len(w) = Len(q) + Len(s)
        /\ \A i \in 1..(Len(q) + Len(s)) : w[i] = IF i <= Len(q) THEN q[i] ELSE s[i - Len(q)]
    BY ConcatProperties
  <1>2. Len(q) \in Nat /\ Len(s) \in Nat /\ DOMAIN q = 1..Len(q) /\ DOMAIN s = 1..Len(s)
        /\ DOMAIN w = 1..(Len(q) + Len(s))
    BY <1>1
  <1>3. ASSUME NEW i \in DOMAIN w, w[i] = Note(r) PROVE i \in DOMAIN q /\ q[i] = Note(r)
    <2>1. i <= Len(q) \/ (i - Len(q) \in DOMAIN s /\ w[i] = s[i - Len(q)])
      BY <1>1, <1>2
    <2>2. i <= Len(q)
      BY <1>3, <2>1 DEF Holds
    <2> QED
      BY <1>1, <1>2, <1>3, <2>2
  <1>4. CASE Told(q, r)
    <2>1. PICK k \in DOMAIN q : q[k] = Cancel(r) /\ \A i \in DOMAIN q : q[i] = Note(r) => i < k
      BY <1>4 DEF Told
    <2>2. k \in DOMAIN w /\ w[k] = Cancel(r)
      BY <1>1, <1>2, <2>1
    <2> QED
      BY <1>3, <2>1, <2>2 DEF Told
  <1>5. CASE Holds(s, Cancel(r))
    <2>1. PICK j \in DOMAIN s : s[j] = Cancel(r)
      BY <1>5 DEF Holds
    <2>2. Len(q) + j \in DOMAIN w /\ w[Len(q) + j] = s[j]
      BY <1>1, <1>2
    <2>3. \A i \in DOMAIN q : i < Len(q) + j
      BY <1>2
    <2> QED
      BY <1>3, <2>1, <2>2, <2>3 DEF Told
  <1> QED
    BY <1>4, <1>5

LEMMA ToldStays ==
    ASSUME NEW S, NEW q \in Seq(S), q # <<>>, NEW r, Told(q, r), Head(q) # Cancel(r)
    PROVE  Told(Tail(q), r)
  <1>1. /\ Head(q) = q[1] /\ DOMAIN q = 1..Len(q) /\ Len(q) \in Nat
        /\ DOMAIN Tail(q) = 1..(Len(q) - 1)
        /\ \A i \in DOMAIN Tail(q) : i + 1 \in DOMAIN q /\ Tail(q)[i] = q[i + 1]
    OBVIOUS
  <1>2. PICK k \in DOMAIN q : q[k] = Cancel(r) /\ \A i \in DOMAIN q : q[i] = Note(r) => i < k
    BY DEF Told
  <1>3. k # 1
    BY <1>1, <1>2
  <1>4. k - 1 \in DOMAIN Tail(q) /\ Tail(q)[k - 1] = Cancel(r)
    BY <1>1, <1>2, <1>3
  <1>5. ASSUME NEW i \in DOMAIN Tail(q), Tail(q)[i] = Note(r) PROVE i < k - 1
    <2>1. i + 1 < k /\ i \in Nat
      BY <1>1, <1>2, <1>5
    <2> QED
      BY <1>1, <2>1
  <1> QED
    BY <1>4, <1>5 DEF Told

\* A step of the worker posts s: it starts a request whose reply knew no token, or marks the
\* exchange of a reply and tells it.
LEMMA PostedCancels ==
    ASSUME TypeOK, CancelInv, NEW s \in Seq(UserEvent), userQueue' = userQueue \o s,
           \A q \in Replies : /\ reply'[q].stage = reply[q].stage
                              /\ reply'[q].token = reply[q].token
                              /\ reply'[q].finished = reply[q].finished,
           \A q \in Replies, x, y \in Tokens :
              Holds(s, Starts(q, x)) => Unstarted(q) /\ (Holds(s, Starts(q, y)) => x = y),
           \A q \in Replies, x \in Tokens : Owned(q, x)' =>
              \/ /\ Owned(q, x)
                 /\ exchangeMap'[x].cancelled =>
                       /\ ~Holds(s, Note(q))
                       /\ exchangeMap[x].cancelled \/ ~Waits(q) \/ Holds(s, Cancel(q))
              \/ Holds(s, Starts(q, x)) /\ ~exchangeMap'[x].cancelled
    PROVE  CancelInv'
  <1>1. userQueue \in Seq(UserEvent)
    BY DEF TypeOK
  <1>2. \A q \in Replies : (Alive(q)' <=> Alive(q)) /\ (Waits(q)' <=> Waits(q))
    BY DEF Alive, Waits
  <1>3. \A e : Holds(userQueue', e) => Holds(userQueue, e) \/ Holds(s, e)
    BY <1>1, AddedEvents
  <1>4. \A e : Holds(userQueue, e) \/ Holds(s, e) => Holds(userQueue', e)
    <2>1. \A e : Holds(userQueue, e) => Holds(userQueue', e)
      BY <1>1, StaysInQueue
    <2>2. ASSUME NEW e, NEW i \in DOMAIN s, s[i] = e PROVE Holds(userQueue', e)
      <3> DEFINE w == userQueue \o s
      <3>1. Len(userQueue) + i \in DOMAIN w /\ w[Len(userQueue) + i] = s[i]
        BY <1>1, ConcatProperties
      <3>2. userQueue' = w
        OBVIOUS
      <3> HIDE DEF w
      <3> QED
        BY <2>2, <3>1, <3>2 DEF Holds
    <2> QED
      BY <2>1, <2>2 DEF Holds
  <1>5. \A q \in Replies, x \in Tokens :
           Knows(q, x)' <=> Knows(q, x) \/ Holds(s, Starts(q, x))
    BY <1>3, <1>4 DEF Knows
  <1>6. \A q \in Replies, x \in Tokens : Unstarted(q) => ~Knows(q, x)
    BY TokenAssumption DEF Unstarted, Knows
  <1>7. \A q \in Replies, x \in Tokens : Owned(q, x)' /\ Alive(q)' => Knows(q, x)'
    BY <1>2, <1>5 DEF CancelInv
  <1>8. \A q \in Replies, x, y \in Tokens : Knows(q, x)' /\ Knows(q, y)' => x = y
    BY <1>5, <1>6 DEF CancelInv
  <1>9. ASSUME NEW q \in Replies, NEW x \in Tokens, Owned(q, x)', exchangeMap'[x].cancelled, Waits(q)'
        PROVE  Told(userQueue', q)
    <2>1. ~Holds(s, Note(q)) /\ (Told(userQueue, q) \/ Holds(s, Cancel(q)))
      BY <1>2, <1>9 DEF CancelInv
    <2> QED
      BY <1>1, <2>1, ToldGrows
  <1> QED
    BY <1>7, <1>8, <1>9 DEF CancelInv

\* A reply withdraws, or is created: it has no exchange yet.
LEMMA UserCancels ==
    ASSUME UserTokens \subseteq {EmptyToken}, TypeOK, OneEnd, TokenInv, CancelInv, UserOperation
    PROVE  CancelInv'
  <1>1. UNCHANGED <<userQueue, exchangeMap>>
    BY DEF UserOperation, Send, Abort, Delete, CancelObserve, CancelObserveUrl
  <1>2. ASSUME \A q \in Replies, t \in Tokens :
                  /\ Knows(q, t)' <=> Knows(q, t)
                  /\ Owned(q, t) /\ Alive(q)' => Alive(q)
                  /\ Owned(q, t) /\ Waits(q)' => Waits(q)
        PROVE  CancelInv'
    <2>1. \A q \in Replies, t \in Tokens : Owned(q, t)' <=> Owned(q, t)
      BY <1>1 DEF Owned, Registered
    <2> QED
      BY <1>1, <1>2, <2>1 DEF CancelInv
  <1>3. ASSUME NEW r \in Replies, Send(r) PROVE CancelInv'
    <2>1. /\ reply[r].stage = "none" /\ reply'[r].token = EmptyToken
          /\ \A q \in Replies \ {r} : reply'[q] = reply[q]
      BY <1>3 DEF Send, TypeOK, Reply
    <2>2. Unstarted(r)
      BY <2>1 DEF TokenInv
    <2>3. \A t \in Tokens : ~Owned(r, t)
      BY <2>1 DEF OneEnd, SentOnce, Unbegun, HasExchange, Owned
    <2>4. \A q \in Replies, t \in Tokens : Knows(q, t)' <=> Knows(q, t)
      BY <1>1, <2>1, <2>2, TokenAssumption DEF Knows, Unstarted
    <2> QED
      BY <1>2, <2>1, <2>3, <2>4 DEF Alive, Waits
  <1>4. ASSUME NEW r \in Replies, NEW stage \in {"alive", "deleted"}, Alive(r), AbortReply(r, stage)
        PROVE  CancelInv'
    <2>1. /\ reply'[r].token = reply[r].token /\ reply'[r].finished
          /\ \A q \in Replies \ {r} : reply'[q] = reply[q]
      BY <1>4 DEF AbortReply, TypeOK, Reply
    <2> QED
      BY <1>1, <1>2, <1>4, <2>1 DEF Knows, Alive, Waits
  <1>5. ASSUME UNCHANGED reply PROVE CancelInv'
    BY <1>1, <1>2, <1>5 DEF Knows, Alive, Waits
  <1> QED
    BY <1>3, <1>4, <1>5 DEF UserOperation, Abort, Delete, CancelObserve, CancelObserveUrl

\* Only the cancellation of a reply itself is taken from the queue, which finishes the reply.
LEMMA SlotCancels == ASSUME TypeOK, CancelInv, RunSlot PROVE CancelInv'
  <1> SUFFICES ASSUME NEW r \in Replies,
                      \/ SetRunning(r) \/ SetContent(r) \/ SetNotified(r) \/ SetFinished(r)
                      \/ SetError(r) \/ SetObserveCancelled(r) \/ ClientFinished(r)
                      \/ \E s \in ReplySlots : DropEvent(s, r)
               PROVE  CancelInv'
    BY DEF RunSlot
  <1>1. PICK s : NextSlot(s, r)
    BY DEF SetRunning, SetContent, SetNotified, SetFinished, SetError, SetObserveCancelled,
       ClientFinished, DropEvent
  <1>2. /\ userQueue \in Seq(UserEvent) /\ userQueue # <<>> /\ userQueue' = Tail(userQueue)
        /\ Head(userQueue).reply = r /\ UNCHANGED exchangeMap
    BY <1>1 DEF NextSlot, TypeOK
  <1>3. /\ \A q \in Replies \ {r} : reply'[q] = reply[q]
        /\ reply'[r].stage = reply[r].stage
        /\ reply[r].finished => reply'[r].finished
        /\ ~SetRunning(r) => reply'[r].token = reply[r].token
    <2>1. CASE SetRunning(r)
      BY <2>1 DEF SetRunning, TypeOK, Reply
    <2>2. CASE SetContent(r)
      BY <2>2 DEF SetContent, TypeOK, Reply
    <2>3. CASE SetFinished(r) \/ SetObserveCancelled(r)
      BY <2>3 DEF SetFinished, SetObserveCancelled, EmitFinished, TypeOK, Reply
    <2>4. CASE SetError(r)
      BY <2>4 DEF SetError, TypeOK, Reply
    <2>5. CASE UNCHANGED reply
      BY <2>5
    <2> QED
      BY <2>1, <2>2, <2>3, <2>4, <2>5 DEF SetNotified, ClientFinished, DropEvent
  <1>4. \A q \in Replies : (Alive(q)' <=> Alive(q)) /\ (Waits(q)' => Waits(q))
    BY <1>3 DEF Alive, Waits
  <1>5. SetRunning(r) => /\ reply'[r].token = Head(userQueue).arg
                         /\ Head(userQueue).arg \in Tokens
                         /\ Head(userQueue) = Starts(r, Head(userQueue).arg)
    <2> SUFFICES ASSUME SetRunning(r)
                 PROVE  /\ reply'[r].token = Head(userQueue).arg
                        /\ Head(userQueue).arg \in Tokens
                        /\ Head(userQueue) = Starts(r, Head(userQueue).arg)
      OBVIOUS
    <2>1. /\ reply'[r].token = Head(userQueue).arg /\ Head(userQueue) \in UserEvent
          /\ Head(userQueue).slot = "_q_setRunning" /\ Head(userQueue).reply = r
      BY <1>2 DEF SetRunning, NextSlot, TypeOK, Reply
    <2> QED
      BY <2>1 DEF UserEvent, Starts, Event
  <1>6. Holds(userQueue, Head(userQueue))
    BY <1>2, TakenEvents
  <1>7. \A e : Holds(userQueue', e) => Holds(userQueue, e)
    BY <1>2, TakenEvents
  <1>8. \A e : Holds(userQueue, e) => Holds(userQueue', e) \/ e = Head(userQueue)
    BY <1>2, StaysInQueue
  <1>9. \A q \in Replies, t \in Tokens : Knows(q, t)' => Knows(q, t)
    BY <1>3, <1>5, <1>6, <1>7 DEF Knows
  <1>10. ASSUME NEW q \in Replies, NEW t \in Tokens, Knows(q, t), Alive(q)' PROVE Knows(q, t)'
    <2>1. CASE q # r
      <3>1. Starts(q, t) # Head(userQueue)
        BY <1>2, <2>1 DEF Starts, Event
      <3> QED
        BY <1>3, <1>8, <1>10, <2>1, <3>1 DEF Knows
    <2>2. CASE q = r /\ SetRunning(r)
      <3>1. Knows(r, Head(userQueue).arg) /\ Head(userQueue).arg \in Tokens
        BY <1>5, <1>6, <2>2 DEF Knows
      <3>2. t = Head(userQueue).arg
        BY <1>10, <2>2, <3>1 DEF CancelInv
      <3> QED
        BY <1>5, <2>2, <3>2 DEF Knows
    <2>3. CASE q = r /\ ~SetRunning(r)
      <3>1. Head(userQueue).slot # "_q_setRunning"
        BY <1>4, <1>10, <2>3 DEF SetContent, SetNotified, SetFinished, SetError,
           SetObserveCancelled, ClientFinished, DropEvent, NextSlot
      <3>2. Starts(q, t) # Head(userQueue)
        BY <3>1 DEF Starts, Event
      <3> QED
        BY <1>3, <1>8, <1>10, <2>3, <3>2 DEF Knows
    <2> QED
      BY <2>1, <2>2, <2>3
  <1>11. ASSUME Head(userQueue) = Cancel(r) PROVE ~Waits(r)'
    <2>1. Head(userQueue).slot = "_q_setObserveCancelled"
      BY <1>11 DEF Cancel, Event
    <2>2. SetObserveCancelled(r) \/ DropEvent("_q_setObserveCancelled", r)
      BY <2>1 DEF SetRunning, SetContent, SetNotified, SetError, SetFinished,
         ClientFinished, DropEvent, NextSlot
    <2>3. CASE SetObserveCancelled(r)
      <3>1. CASE reply[r].finished
        BY <1>3, <3>1 DEF Waits
      <3>2. CASE ~reply[r].finished
        <4>1. EmitFinished(r, "withdrawn")
          BY <2>3, <3>2 DEF SetObserveCancelled
        <4>2. reply'[r].finished
          BY <4>1 DEF EmitFinished, TypeOK, Reply
        <4> QED
          BY <4>2 DEF Waits
      <3> QED
        BY <3>1, <3>2
    <2>4. CASE DropEvent("_q_setObserveCancelled", r)
      BY <2>4 DEF DropEvent, Waits, Alive
    <2> QED
      BY <2>2, <2>3, <2>4
  <1>12. ASSUME NEW q \in Replies, Waits(q)', Told(userQueue, q) PROVE Told(userQueue', q)
    <2>1. Head(userQueue) # Cancel(q)
      <3>1. CASE q = r
        BY <1>11, <1>12, <3>1
      <3>2. CASE q # r
        BY <1>2, <3>2 DEF Cancel, Event
      <3> QED
        BY <3>1, <3>2
    <2>2. Told(Tail(userQueue), q)
      BY <1>2, <1>12, <2>1, ToldStays
    <2> QED
      BY <1>2, <2>2
  <1>13. \A q \in Replies, t \in Tokens : Owned(q, t)' <=> Owned(q, t)
    BY <1>2 DEF Owned, Registered
  <1> QED
    BY <1>2, <1>4, <1>9, <1>10, <1>12, <1>13 DEF CancelInv
\* What the worker posts when it starts no request and goes on with the exchanges as they are.
LEMMA WorkerCancels ==
    ASSUME TypeOK, CancelInv, UNCHANGED reply, NEW s \in Seq(UserEvent), userQueue' = userQueue \o s,
           \A i \in DOMAIN s : s[i].slot # "_q_setRunning",
           \A q \in Replies, x \in Tokens : Owned(q, x)' =>
              /\ Owned(q, x)
              /\ exchangeMap'[x].cancelled => exchangeMap[x].cancelled /\ ~Holds(s, Note(q))
    PROVE  CancelInv'
  <1>1. \A q \in Replies, x \in Tokens : ~Holds(s, Starts(q, x))
    BY DEF Holds, Starts, Event
  <1> QED
    BY <1>1, PostedCancels

\* A step of the worker that posts nothing to a reply.
LEMMA QuietCancels ==
    ASSUME TypeOK, CancelInv, UNCHANGED <<reply, userQueue>>,
           \A q \in Replies, x \in Tokens : Owned(q, x)' =>
              Owned(q, x) /\ (exchangeMap'[x].cancelled => exchangeMap[x].cancelled)
    PROVE  CancelInv'
  <1>1. <<>> \in Seq(UserEvent) /\ userQueue \in Seq(UserEvent)
    BY DEF TypeOK
  <1>2. PICK w \in Seq(UserEvent) : w = <<>>
    BY <1>1
  <1>3. userQueue' = userQueue \o w
    BY <1>1, <1>2
  <1>4. \A q \in Replies : ~Holds(w, Note(q))
    BY <1>2 DEF Holds
  <1>5. \A i \in DOMAIN w : w[i].slot # "_q_setRunning"
    BY <1>2
  <1> QED
    BY <1>3, <1>4, <1>5, WorkerCancels

\* The exchange of token t is forgotten or changed to e; the others stay.
LEMMA OneExchange ==
    ASSUME TypeOK, NEW t \in Tokens, NEW e, exchangeMap' = [exchangeMap EXCEPT ![t] = e],
           e = NoExchange \/ (Registered(t) /\ e \in Exchange /\ e.reply = exchangeMap[t].reply
                                /\ e.cancelled = exchangeMap[t].cancelled)
    PROVE  \A q \in Replies, x \in Tokens : Owned(q, x)' =>
              Owned(q, x) /\ exchangeMap'[x].cancelled = exchangeMap[x].cancelled
  <1>1. exchangeMap'[t] = e /\ \A x \in Tokens \ {t} : exchangeMap'[x] = exchangeMap[x]
    BY DEF TypeOK
  <1> QED
    BY <1>1 DEF Owned, Registered

LEMMA StartCancels ==
    ASSUME UserTokens \subseteq {EmptyToken}, TypeOK, OneEnd, TokenInv, CancelInv,
           NEW r \in Replies, StartRequest(r)
    PROVE  CancelInv'
  <1> DEFINE new(m) == [reply |-> r, mid |-> m, observe |-> reply[r].observe,
                        cancelled |-> FALSE, inProgress |-> FALSE, counter |-> 0]
  <1>1. /\ protocolQueue \in Seq(ProtocolEvent) /\ protocolQueue # <<>>
        /\ Head(protocolQueue) = Call(r)
    BY DEF StartRequest, NextEvent, Call, TypeOK
  <1>2. Holds(protocolQueue, Call(r))
    BY <1>1, TakenEvents
  <1>3. Unstarted(r) /\ Alive(r)
    BY <1>2 DEF TokenInv, StartRequest
  <1>4. PICK m \in FreeIds, t \in FreeTokens :
           Transmit(t, new(m), reply[r].host) /\ Post(r, <<Starts(r, t)>>)
    BY <1>3 DEF StartRequest, Unstarted, Starts
  <1>5. t \in Tokens /\ m \in MessageIds
    BY DEF FreeTokens, FreeIds
  <1>6. \A q \in Replies : /\ reply'[q].stage = reply[q].stage
                           /\ reply'[q].token = reply[q].token
                           /\ reply'[q].finished = reply[q].finished
    BY DEF StartRequest, TypeOK, Reply
  <1>7. Restarted(new(m)).cancelled = FALSE /\ Restarted(new(m)).reply = r
    BY DEF Restarted
  <1>8. /\ exchangeMap'[t] = Restarted(new(m))
        /\ \A x \in Tokens \ {t} : exchangeMap'[x] = exchangeMap[x]
    <2>1. PICK e : e = Restarted(new(m)) /\ exchangeMap' = [exchangeMap EXCEPT ![t] = e]
      BY <1>4 DEF Transmit
    <2> QED
      BY <1>5, <2>1 DEF TypeOK
  <1>9. PICK s : s = <<Starts(r, t)>>
    OBVIOUS
  <1>10. s \in Seq(UserEvent) /\ userQueue' = userQueue \o s
    BY <1>3, <1>4, <1>5, <1>9 DEF Post, Starts, Event, UserEvent
  <1>11. /\ \A q \in Replies, x \in Tokens : Holds(s, Starts(q, x)) <=> q = r /\ x = t
         /\ \A q \in Replies : ~Holds(s, Note(q))
    BY <1>9 DEF Holds, Starts, Note, Event
  <1>12. \A q \in Replies, x, y \in Tokens :
            Holds(s, Starts(q, x)) => Unstarted(q) /\ (Holds(s, Starts(q, y)) => x = y)
    BY <1>3, <1>11
  <1> HIDE DEF new
  <1>13. ASSUME NEW q \in Replies, NEW x \in Tokens, Owned(q, x)'
         PROVE  \/ /\ Owned(q, x)
                   /\ exchangeMap'[x].cancelled =>
                         /\ ~Holds(s, Note(q))
                         /\ exchangeMap[x].cancelled \/ ~Waits(q) \/ Holds(s, Cancel(q))
                \/ Holds(s, Starts(q, x)) /\ ~exchangeMap'[x].cancelled
    <2>1. CASE x = t
      BY <1>7, <1>8, <1>11, <1>13, <2>1 DEF Owned
    <2>2. CASE x # t
      BY <1>8, <1>11, <1>13, <2>2 DEF Owned, Registered
    <2> QED
      BY <2>1, <2>2
  <1> QED
    BY <1>6, <1>10, <1>12, <1>13, PostedCancels

\* The exchange that is marked belongs to the reply whose token was asked for.
LEMMA CancelAllCancels ==
    ASSUME TypeOK, TokenInv, CancelInv, NEW rs \in Seq(Replies), CancelAll(rs), UNCHANGED reply
    PROVE  CancelInv'
  <1>1. PICK s : s = [i \in DOMAIN rs |-> Event("_q_setObserveCancelled", rs[i], "-")]
    OBVIOUS
  <1>2. s \in Seq(UserEvent) /\ DOMAIN s = DOMAIN rs /\ \A i \in DOMAIN rs : s[i] = Cancel(rs[i])
    BY <1>1 DEF Event, UserEvent, Cancel
  <1>3. userQueue' = userQueue \o s
    BY <1>1 DEF CancelAll
  <1>4. /\ \A q \in Replies, x \in Tokens : ~Holds(s, Starts(q, x))
        /\ \A q \in Replies : ~Holds(s, Note(q))
    BY <1>2 DEF Holds, Starts, Note, Cancel, Event
  <1>5. ASSUME NEW q \in Replies, NEW x \in Tokens, Owned(q, x)'
        PROVE  /\ Owned(q, x)
               /\ exchangeMap'[x].cancelled =>
                     exchangeMap[x].cancelled \/ ~Waits(q) \/ Holds(s, Cancel(q))
    <2>1. \/ exchangeMap'[x] = exchangeMap[x]
          \/ /\ exchangeMap'[x] = [exchangeMap[x] EXCEPT !.cancelled = TRUE]
             /\ Registered(x)
             /\ \E i \in DOMAIN rs : reply[rs[i]].token = x
      BY DEF CancelAll
    <2>2. CASE exchangeMap'[x] = exchangeMap[x]
      BY <1>5, <2>2 DEF Owned, Registered
    <2>3. ASSUME exchangeMap'[x] = [exchangeMap[x] EXCEPT !.cancelled = TRUE], Registered(x),
                 NEW i \in DOMAIN rs, reply[rs[i]].token = x
          PROVE  Owned(q, x) /\ (Holds(s, Cancel(q)) \/ ~Waits(q))
      <3>1. exchangeMap'[x].reply = exchangeMap[x].reply
        BY <2>3, RegisteredType DEF Exchange
      <3>2. Owned(q, x)
        BY <1>5, <2>3, <3>1 DEF Owned
      <3>3. Waits(q) => Knows(q, x)
        BY <3>2 DEF CancelInv, Waits
      <3>4. rs[i] \in Replies /\ Knows(rs[i], x)
        BY <2>3 DEF Knows
      <3>5. Waits(q) => q = rs[i]
        BY <3>3, <3>4 DEF TokenInv
      <3> QED
        BY <1>2, <2>3, <3>2, <3>5 DEF Holds
    <2> QED
      BY <2>1, <2>2, <2>3
  <1> QED
    BY <1>2, <1>3, <1>4, <1>5, PostedCancels

LEMMA HandleCancels ==
    ASSUME UserTokens \subseteq {EmptyToken}, TypeOK, OneEnd, TokenInv, CancelInv, HandleEvent
    PROVE  CancelInv'
  <1>1. ASSUME UNCHANGED <<reply, userQueue, exchangeMap>> PROVE CancelInv'
    BY <1>1, QuietCancels DEF Owned, Registered
  <1>2. ASSUME NEW r \in Replies, StartRequest(r) PROVE CancelInv'
    BY <1>2, StartCancels
  <1>3. ASSUME NEW r \in Replies, SkipRequest(r) PROVE CancelInv'
    BY <1>1, <1>3 DEF SkipRequest
  <1>4. ASSUME NEW r \in Replies, OnCancelObserve(r) PROVE CancelInv'
    <2>1. <<r>> \in Seq(Replies)
      OBVIOUS
    <2> QED
      BY <1>1, <1>4, <2>1, CancelAllCancels DEF OnCancelObserve
  <1>5. ASSUME NEW h \in Hosts \cup {Group}, OnCancelObserveUrl(h) PROVE CancelInv'
    <2> DEFINE owners == {exchangeMap[t].reply : t \in {x \in Tokens : Registered(x)}}
               chosen == {r \in owners : reply[r].host = h /\ (Tracked(r) => Cancellable(r))}
    <2>1. chosen \subseteq Replies
      BY RegisteredType DEF Exchange
    <2>2. CASE \E rs \in SetToSeqs(chosen) : CancelAll(rs)
      BY <1>5, <2>1, <2>2, OrderType, CancelAllCancels DEF OnCancelObserveUrl
    <2>3. CASE UNCHANGED <<exchangeMap, userQueue>>
      BY <1>1, <1>5, <2>3 DEF OnCancelObserveUrl
    <2> QED
      BY <1>5, <2>2, <2>3 DEF OnCancelObserveUrl
  <1>6. ASSUME NEW r \in Replies, RelayFinished(r) PROVE CancelInv'
    <2>1. PICK s : s = <<Event("clientFinished", r, "-")>>
      OBVIOUS
    <2>2. s \in Seq(UserEvent) /\ userQueue' = userQueue \o s
      BY <1>6, <2>1 DEF RelayFinished, Event, UserEvent, TypeOK
    <2>3. /\ \A i \in DOMAIN s : s[i].slot # "_q_setRunning"
          /\ \A q \in Replies : ~Holds(s, Note(q))
      BY <2>1 DEF Holds, Note, Event
    <2>4. \A q \in Replies, x \in Tokens : Owned(q, x)' =>
             /\ Owned(q, x)
             /\ exchangeMap'[x].cancelled => exchangeMap[x].cancelled /\ ~Holds(s, Note(q))
      BY <1>6, <2>3 DEF RelayFinished, Owned, Registered
    <2>5. UNCHANGED reply
      BY <1>6 DEF RelayFinished
    <2> QED
      BY <2>2, <2>3, <2>4, <2>5, WorkerCancels
  <1>7. ASSUME NEW t \in Tokens \cup {EmptyToken}, OnRequestAborted(t) PROVE CancelInv'
    <2>1. CASE t = EmptyToken
      BY <1>1, <1>7, <2>1 DEF OnRequestAborted
    <2>2. CASE t # EmptyToken
      <3>1. t \in Tokens /\ exchangeMap' = [exchangeMap EXCEPT ![t] = NoExchange]
            /\ UNCHANGED <<reply, userQueue>>
        BY <1>7, <2>2 DEF OnRequestAborted, Forget
      <3>2. \A q \in Replies, x \in Tokens : Owned(q, x)' =>
               Owned(q, x) /\ exchangeMap'[x].cancelled = exchangeMap[x].cancelled
        BY <3>1, OneExchange
      <3> QED
        BY <3>1, <3>2, QuietCancels
    <2> QED
      BY <2>1, <2>2
  <1> QED
    BY <1>2, <1>3, <1>4, <1>5, <1>6, <1>7 DEF HandleEvent

\* The exchange of token t ends or goes on with its mark, and its reply is posted s.
LEMMA OwnerCancels ==
    ASSUME TypeOK, OneEnd, CancelInv, NEW t \in Tokens, Registered(t), UNCHANGED reply,
           NEW r \in Replies, r = exchangeMap[t].reply,
           NEW s \in Seq(UserEvent), Post(r, s), \A i \in DOMAIN s : s[i].slot # "_q_setRunning",
           NEW e, exchangeMap' = [exchangeMap EXCEPT ![t] = e],
           \/ e = NoExchange
           \/ /\ e \in Exchange /\ e.reply = r /\ e.cancelled = exchangeMap[t].cancelled
              /\ e.cancelled => ~Holds(s, Note(r)),
           \A i \in DOMAIN s : s[i].reply = r
    PROVE  CancelInv'
  <1>1. \A q \in Replies, x \in Tokens : Owned(q, x)' =>
           Owned(q, x) /\ exchangeMap'[x].cancelled = exchangeMap[x].cancelled
    BY OneExchange
  <1>2. <<>> \in Seq(UserEvent)
    OBVIOUS
  <1>3. PICK w \in Seq(UserEvent) : w = (IF Alive(r) THEN s ELSE <<>>)
    BY <1>2
  <1>4. userQueue' = userQueue \o w
    BY <1>3 DEF Post
  <1>5. \A i \in DOMAIN w : w[i].slot # "_q_setRunning"
    BY <1>3
  <1>6. ASSUME NEW q \in Replies, NEW x \in Tokens, Owned(q, x)', exchangeMap'[x].cancelled
        PROVE  ~Holds(w, Note(q))
    <2>1. CASE q # r
      BY <1>3, <2>1 DEF Holds, Note, Event
    <2>2. CASE q = r
      <3>1. x = t
        BY <1>1, <1>6, <2>2 DEF OneEnd, OwnedOnce, Owned
      <3>2. exchangeMap'[t] = e
        BY DEF TypeOK
      <3>3. ~Holds(s, Note(r))
        BY <1>6, <3>1, <3>2 DEF Owned, Registered
      <3> QED
        BY <1>3, <2>2, <3>3 DEF Holds
    <2> QED
      BY <2>1, <2>2
  <1> QED
    BY <1>1, <1>4, <1>5, <1>6, WorkerCancels
LEMMA RestartedMark ==
    ASSUME NEW e \in Exchange PROVE Restarted(e).cancelled = e.cancelled
  BY DEF Restarted, Exchange

LEMMA AcceptedMark ==
    ASSUME TypeOK, NEW t \in Tokens, Registered(t)
    PROVE  /\ Accepted(t).cancelled = exchangeMap[t].cancelled
           /\ exchangeMap[t].cancelled => ~Accepted(t).observe
  BY RegisteredType DEF Accepted, Stopped, Exchange

\* A frame for a cancelled observation brings no notification.
LEMMA FrameCancels ==
    ASSUME TypeOK, OneEnd, CancelInv, ReadFrame PROVE CancelInv'
  <1> SUFFICES ASSUME NEW f \in ServerFrames, NEW t \in Tokens, OnFrameReceived(f, t)
               PROVE  CancelInv'
    BY DEF ReadFrame
  <1>1. /\ Registered(t) /\ UNCHANGED reply
    BY DEF OnFrameReceived, ReceiveError, ReceiveBlock, ReceiveUnwanted, ReceiveEmptyAck,
           ReceiveResponse, Matches
  <1>2. PICK r \in Replies : r = exchangeMap[t].reply
    BY <1>1, RegisteredType DEF Exchange
  <1>3. /\ Accepted(t) \in Exchange /\ Accepted(t).reply = r
        /\ Accepted(t).cancelled = exchangeMap[t].cancelled
        /\ exchangeMap[t].cancelled => ~Accepted(t).observe
    BY <1>1, <1>2, AcceptedType, AcceptedMark
  <1>4. ASSUME NEW e, exchangeMap' = [exchangeMap EXCEPT ![t] = e], UNCHANGED userQueue,
               e = NoExchange \/ (e \in Exchange /\ e.reply = r /\ e.cancelled = exchangeMap[t].cancelled)
        PROVE  CancelInv'
    <2>1. \A q \in Replies, x \in Tokens : Owned(q, x)' =>
             Owned(q, x) /\ exchangeMap'[x].cancelled = exchangeMap[x].cancelled
      BY <1>1, <1>2, <1>4, OneExchange
    <2> QED
      BY <1>1, <1>4, <2>1, QuietCancels
  <1>5. CASE ReceiveError(f, t)
    <2>1. PICK s : s = <<Event("_q_setContent", r, "Error"), End(r)>>
      OBVIOUS
    <2>2. /\ s \in Seq(UserEvent) /\ \A i \in DOMAIN s : s[i].slot # "_q_setRunning" /\ s[i].reply = r
      BY <2>1 DEF Event, UserEvent, End
    <2>3. Post(r, s) /\ exchangeMap' = [exchangeMap EXCEPT ![t] = NoExchange]
      BY <1>2, <1>5, <2>1 DEF ReceiveError, End, Forget
    <2> QED
      BY <1>1, <1>2, <2>2, <2>3, OwnerCancels
  <1>6. CASE ReceiveBlock(f, t)
    <2>1. PICK m, h : m \in FreeIds /\ Transmit(t, [Accepted(t) EXCEPT !.mid = m], h)
      BY <1>6 DEF ReceiveBlock
    <2>2. PICK e \in Exchange : e = [Accepted(t) EXCEPT !.mid = m] /\ e.reply = r
                                /\ e.inProgress = Accepted(t).inProgress
                                /\ e.cancelled = exchangeMap[t].cancelled
      <3>1. m \in MessageIds
        BY <2>1 DEF FreeIds
      <3>2. \A x \in Exchange : /\ [x EXCEPT !.mid = m] \in Exchange
                                /\ [x EXCEPT !.mid = m].reply = x.reply
                                /\ [x EXCEPT !.mid = m].inProgress = x.inProgress
                                /\ [x EXCEPT !.mid = m].cancelled = x.cancelled
        BY <3>1 DEF Exchange
      <3> QED
        BY <1>3, <3>2
    <2>3. /\ Restarted(e) \in Exchange /\ Restarted(e).reply = r
          /\ Restarted(e).cancelled = exchangeMap[t].cancelled
      <3>1. reply[e.reply].host = Group \/ ~e.inProgress
        BY <1>1, <1>2, <2>2, AcceptedType
      <3> QED
        BY <2>2, <3>1, RestartedType, RestartedMark
    <2>4. exchangeMap' = [exchangeMap EXCEPT ![t] = Restarted(e)] /\ UNCHANGED userQueue
      BY <1>6, <2>1, <2>2 DEF Transmit, ReceiveBlock
    <2> QED
      BY <1>4, <2>3, <2>4
  <1>7. CASE ReceiveUnwanted(f, t)
    BY <1>4, <1>7 DEF ReceiveUnwanted, Forget
  <1>8. CASE ReceiveEmptyAck(f, t)
    BY <1>3, <1>4, <1>8 DEF ReceiveEmptyAck
  <1>9. CASE ReceiveResponse(f, t)
    <2>1. f.code \in {"Empty", "Content"}
      BY <1>9, FrameType DEF Frame, ReceiveResponse
    <2>2. PICK c : c = Event("_q_setContent", r, f.code)
      OBVIOUS
    <2>3. c \in UserEvent /\ c.slot = "_q_setContent" /\ c.reply = r /\ c # Note(r)
      BY <2>1, <2>2 DEF Event, UserEvent, Note
    <2>4. PICK last : last = IF Accepted(t).observe THEN <<Note(r)>>
                             ELSE IF IsMulticast(t) THEN <<>> ELSE <<End(r)>>
      OBVIOUS
    <2>5. PICK s : s = <<c>> \o last
      OBVIOUS
    <2>6. PICK e : e = IF Accepted(t).observe \/ IsMulticast(t) THEN Accepted(t) ELSE NoExchange
      OBVIOUS
    <2>7. Post(r, s) /\ exchangeMap' = [exchangeMap EXCEPT ![t] = e]
      BY <1>2, <1>9, <2>2, <2>4, <2>5, <2>6 DEF ReceiveResponse, Forget, Note, End
    <2>8. /\ Note(r) \in UserEvent /\ Note(r).slot = "_q_setNotified" /\ Note(r).reply = r
          /\ End(r) \in UserEvent /\ End(r).slot = "_q_setFinished" /\ End(r).reply = r
          /\ Note(r) # End(r)
      BY DEF Note, End, Event, UserEvent
    <2> HIDE DEF Note, End
    <2>9. /\ s \in Seq(UserEvent) /\ \A i \in DOMAIN s : s[i].slot # "_q_setRunning" /\ s[i].reply = r
          /\ Accepted(t).observe \/ ~Holds(s, Note(r))
      <3>1. CASE last = <<>>
        <4>1. s = <<c>>
          BY <2>5, <3>1
        <4> QED
          BY <2>3, <4>1 DEF Holds
      <3>2. CASE Accepted(t).observe
        <4>1. s = <<c, Note(r)>>
          BY <2>4, <2>5, <3>2, TwoEvents
        <4> QED
          BY <2>3, <2>8, <3>2, <4>1
      <3>3. CASE last = <<End(r)>>
        <4>1. s = <<c, End(r)>>
          BY <2>5, <3>3, TwoEvents
        <4> QED
          BY <2>3, <2>8, <4>1 DEF Holds
      <3> QED
        BY <2>4, <3>1, <3>2, <3>3
    <2> QED
      BY <1>1, <1>2, <1>3, <2>6, <2>7, <2>9, OwnerCancels
  <1> QED
    BY <1>5, <1>6, <1>7, <1>8, <1>9 DEF OnFrameReceived

LEMMA TimerCancels ==
    ASSUME TypeOK, OneEnd, CancelInv, NEW t \in Tokens, OnRequestTimeout(t) \/ FireTimer(t)
    PROVE  CancelInv'
  <1>1. Registered(t) /\ UNCHANGED reply
    BY DEF OnRequestTimeout, FireTimer, OnRequestMaxTransmissionSpanReached,
           OnMulticastRequestExpired, OnRequestError
  <1>2. PICK r \in Replies : r = exchangeMap[t].reply
    BY <1>1, RegisteredType DEF Exchange
  <1>3. CASE OnRequestTimeout(t) /\ CanRetransmit(t)
    <2>1. PICK e \in Exchange : e = exchangeMap[t] /\ e.counter < MaxRetransmit
      BY <1>1, <1>3, RegisteredType DEF CanRetransmit
    <2>2. /\ Restarted(e) \in Exchange /\ Restarted(e).reply = r
          /\ Restarted(e).cancelled = exchangeMap[t].cancelled
      BY <1>2, <2>1, RestartedType, RestartedMark
    <2>3. exchangeMap' = [exchangeMap EXCEPT ![t] = Restarted(e)] /\ UNCHANGED userQueue
      BY <1>3, <2>1 DEF OnRequestTimeout, Transmit
    <2>4. \A q \in Replies, x \in Tokens : Owned(q, x)' =>
             Owned(q, x) /\ exchangeMap'[x].cancelled = exchangeMap[x].cancelled
      BY <1>1, <1>2, <2>2, <2>3, OneExchange
    <2> QED
      BY <1>1, <2>3, <2>4, QuietCancels
  <1>4. ASSUME NEW s \in Seq(UserEvent), Post(r, s), Forget(t),
               \A i \in DOMAIN s : s[i].slot # "_q_setRunning" /\ s[i].reply = r
        PROVE  CancelInv'
    <2>1. exchangeMap' = [exchangeMap EXCEPT ![t] = NoExchange]
      BY <1>4 DEF Forget
    <2> QED
      BY <1>1, <1>2, <1>4, <2>1, OwnerCancels
  <1>5. CASE OnRequestError(t)
    <2>1. /\ ErrorEvents(r) \in Seq(UserEvent)
          /\ \A i \in DOMAIN ErrorEvents(r) :
                ErrorEvents(r)[i].slot # "_q_setRunning" /\ ErrorEvents(r)[i].reply = r
      BY DEF ErrorEvents, Event, UserEvent
    <2> QED
      BY <1>2, <1>4, <1>5, <2>1 DEF OnRequestError
  <1>6. CASE OnMulticastRequestExpired(t)
    <2>1. /\ <<End(r)>> \in Seq(UserEvent)
          /\ \A i \in DOMAIN <<End(r)>> :
                <<End(r)>>[i].slot # "_q_setRunning" /\ <<End(r)>>[i].reply = r
      BY DEF End, Event, UserEvent
    <2>2. Post(r, <<End(r)>>) /\ Forget(t)
      BY <1>2, <1>6 DEF OnMulticastRequestExpired, End
    <2> QED
      BY <1>4, <2>1, <2>2
  <1> QED
    BY <1>3, <1>5, <1>6 DEF OnRequestTimeout, FireTimer, OnRequestMaxTransmissionSpanReached

\* Whoever aborts, deletes or answers meanwhile, cancelObserve() marks the exchange of the very
\* reply it tells, and nothing is notified to that reply behind the news - as long as no token
\* is used for two requests.
THEOREM CancelledAreTold ==
    ASSUME ~ReuseTokens, UserTokens \subseteq {EmptyToken}
    PROVE  Spec => []CancelledIsTold
  <1>1. Init => CancelInv
    <2> SUFFICES ASSUME Init PROVE CancelInv
      OBVIOUS
    <2>1. /\ userQueue = <<>> /\ \A t \in Tokens : exchangeMap[t] = NoExchange
          /\ \A r \in Replies : reply[r].token = EmptyToken
      BY DEF Init
    <2>2. \A r \in Replies, t \in Tokens : ~Knows(r, t) /\ ~Owned(r, t)
      BY <2>1, TokenAssumption DEF Knows, Holds, Owned, Registered
    <2> QED
      BY <2>2 DEF CancelInv
  <1>2. TypeOK /\ OneEnd /\ TokenInv /\ CancelInv /\ [Next]_vars => CancelInv'
    <2> SUFFICES ASSUME TypeOK, OneEnd, TokenInv, CancelInv, [Next]_vars PROVE CancelInv'
      OBVIOUS
    <2>1. CASE UNCHANGED vars
      BY <2>1, QuietCancels DEF vars, Owned, Registered
    <2> QED
      BY <2>1, UserCancels, SlotCancels, HandleCancels, FrameCancels, TimerCancels DEF Next
  <1>3. TypeOK /\ CancelInv => CancelledIsTold
    <2> SUFFICES ASSUME TypeOK, CancelInv, NEW t \in Tokens, Registered(t), exchangeMap[t].cancelled,
                        NEW r, r = exchangeMap[t].reply, Alive(r), ~reply[r].finished
                 PROVE  /\ ToldAfter(r, 0)
                        /\ \A i \in DOMAIN userQueue :
                              userQueue[i].slot = "_q_setNotified" /\ userQueue[i].reply = r =>
                                 ToldAfter(r, i)
      BY DEF CancelledIsTold
    <2>1. r \in Replies /\ userQueue \in Seq(UserEvent)
      BY RegisteredType DEF Exchange, TypeOK
    <2>2. PICK k \in DOMAIN userQueue :
             /\ userQueue[k] = Cancel(r)
             /\ \A i \in DOMAIN userQueue : userQueue[i] = Note(r) => i < k
      BY <2>1 DEF CancelInv, Owned, Waits, Told
    <2>3. k > 0 /\ userQueue[k].slot = "_q_setObserveCancelled" /\ userQueue[k].reply = r
      BY <2>1, <2>2 DEF Cancel, Event
    <2>4. ASSUME NEW i \in DOMAIN userQueue, userQueue[i].slot = "_q_setNotified",
                 userQueue[i].reply = r
          PROVE  k > i
      <3>1. userQueue[i] \in UserEvent
        BY <2>1
      <3>2. userQueue[i] = Note(r)
        BY <2>4, <3>1 DEF UserEvent, Note, Event
      <3> QED
        BY <2>1, <2>2, <3>2
    <2> QED
      BY <2>3, <2>4 DEF ToldAfter
  <1> QED
    BY <1>1, <1>2, <1>3, TokensKept, TypeCorrect, OneEndHolds, PTL DEF Spec
=============================================================================
