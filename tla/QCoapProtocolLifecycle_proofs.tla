-------------------- MODULE QCoapProtocolLifecycle_proofs --------------------
(***************************************************************************)
(* QCoapProtocol implements CoapRequestLifecycle, for every number of      *)
(* replies, tokens, ids and hosts, and also when tokens are chosen by the  *)
(* user or used again.  Step by step: a step of the two threads moves at   *)
(* most one reply to its next phase or outcome, but for the request that   *)
(* takes over the token of another.                                        *)
(***************************************************************************)
EXTENDS QCoapProtocolEvents_proofs

(***************************************************************************)
(* What the phase of a reply is made of, and when it stays.                *)
(***************************************************************************)

\* In a state where the parts exclude each other, the first that holds decides.
LEMMA PhaseOf ==
    ASSUME OneEnd, NEW r \in Replies
    PROVE  Phase(r) = IF reply[r].stage = "none" THEN "new"
                      ELSE IF Holds(protocolQueue, Call(r)) THEN "posted"
                      ELSE IF HasExchange(r) THEN "tracked" ELSE "over"
  <1>1. /\ reply[r].stage = "none" => ~Holds(protocolQueue, Call(r)) /\ ~HasExchange(r)
        /\ Holds(protocolQueue, Call(r)) => ~HasExchange(r)
    BY DEF OneEnd, SentOnce, Unbegun
  <1> QED
    BY <1>1 DEF Phase, Holds, Call

LEMMA NextPhaseOf ==
    ASSUME OneEnd', NEW r \in Replies
    PROVE  Phase(r)' = IF reply'[r].stage = "none" THEN "new"
                       ELSE IF Holds(protocolQueue', Call(r)) THEN "posted"
                       ELSE IF HasExchange(r)' THEN "tracked" ELSE "over"
  <1>1. /\ reply'[r].stage = "none" => ~Holds(protocolQueue', Call(r)) /\ ~HasExchange(r)'
        /\ Holds(protocolQueue', Call(r)) => ~HasExchange(r)'
    BY DEF OneEnd, SentOnce, Unbegun
  <1> QED
    BY <1>1 DEF Phase, Holds, Call

StagesSame == \A q \in Replies : reply'[q].stage = "none" <=> reply[q].stage = "none"
CallsSame == \A q \in Replies : Holds(protocolQueue', Call(q)) <=> Holds(protocolQueue, Call(q))
ExchangesSame == \A q \in Replies : HasExchange(q)' <=> HasExchange(q)
CausesSame == \A q \in Replies : signals'[q].cause = signals[q].cause
PhasesSame == \A q \in Replies : Phase(q)' = Phase(q)

LEMMA SamePhases ==
    ASSUME OneEnd, OneEnd', StagesSame, CallsSame, ExchangesSame PROVE PhasesSame
  BY PhaseOf, NextPhaseOf DEF StagesSame, CallsSame, ExchangesSame, PhasesSame

(***************************************************************************)
(* The steps of the lifecycle, in terms of the phases and causes.          *)
(***************************************************************************)

LEMMA SameLifecycle ==
    ASSUME PhasesSame, CausesSame PROVE UNCHANGED Lifecycle!lifecycleVars
  BY DEF Lifecycle!lifecycleVars, CausesSame, PhasesSame

LEMMA MoveStep ==
    ASSUME NEW r \in Replies, \A q \in Replies \ {r} : Phase(q)' = Phase(q), CausesSame,
           \/ Phase(r) = "new" /\ Phase(r)' = "posted"
           \/ Phase(r) = "posted" /\ Phase(r)' \in {"tracked", "over"}
           \/ Phase(r) = "tracked" /\ Phase(r)' = "over"
    PROVE  Lifecycle!LifecycleNext
  <1>1. [q \in Replies |-> Phase(q)]' =
           [[q \in Replies |-> Phase(q)] EXCEPT ![r] = Phase(r)']
    OBVIOUS
  <1>2. UNCHANGED [q \in Replies |-> signals[q].cause]
    BY DEF CausesSame
  <1>3. CASE Phase(r) = "new" /\ Phase(r)' = "posted"
    <2>1. Lifecycle!Post(r)
      BY <1>1, <1>2, <1>3 DEF Lifecycle!Post, Lifecycle!Move
    <2> QED
      BY <2>1 DEF Lifecycle!LifecycleNext
  <1>4. CASE Phase(r) = "posted" /\ Phase(r)' = "tracked"
    <2>1. Lifecycle!Begin(r)
      BY <1>1, <1>2, <1>4 DEF Lifecycle!Begin
    <2> QED
      BY <2>1 DEF Lifecycle!LifecycleNext
  <1>5. CASE Phase(r) = "posted" /\ Phase(r)' = "over"
    <2>1. Lifecycle!Drop(r)
      BY <1>1, <1>2, <1>5 DEF Lifecycle!Drop, Lifecycle!Move
    <2> QED
      BY <2>1 DEF Lifecycle!LifecycleNext
  <1>6. CASE Phase(r) = "tracked" /\ Phase(r)' = "over"
    <2>1. Lifecycle!End(r)
      BY <1>1, <1>2, <1>6 DEF Lifecycle!End, Lifecycle!Move
    <2> QED
      BY <2>1 DEF Lifecycle!LifecycleNext
  <1> QED
    BY <1>3, <1>4, <1>5, <1>6

\* Request r takes over the token of request s.
LEMMA TakeOverStep ==
    ASSUME NEW r \in Replies, NEW s \in Replies \ {r}, CausesSame,
           Phase(r) = "posted", Phase(r)' = "tracked", Phase(s) = "tracked", Phase(s)' = "over",
           \A q \in Replies \ {r, s} : Phase(q)' = Phase(q)
    PROVE  Lifecycle!LifecycleNext
  <1>1. [q \in Replies |-> Phase(q)]' =
           [[q \in Replies |-> Phase(q)] EXCEPT ![r] = "tracked", ![s] = "over"]
    OBVIOUS
  <1>2. UNCHANGED [q \in Replies |-> signals[q].cause]
    BY DEF CausesSame
  <1>3. Lifecycle!Begin(r)
    BY <1>1, <1>2 DEF Lifecycle!Begin
  <1> QED
    BY <1>3 DEF Lifecycle!LifecycleNext

\* The outcome of r is reached: completed when it is over, withdrawn when it is not new.
LEMMA ReachStep ==
    ASSUME NEW r \in Replies, PhasesSame, signals[r].cause = "none",
           \A q \in Replies \ {r} : signals'[q].cause = signals[q].cause,
           \/ Phase(r) = "over" /\ signals'[r].cause = "completed"
           \/ Phase(r) # "new" /\ signals'[r].cause = "withdrawn"
    PROVE  Lifecycle!LifecycleNext
  <1>1. [q \in Replies |-> signals[q].cause]' =
           [[q \in Replies |-> signals[q].cause] EXCEPT ![r] = signals'[r].cause]
    OBVIOUS
  <1>2. UNCHANGED [q \in Replies |-> Phase(q)]
    BY DEF PhasesSame
  <1>3. CASE Phase(r) = "over" /\ signals'[r].cause = "completed"
    <2>1. Lifecycle!Complete(r)
      BY <1>1, <1>2, <1>3 DEF Lifecycle!Complete, Lifecycle!Reach
    <2> QED
      BY <2>1 DEF Lifecycle!LifecycleNext
  <1>4. CASE Phase(r) # "new" /\ signals'[r].cause = "withdrawn"
    <2>1. Lifecycle!Withdraw(r)
      BY <1>1, <1>2, <1>4 DEF Lifecycle!Withdraw, Lifecycle!Reach
    <2> QED
      BY <2>1 DEF Lifecycle!LifecycleNext
  <1> QED
    BY <1>3, <1>4

(***************************************************************************)
(* What leaves the parts of the phase alone.                               *)
(***************************************************************************)

LEMMA AddedSame ==
    ASSUME TypeOK, NEW s \in Seq(ProtocolEvent), protocolQueue' = protocolQueue \o s,
           \A i \in DOMAIN s : s[i].op # "sendRequest"
    PROVE  CallsSame
  <1>1. CallsKept /\ protocolQueue \in Seq(ProtocolEvent)
    BY AddedCalls DEF TypeOK
  <1> QED
    BY <1>1, StaysInQueue DEF CallsKept, CallsSame

LEMMA TakenSame ==
    ASSUME TypeOK, NEW op, NEW a, NextEvent(op, a)
    PROVE  \A q \in Replies : op # "sendRequest" \/ q # a =>
              (Holds(protocolQueue', Call(q)) <=> Holds(protocolQueue, Call(q)))
  <1>1. CallsKept /\ protocolQueue \in Seq(ProtocolEvent)
    BY TakenCalls DEF TypeOK
  <1>2. /\ protocolQueue # <<>> /\ Head(protocolQueue) = [op |-> op, arg |-> a]
        /\ protocolQueue' = Tail(protocolQueue)
    BY DEF NextEvent
  <1>3. \A q \in Replies : op # "sendRequest" \/ q # a => Call(q) # Head(protocolQueue)
    BY <1>2 DEF Call
  <1> QED
    BY <1>1, <1>2, <1>3, StaysInQueue DEF CallsKept

\* The exchange of t stays registered for its reply.
LEMMA ExchangeSame ==
    ASSUME TypeOK, NEW t \in Tokens, Registered(t), NEW e \in Exchange,
           exchangeMap' = [exchangeMap EXCEPT ![t] = e], e.reply = exchangeMap[t].reply
    PROVE  ExchangesSame
  <1>1. exchangeMap'[t] = e /\ \A s \in Tokens \ {t} : exchangeMap'[s] = exchangeMap[s]
    BY DEF TypeOK
  <1>2. Registered(t)'
    BY <1>1, ExchangeAssumption DEF Registered
  <1> QED
    BY <1>1, <1>2 DEF ExchangesSame, HasExchange, Registered

LEMMA CancelAllSame ==
    ASSUME TypeOK, NEW rs, CancelAll(rs) PROVE ExchangesSame
  <1>1. ASSUME NEW t \in Tokens
        PROVE  /\ Registered(t)' <=> Registered(t)
               /\ Registered(t) => exchangeMap'[t].reply = exchangeMap[t].reply
    <2>1. \/ exchangeMap'[t] = exchangeMap[t]
          \/ /\ Registered(t)
             /\ exchangeMap'[t] = [exchangeMap[t] EXCEPT !.cancelled = TRUE]
      BY DEF CancelAll, Registered
    <2>2. Registered(t) => /\ [exchangeMap[t] EXCEPT !.cancelled = TRUE] \in Exchange
                           /\ [exchangeMap[t] EXCEPT !.cancelled = TRUE].reply = exchangeMap[t].reply
      BY RegisteredType DEF Exchange
    <2> QED
      BY <2>1, <2>2, ExchangeAssumption DEF Registered
  <1> QED
    BY <1>1 DEF ExchangesSame, HasExchange

\* When the exchange of t is forgotten, its reply is over and no other changes phase.
LEMMA ForgetStep ==
    ASSUME TypeOK, OneEnd, OneEnd', NEW t \in Tokens, Forget(t), StagesSame, CallsSame, CausesSame
    PROVE  Lifecycle!LifecycleNext \/ UNCHANGED Lifecycle!lifecycleVars
  <1>1. exchangeMap'[t] = NoExchange /\ \A s \in Tokens \ {t} : exchangeMap'[s] = exchangeMap[s]
    BY DEF Forget, TypeOK
  <1>2. CASE ~Registered(t)
    <2>1. ExchangesSame
      BY <1>1, <1>2 DEF ExchangesSame, HasExchange, Registered
    <2> QED
      BY <2>1, SamePhases, SameLifecycle
  <1>3. CASE Registered(t)
    <2>1. PICK r \in Replies : r = exchangeMap[t].reply
      BY <1>3, RegisteredType DEF Exchange
    <2>2. HasExchange(r) /\ ~HasExchange(r)'
      BY <1>1, <1>3, <2>1 DEF OneEnd, OwnedOnce, HasExchange, Registered
    <2>3. \A q \in Replies \ {r} : HasExchange(q)' <=> HasExchange(q)
      BY <1>1, <2>1 DEF HasExchange, Registered
    <2>4. \A q \in Replies \ {r} : Phase(q)' = Phase(q)
      BY <2>3, PhaseOf, NextPhaseOf DEF StagesSame, CallsSame
    <2>5. reply[r].stage # "none" /\ ~Holds(protocolQueue, Call(r))
      BY <2>2 DEF OneEnd, SentOnce, Unbegun
    <2>6. Phase(r) = "tracked" /\ Phase(r)' = "over"
      BY <2>2, <2>5, PhaseOf, NextPhaseOf DEF StagesSame, CallsSame
    <2> QED
      BY <2>4, <2>6, MoveStep
  <1> QED
    BY <1>2, <1>3

(***************************************************************************)
(* The cause of the end of a reply is set with its first finished().       *)
(***************************************************************************)

CauseCounted == \A r \in Replies : signals[r].cause = "none" <=> signals[r].finished = 0

LEMMA SameCounted ==
    ASSUME CauseCounted, CausesSame,
           \A q \in Replies : signals'[q].finished = signals[q].finished
    PROVE  CauseCounted'
  BY DEF CauseCounted, CausesSame

\* Every step leaves the causes alone, or emits finished() for one reply that has none.
Emits(r, cause) ==
    /\ ~reply[r].finished
    /\ signals' = Finished(r, cause)

LEMMA SlotCauses ==
    ASSUME TypeOK, NEW r \in Replies,
           \/ SetRunning(r) \/ SetContent(r) \/ SetNotified(r) \/ SetFinished(r)
           \/ SetError(r) \/ SetObserveCancelled(r) \/ ClientFinished(r)
           \/ \E s \in ReplySlots : DropEvent(s, r)
    PROVE  \/ CausesSame /\ \A q \in Replies : signals'[q].finished = signals[q].finished
           \/ SetFinished(r) /\ Emits(r, "completed")
           \/ SetObserveCancelled(r) /\ Emits(r, "withdrawn")
  <1>1. CASE UNCHANGED signals
    BY <1>1 DEF CausesSame
  <1>2. CASE SetNotified(r) \/ SetError(r)
    BY <1>1, <1>2 DEF SetNotified, SetError
  <1>4. CASE ClientFinished(r)
    BY <1>4 DEF ClientFinished, CausesSame, TypeOK, Signals
  <1>5. CASE SetFinished(r)
    BY <1>1, <1>5 DEF SetFinished, EmitFinished, Emits
  <1>6. CASE SetObserveCancelled(r)
    BY <1>1, <1>6 DEF SetObserveCancelled, EmitFinished, Emits
  <1>7. CASE SetRunning(r) \/ SetContent(r) \/ \E s \in ReplySlots : DropEvent(s, r)
    BY <1>1, <1>7 DEF SetRunning, SetContent, DropEvent
  <1> QED
    BY <1>2, <1>4, <1>5, <1>6, <1>7

\* Outside the user thread nothing is emitted.
LEMMA WorkerCauses ==
    ASSUME HandleEvent \/ ReadFrame \/ \E t \in Tokens : OnRequestTimeout(t) \/ FireTimer(t)
    PROVE  UNCHANGED signals
  <1>1. CASE HandleEvent
    BY <1>1 DEF HandleEvent, StartRequest, SkipRequest, OnCancelObserve, RelayFinished,
       OnRequestAborted, OnCancelObserveUrl
  <1>2. CASE ReadFrame
    BY <1>2 DEF ReadFrame, OnFrameReceived, ReceiveError, ReceiveBlock, ReceiveUnwanted,
       ReceiveEmptyAck, ReceiveResponse
  <1>3. CASE \E t \in Tokens : OnRequestTimeout(t) \/ FireTimer(t)
    BY <1>3 DEF OnRequestTimeout, FireTimer, OnRequestMaxTransmissionSpanReached,
       OnMulticastRequestExpired, OnRequestError
  <1> QED
    BY <1>1, <1>2, <1>3

LEMMA CauseCountedHolds == Spec => []CauseCounted
  <1>1. Init => CauseCounted
    BY DEF Init, CauseCounted
  <1>2. TypeOK /\ CauseCounted /\ [Next]_vars => CauseCounted'
    <2> SUFFICES ASSUME TypeOK, CauseCounted, [Next]_vars PROVE CauseCounted'
      OBVIOUS
    <2>1. CASE UNCHANGED signals
      BY <2>1 DEF CauseCounted
    <2>2. ASSUME NEW r \in Replies, NEW cause \in {"completed", "withdrawn"},
                 signals' = Finished(r, cause)
          PROVE  CauseCounted'
      <3>1. signals[r].finished \in Nat
        BY DEF TypeOK, Signals
      <3>2. signals'[r].finished # 0 /\ signals'[r].cause # "none"
        BY <2>2, <3>1, FinishedSignals
      <3>3. \A q \in Replies \ {r} : signals'[q] = signals[q]
        BY <2>2, FinishedSignals
      <3> QED
        BY <3>2, <3>3 DEF CauseCounted
    <2>3. CASE UserOperation
      BY <2>1, <2>2, <2>3 DEF UserOperation, Send, Abort, Delete, AbortReply, CancelObserve,
         CancelObserveUrl
    <2>4. CASE RunSlot
      BY <2>2, <2>4, SlotCauses, SameCounted DEF RunSlot, Emits
    <2>5. CASE UNCHANGED vars
      BY <2>1, <2>5 DEF vars
    <2> QED
      BY <2>1, <2>3, <2>4, <2>5, WorkerCauses DEF Next
  <1> QED
    BY <1>1, <1>2, TypeCorrect, PTL DEF Spec

(***************************************************************************)
(* Every step is a step of the lifecycle or leaves it alone.               *)
(***************************************************************************)

LifecycleStep == Lifecycle!LifecycleNext \/ UNCHANGED Lifecycle!lifecycleVars

LEMMA UserLifecycle ==
    ASSUME TypeOK, OneEnd, OneEnd', FinishedOnce, CauseCounted, UserOperation
    PROVE  LifecycleStep
  <1>1. ExchangesSame
    BY DEF UserOperation, Send, Abort, Delete, CancelObserve, CancelObserveUrl, ExchangesSame,
       HasExchange, Registered
  <1>2. protocolQueue \in Seq(ProtocolEvent)
    BY DEF TypeOK
  <1>3. ASSUME NEW r \in Replies, Send(r) PROVE LifecycleStep
    <2>1. /\ reply[r].stage = "none" /\ reply'[r].stage # "none"
          /\ \A q \in Replies \ {r} : reply'[q] = reply[q]
      BY <1>3 DEF Send, TypeOK, Reply
    <2>2. /\ <<Call(r)>> \in Seq(ProtocolEvent) /\ protocolQueue' = protocolQueue \o <<Call(r)>>
      BY <1>2, <1>3 DEF Send, Call, ProtocolEvent
    <2>3. Holds(protocolQueue', Call(r))
      <3>1. /\ Len(protocolQueue) + 1 \in DOMAIN protocolQueue'
            /\ protocolQueue'[Len(protocolQueue) + 1] = Call(r)
        BY <1>2, <2>2
      <3> QED
        BY <3>1 DEF Holds
    <2>4. \A q \in Replies \ {r} : ~Holds(<<Call(r)>>, Call(q))
      BY DEF Holds, Call
    <2>5. \A q \in Replies \ {r} : Holds(protocolQueue', Call(q)) <=> Holds(protocolQueue, Call(q))
      BY <1>2, <2>2, <2>4, AddedEvents, StaysInQueue
    <2>6. \A q \in Replies \ {r} : Phase(q)' = Phase(q)
      BY <1>1, <2>1, <2>5, PhaseOf, NextPhaseOf DEF ExchangesSame
    <2>7. Phase(r) = "new" /\ Phase(r)' = "posted"
      BY <2>1, <2>3, PhaseOf, NextPhaseOf
    <2>8. CausesSame
      BY <1>3 DEF Send, CausesSame
    <2> QED
      BY <2>6, <2>7, <2>8, MoveStep DEF LifecycleStep
  <1>4. ASSUME NEW r \in Replies, Abort(r) \/ Delete(r) PROVE LifecycleStep
    <2>1. PICK stage \in {"alive", "deleted"} : AbortReply(r, stage)
      BY <1>4 DEF Abort, Delete
    <2>2. reply[r].stage # "none" /\ StagesSame
      BY <1>4, <2>1 DEF Abort, Delete, Alive, AbortReply, StagesSame, TypeOK, Reply
    <2>3. /\ [op |-> "finished", arg |-> r] \in ProtocolEvent
          /\ [op |-> "aborted", arg |-> reply[r].token] \in ProtocolEvent
      BY DEF ProtocolEvent, TypeOK, Reply
    <2>4. /\ AbortEvents(r) \in Seq(ProtocolEvent)
          /\ \A i \in DOMAIN AbortEvents(r) : AbortEvents(r)[i].op # "sendRequest"
      BY <2>3 DEF AbortEvents
    <2>5. PhasesSame
      BY <1>1, <2>1, <2>2, <2>4, AddedSame, SamePhases DEF AbortReply
    <2>6. CASE UNCHANGED signals
      BY <2>5, <2>6, SameLifecycle DEF CausesSame, LifecycleStep
    <2>7. CASE ~reply[r].finished /\ signals' = Finished(r, "withdrawn")
      <3>1. /\ signals'[r].cause = "withdrawn"
            /\ \A q \in Replies \ {r} : signals'[q] = signals[q]
        BY <2>7, FinishedSignals
      <3>2. signals[r].cause = "none"
        BY <2>7 DEF FinishedOnce, CauseCounted
      <3>3. Phase(r) # "new"
        BY <2>2, PhaseOf
      <3> QED
        BY <2>5, <3>1, <3>2, <3>3, ReachStep DEF LifecycleStep
    <2> QED
      BY <2>1, <2>6, <2>7 DEF AbortReply
  <1>5. ASSUME NEW e \in ProtocolEvent, e.op # "sendRequest",
               protocolQueue' = Append(protocolQueue, e), UNCHANGED <<reply, signals>>
        PROVE  LifecycleStep
    <2>1. protocolQueue' = protocolQueue \o <<e>> /\ <<e>> \in Seq(ProtocolEvent)
          /\ \A i \in DOMAIN <<e>> : <<e>>[i].op # "sendRequest"
      BY <1>2, <1>5
    <2>2. CallsSame /\ StagesSame /\ CausesSame
      BY <1>5, <2>1, AddedSame DEF StagesSame, CausesSame
    <2> QED
      BY <1>1, <2>2, SamePhases, SameLifecycle DEF LifecycleStep
  <1>6. ASSUME NEW r \in Replies, CancelObserve(r) PROVE LifecycleStep
    <2>1. [op |-> "cancelObserve", arg |-> r] \in ProtocolEvent
      BY DEF ProtocolEvent
    <2> QED
      BY <1>5, <1>6, <2>1 DEF CancelObserve
  <1>7. ASSUME NEW h \in Targets, CancelObserveUrl(h) PROVE LifecycleStep
    <2>1. [op |-> "cancelObserveUrl", arg |-> h] \in ProtocolEvent
      BY HostAssumption DEF ProtocolEvent
    <2> QED
      BY <1>5, <1>7, <2>1 DEF CancelObserveUrl
  <1> QED
    BY <1>3, <1>4, <1>6, <1>7 DEF UserOperation

\* The slots: a reply completes when its posted end runs, and then its exchange is over.
LEMMA SlotLifecycle ==
    ASSUME TypeOK, OneEnd, OneEnd', FinishedOnce, CauseCounted, RunSlot
    PROVE  LifecycleStep
  <1> SUFFICES ASSUME NEW r \in Replies,
                      \/ SetRunning(r) \/ SetContent(r) \/ SetNotified(r) \/ SetFinished(r)
                      \/ SetError(r) \/ SetObserveCancelled(r) \/ ClientFinished(r)
                      \/ \E s \in ReplySlots : DropEvent(s, r)
               PROVE  LifecycleStep
    BY DEF RunSlot
  <1>1. PICK s : NextSlot(s, r)
    BY DEF SetRunning, SetContent, SetNotified, SetFinished, SetError, SetObserveCancelled,
       ClientFinished, DropEvent
  <1>2. ExchangesSame
    BY <1>1 DEF NextSlot, ExchangesSame, HasExchange, Registered
  <1>3. StagesSame
    <2>1. CASE UNCHANGED reply
      BY <2>1 DEF StagesSame
    <2>2. CASE SetRunning(r)
      BY <2>2 DEF SetRunning, StagesSame, TypeOK, Reply
    <2>3. CASE SetContent(r)
      BY <2>3 DEF SetContent, StagesSame, TypeOK, Reply
    <2>4. CASE SetError(r)
      BY <2>4 DEF SetError, StagesSame, TypeOK, Reply
    <2>5. ASSUME NEW cause, EmitFinished(r, cause) PROVE StagesSame
      BY <2>5 DEF EmitFinished, StagesSame, TypeOK, Reply
    <2>6. CASE SetObserveCancelled(r)
      <3>1. CASE reply' = [reply EXCEPT ![r].running = FALSE]
        BY <3>1 DEF StagesSame, TypeOK, Reply
      <3> QED
        BY <2>5, <2>6, <3>1 DEF SetObserveCancelled
    <2>7. CASE SetNotified(r) \/ SetFinished(r) \/ ClientFinished(r) \/ \E x \in ReplySlots : DropEvent(x, r)
      BY <2>1, <2>5, <2>7 DEF SetNotified, SetFinished, ClientFinished, DropEvent
    <2> QED
      BY <2>2, <2>3, <2>4, <2>6, <2>7
  <1>4. CallsSame
    <2>1. [op |-> "finished", arg |-> r] \in ProtocolEvent
      BY DEF ProtocolEvent
    <2>2. /\ FinishedEvents(r) \in Seq(ProtocolEvent)
          /\ \A i \in DOMAIN FinishedEvents(r) : FinishedEvents(r)[i].op # "sendRequest"
      BY <2>1 DEF FinishedEvents
    <2>3. CASE protocolQueue' = protocolQueue \o FinishedEvents(r)
      BY <2>2, <2>3, AddedSame
    <2>4. CASE UNCHANGED protocolQueue
      BY <2>4 DEF CallsSame
    <2> QED
      BY <2>3, <2>4 DEF SetRunning, SetContent, SetNotified, SetFinished, SetError,
         SetObserveCancelled, EmitFinished, ClientFinished, DropEvent
  <1>5. PhasesSame
    BY <1>2, <1>3, <1>4, SamePhases
  <1>6. ASSUME Alive(r), NEW cause \in {"completed", "withdrawn"}, Emits(r, cause),
               cause = "completed" => Phase(r) = "over"
        PROVE  LifecycleStep
    <2>1. /\ signals'[r].cause = cause
          /\ \A q \in Replies \ {r} : signals'[q] = signals[q]
      BY <1>6, FinishedSignals DEF Emits
    <2>2. signals[r].cause = "none"
      BY <1>6 DEF FinishedOnce, CauseCounted, Emits
    <2>3. Phase(r) # "new"
      BY <1>6, PhaseOf DEF Alive
    <2> QED
      BY <1>5, <1>6, <2>1, <2>2, <2>3, ReachStep DEF LifecycleStep
  <1>7. CASE SetFinished(r) /\ Emits(r, "completed")
    <2>1. /\ userQueue \in Seq(UserEvent) /\ userQueue # <<>>
          /\ Head(userQueue).slot = "_q_setFinished" /\ Head(userQueue).reply = r
      BY <1>7 DEF SetFinished, NextSlot, TypeOK
    <2>2. Head(userQueue) \in UserEvent
      BY <2>1
    <2>3. Head(userQueue) = End(r)
      BY <2>1, <2>2 DEF UserEvent, End, Event
    <2>4. Holds(userQueue, End(r))
      BY <2>1, <2>3, TakenEvents
    <2>5. ~HasExchange(r) /\ ~Holds(protocolQueue, Call(r))
      BY <2>4 DEF OneEnd, Ended, SentOnce, Unbegun
    <2>6. Alive(r) /\ Phase(r) = "over"
      BY <1>7, <2>5, PhaseOf DEF SetFinished, Alive
    <2> QED
      BY <1>6, <1>7, <2>6
  <1>8. CASE SetObserveCancelled(r) /\ Emits(r, "withdrawn")
    BY <1>6, <1>8 DEF SetObserveCancelled
  <1>9. CASE CausesSame
    BY <1>5, <1>9, SameLifecycle DEF LifecycleStep
  <1> QED
    BY <1>7, <1>8, <1>9, SlotCauses

\* The call of r is taken from the queue, where it was once.
LEMMA CallTaken ==
    ASSUME TypeOK, OneEnd, NEW r \in Replies, NextEvent("sendRequest", r)
    PROVE  Holds(protocolQueue, Call(r)) /\ ~Holds(protocolQueue', Call(r)) /\ ~HasExchange(r)
  <1>1. /\ protocolQueue \in Seq(ProtocolEvent) /\ protocolQueue # <<>>
        /\ Head(protocolQueue) = Call(r) /\ protocolQueue' = Tail(protocolQueue)
    BY DEF NextEvent, TypeOK, Call
  <1>2. Holds(protocolQueue, Call(r))
    BY <1>1, TakenEvents
  <1>3. AtMostOnce(protocolQueue, Head(protocolQueue))
    BY <1>1 DEF OneEnd, SentOnce
  <1>4. ~Holds(Tail(protocolQueue), Head(protocolQueue))
    BY <1>1, <1>3, TakenEvents
  <1> QED
    BY <1>1, <1>2, <1>4 DEF OneEnd, SentOnce, Unbegun

\* A request begins; a request that had its token is over.
LEMMA StartLifecycle ==
    ASSUME TypeOK, OneEnd, OneEnd', NEW r \in Replies, StartRequest(r)
    PROVE  LifecycleStep
  <1> DEFINE new(m) == [reply |-> r, mid |-> m, observe |-> reply[r].observe,
                        cancelled |-> FALSE, inProgress |-> FALSE, counter |-> 0]
  <1>1. /\ reply[r].token \in Tokens \cup {EmptyToken} /\ reply[r].observe \in BOOLEAN
        /\ reply[r].stage # "none" /\ NextEvent("sendRequest", r)
    BY DEF TypeOK, Reply, StartRequest, Alive
  <1>2. PICK m \in FreeIds,
             t \in (IF reply[r].token = EmptyToken THEN FreeTokens ELSE {reply[r].token}) :
           Transmit(t, new(m), reply[r].host)
    BY DEF StartRequest
  <1>3. t \in Tokens /\ m \in MessageIds
    BY <1>1, <1>2 DEF FreeIds, FreeTokens
  <1>4. new(m) \in Exchange /\ ~new(m).inProgress /\ new(m).reply = r
    BY <1>1, <1>3, NewExchangeType
  <1> HIDE DEF new
  <1>5. Restarted(new(m)) \in Exchange /\ Restarted(new(m)).reply = r
    BY <1>4, RestartedType
  <1>6. /\ exchangeMap'[t].reply = r /\ Registered(t)'
        /\ \A s \in Tokens \ {t} : exchangeMap'[s] = exchangeMap[s]
    BY <1>2, <1>3, <1>5, ExchangeAssumption DEF Transmit, TypeOK, Registered
  <1>7. /\ Holds(protocolQueue, Call(r)) /\ ~Holds(protocolQueue', Call(r))
        /\ ~HasExchange(r)
    BY <1>1, CallTaken
  <1>8. \A q \in Replies : reply'[q].stage = reply[q].stage
    BY DEF StartRequest, TypeOK, Reply
  <1>9. \A q \in Replies \ {r} : Holds(protocolQueue', Call(q)) <=> Holds(protocolQueue, Call(q))
    BY <1>1, TakenSame
  <1>10. Phase(r) = "posted" /\ Phase(r)' = "tracked"
    <2>1. HasExchange(r)'
      BY <1>3, <1>6 DEF HasExchange
    <2> QED
      BY <1>1, <1>7, <1>8, <2>1, PhaseOf, NextPhaseOf
  <1>11. CausesSame
    BY DEF StartRequest, CausesSame
  <1>12. ASSUME NEW q \in Replies \ {r}, ~Registered(t) \/ exchangeMap[t].reply # q
         PROVE  Phase(q)' = Phase(q)
    <2>1. HasExchange(q)' <=> HasExchange(q)
      BY <1>6, <1>12 DEF HasExchange, Registered
    <2> QED
      BY <1>8, <1>9, <2>1, PhaseOf, NextPhaseOf
  <1>13. CASE ~Registered(t)
    BY <1>10, <1>11, <1>12, <1>13, MoveStep DEF LifecycleStep
  <1>14. CASE Registered(t)
    <2>1. PICK s \in Replies : s = exchangeMap[t].reply
      BY <1>3, <1>14, RegisteredType DEF Exchange
    <2>2. HasExchange(s) /\ s # r
      BY <1>3, <1>7, <1>14, <2>1 DEF HasExchange
    <2>3. ~HasExchange(s)'
      BY <1>3, <1>6, <1>14, <2>1, <2>2 DEF OneEnd, OwnedOnce, HasExchange, Registered
    <2>4. reply[s].stage # "none" /\ ~Holds(protocolQueue, Call(s))
      BY <2>2 DEF OneEnd, SentOnce, Unbegun
    <2>5. Phase(s) = "tracked" /\ Phase(s)' = "over"
      BY <1>8, <1>9, <2>2, <2>3, <2>4, PhaseOf, NextPhaseOf
    <2>6. \A q \in Replies \ {r, s} : Phase(q)' = Phase(q)
      BY <1>12, <2>1
    <2> QED
      BY <1>10, <1>11, <2>2, <2>5, <2>6, TakeOverStep DEF LifecycleStep
  <1> QED
    BY <1>13, <1>14

LEMMA HandleLifecycle ==
    ASSUME TypeOK, OneEnd, OneEnd', HandleEvent PROVE LifecycleStep
  <1>1. CausesSame
    BY WorkerCauses DEF CausesSame
  <1>2. ASSUME NEW r \in Replies, SkipRequest(r) PROVE LifecycleStep
    <2>1. /\ NextEvent("sendRequest", r) /\ UNCHANGED <<reply, exchangeMap>>
      BY <1>2 DEF SkipRequest
    <2>2. /\ Holds(protocolQueue, Call(r)) /\ ~Holds(protocolQueue', Call(r)) /\ ~HasExchange(r)
      BY <2>1, CallTaken
    <2>3. ExchangesSame
      BY <2>1 DEF ExchangesSame, HasExchange, Registered
    <2>4. reply[r].stage # "none"
      BY <2>2 DEF OneEnd, SentOnce
    <2>5. Phase(r) = "posted" /\ Phase(r)' = "over"
      BY <2>1, <2>2, <2>3, <2>4, PhaseOf, NextPhaseOf DEF ExchangesSame
    <2>6. \A q \in Replies \ {r} : Phase(q)' = Phase(q)
      BY <2>1, <2>3, TakenSame, PhaseOf, NextPhaseOf DEF ExchangesSame
    <2> QED
      BY <1>1, <2>5, <2>6, MoveStep DEF LifecycleStep
  <1>3. ASSUME NEW op, NEW a, NextEvent(op, a), op # "sendRequest", UNCHANGED reply, ExchangesSame
        PROVE  LifecycleStep
    <2>1. StagesSame /\ CallsSame
      BY <1>3, TakenSame DEF StagesSame, CallsSame
    <2> QED
      BY <1>1, <1>3, <2>1, SamePhases, SameLifecycle DEF LifecycleStep
  <1>4. ASSUME UNCHANGED exchangeMap PROVE ExchangesSame
    BY <1>4 DEF ExchangesSame, HasExchange, Registered
  <1>5. ASSUME NEW r \in Replies, OnCancelObserve(r) PROVE LifecycleStep
    <2>1. ExchangesSame
      BY <1>4, <1>5, CancelAllSame DEF OnCancelObserve
    <2> QED
      BY <1>3, <1>5, <2>1 DEF OnCancelObserve
  <1>6. ASSUME NEW h \in Hosts \cup {Group}, OnCancelObserveUrl(h) PROVE LifecycleStep
    <2>1. ExchangesSame
      BY <1>4, <1>6, CancelAllSame DEF OnCancelObserveUrl
    <2> QED
      BY <1>3, <1>6, <2>1 DEF OnCancelObserveUrl
  <1>7. ASSUME NEW r \in Replies, RelayFinished(r) PROVE LifecycleStep
    BY <1>3, <1>4, <1>7 DEF RelayFinished
  <1>8. ASSUME NEW t \in Tokens \cup {EmptyToken}, OnRequestAborted(t) PROVE LifecycleStep
    <2>1. NextEvent("aborted", t) /\ UNCHANGED reply
      BY <1>8 DEF OnRequestAborted
    <2>2. CASE t = EmptyToken
      BY <1>3, <1>4, <1>8, <2>1, <2>2 DEF OnRequestAborted
    <2>3. CASE t # EmptyToken
      <3>1. t \in Tokens /\ Forget(t)
        BY <1>8, <2>3 DEF OnRequestAborted
      <3>2. StagesSame /\ CallsSame
        BY <2>1, TakenSame DEF StagesSame, CallsSame
      <3> QED
        BY <1>1, <3>1, <3>2, ForgetStep DEF LifecycleStep
    <2> QED
      BY <2>2, <2>3
  <1> QED
    BY <1>2, <1>5, <1>6, <1>7, <1>8, StartLifecycle DEF HandleEvent

LEMMA FrameLifecycle ==
    ASSUME TypeOK, OneEnd, OneEnd', ReadFrame PROVE LifecycleStep
  <1> SUFFICES ASSUME NEW f \in ServerFrames, NEW t \in Tokens, OnFrameReceived(f, t)
               PROVE  LifecycleStep
    BY DEF ReadFrame
  <1>1. Registered(t)
    BY DEF OnFrameReceived, ReceiveError, ReceiveBlock, ReceiveUnwanted, ReceiveEmptyAck,
           ReceiveResponse, Matches
  <1>2. UNCHANGED <<reply, protocolQueue, signals>>
    BY DEF OnFrameReceived, ReceiveError, ReceiveBlock, ReceiveUnwanted, ReceiveEmptyAck,
           ReceiveResponse
  <1>3. StagesSame /\ CallsSame /\ CausesSame
    BY <1>2 DEF StagesSame, CallsSame, CausesSame
  <1>4. CASE Forget(t)
    BY <1>3, <1>4, ForgetStep DEF LifecycleStep
  <1>5. ASSUME ExchangesSame PROVE LifecycleStep
    BY <1>3, <1>5, SamePhases, SameLifecycle DEF LifecycleStep
  <1>6. CASE exchangeMap' = [exchangeMap EXCEPT ![t] = Accepted(t)]
    BY <1>1, <1>5, <1>6, AcceptedType, ExchangeSame
  <1>7. CASE ReceiveBlock(f, t)
    <2> DEFINE e(m) == [Accepted(t) EXCEPT !.mid = m]
    <2>1. PICK m \in FreeIds :
             exchangeMap' = [exchangeMap EXCEPT ![t] = Restarted(e(m))]
      BY <1>7 DEF ReceiveBlock, Transmit
    <2>2. /\ e(m) \in Exchange /\ e(m).reply = exchangeMap[t].reply
          /\ reply[exchangeMap[t].reply].host # Group => ~e(m).inProgress
      BY <1>1, <2>1, AcceptedType DEF Exchange, FreeIds
    <2> HIDE DEF e
    <2>3. Restarted(e(m)) \in Exchange /\ Restarted(e(m)).reply = exchangeMap[t].reply
      BY <2>2, RestartedType
    <2>4. ExchangesSame
      BY <1>1, <2>1, <2>3, ExchangeSame
    <2> QED
      BY <1>5, <2>4
  <1> QED
    BY <1>4, <1>6, <1>7 DEF OnFrameReceived, ReceiveError, ReceiveUnwanted, ReceiveEmptyAck,
       ReceiveResponse

LEMMA TimerLifecycle ==
    ASSUME TypeOK, OneEnd, OneEnd', NEW t \in Tokens, OnRequestTimeout(t) \/ FireTimer(t)
    PROVE  LifecycleStep
  <1>1. Registered(t) /\ UNCHANGED <<reply, protocolQueue, signals>>
    BY DEF OnRequestTimeout, FireTimer, OnRequestMaxTransmissionSpanReached,
           OnMulticastRequestExpired, OnRequestError
  <1>2. StagesSame /\ CallsSame /\ CausesSame
    BY <1>1 DEF StagesSame, CallsSame, CausesSame
  <1>3. CASE Forget(t)
    BY <1>2, <1>3, ForgetStep DEF LifecycleStep
  <1>4. CASE OnRequestTimeout(t) /\ CanRetransmit(t)
    <2>1. exchangeMap[t] \in Exchange
      BY <1>1, RegisteredType
    <2>2. /\ exchangeMap' = [exchangeMap EXCEPT ![t] = Restarted(exchangeMap[t])]
          /\ exchangeMap[t].counter < MaxRetransmit
      BY <1>4 DEF OnRequestTimeout, CanRetransmit, Transmit
    <2>3. /\ Restarted(exchangeMap[t]) \in Exchange
          /\ Restarted(exchangeMap[t]).reply = exchangeMap[t].reply
      BY <2>1, <2>2, RestartedType
    <2>4. ExchangesSame
      BY <1>1, <2>2, <2>3, ExchangeSame
    <2> QED
      BY <1>2, <2>4, SamePhases, SameLifecycle DEF LifecycleStep
  <1> QED
    BY <1>3, <1>4 DEF OnRequestTimeout, FireTimer, OnRequestMaxTransmissionSpanReached,
       OnMulticastRequestExpired, OnRequestError

\* A reply that nothing happened to is new and has no outcome.
LEMMA InitLifecycle == Init => Lifecycle!LifecycleInit
  <1> SUFFICES ASSUME Init PROVE Lifecycle!LifecycleInit
    OBVIOUS
  <1>1. \A r \in Replies : reply[r].stage = "none" /\ signals[r].cause = "none"
    BY DEF Init
  <1>2. \A r \in Replies : Phase(r) = "new"
    BY <1>1, InitOneEnd, PhaseOf
  <1> QED
    BY <1>1, <1>2 DEF Lifecycle!LifecycleInit

\* Every step of the two threads is a step of the lifecycle of one request, or invisible in it:
\* whatever the network, the timers, the user and the other requests do, a request is tracked
\* during one period, its reply reaches one outcome, and completes only when it is over.
THEOREM RequestsFollowLifecycle == Spec => ImplementsLifecycle
  <1>1. ASSUME TypeOK, OneEnd, OneEnd', FinishedOnce, CauseCounted, [Next]_vars
        PROVE  LifecycleStep
    <2>1. CASE UNCHANGED vars
      <3>1. StagesSame /\ CallsSame /\ ExchangesSame /\ CausesSame
        BY <2>1 DEF vars, StagesSame, CallsSame, ExchangesSame, CausesSame, HasExchange, Registered
      <3> QED
        BY <1>1, <3>1, SamePhases, SameLifecycle DEF LifecycleStep
    <2> QED
      BY <1>1, <2>1, UserLifecycle, SlotLifecycle, HandleLifecycle, FrameLifecycle,
         TimerLifecycle DEF Next
  <1>2. TypeOK /\ OneEnd /\ OneEnd' /\ FinishedOnce /\ CauseCounted /\ [Next]_vars
           => [Lifecycle!LifecycleNext]_(Lifecycle!lifecycleVars)
    BY <1>1 DEF LifecycleStep
  <1> QED
    BY <1>2, InitLifecycle, TypeCorrect, OneEndHolds, FinishedExactlyOnce, CauseCountedHolds, PTL
       DEF Spec, ImplementsLifecycle, Lifecycle!Spec
=============================================================================
