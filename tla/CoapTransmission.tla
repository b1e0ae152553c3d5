-------------------------- MODULE CoapTransmission --------------------------
(***************************************************************************)
(* The transmission parameters of QCoapProtocol and the timers of one      *)
(* request, with durations.                                                *)
(*                                                                         *)
(* The user sets parameters and sends the request through calls posted to  *)
(* the worker.  The worker computes the durations in unsigned arithmetic   *)
(* (modulo WordSize) when it starts the request, and fires the timers      *)
(* within the precision of Qt's coarse timers.  The random factor is       *)
(* counted in halves: 3 stands for 1.5.  Answers may come at any time.     *)
(***************************************************************************)
EXTENDS Naturals, Sequences

CONSTANTS
    Defaults,          \* the parameters at start
    AckTimeouts,       \* the values the user may set: setAckTimeout
    RandomFactors,     \* setAckRandomFactor, in halves
    RetransmitCounts,  \* setMaximumRetransmitCount
    ResponseDelays,    \* setMaximumServerResponseDelay
    TokenSizes,        \* setMinimumTokenSize
    Latency,           \* maximumLatency()
    RetransmitCap,     \* the greatest maximumRetransmitCount that is accepted: 25
    WordSize,          \* 2^32, the range of uint
    Coarseness,        \* a timer may fire early by this fraction of its interval: 20
    MaxLate,           \* bound on the delay of the event loop behind a timer
    MaxSettings,       \* bound on the calls that set a parameter
    MaxMessages        \* bound on the messages (blocks) the request consists of

VARIABLES
    queue,       \* calls posted to the worker
    settings,    \* number of calls that set a parameter so far
    parameters,  \* the parameters in QCoapProtocolPrivate
    now,         \* the clock
    stage,       \* of the request: not sent, posted, registered, forgotten
    request,     \* QCoapInternalRequestPrivate
    timers,      \* its three QTimers
    sent,        \* history: when the present message was sent, first and again
    message,     \* history: number of the present message of the request
    known,       \* history: the parameters when the request was started
    steady,      \* history: no parameter was changed since
    verdict      \* history: how the request ended

vars == <<queue, settings, parameters, now, stage, request, timers, sent, message, known, steady, verdict>>

Parameters == [ackTimeout : Nat, ackRandomFactor : Nat, maximumRetransmitCount : 0..RetransmitCap,
               maximumServerResponseDelay : Nat, minimumTokenSize : 1..8]
Timer == [on : BOOLEAN, at : Nat, interval : Nat]
TimerNames == {"timeoutTimer", "maxTransmitWaitTimer", "multicastExpireTimer"}
Request == [con : BOOLEAN, multicast : BOOLEAN, timeout : Nat,
            retransmissionCounter : Nat, transmissionInProgress : BOOLEAN]
Call == [op : {"setAckTimeout", "setAckRandomFactor", "setMaximumRetransmitCount",
               "setMaximumServerResponseDelay", "setMinimumTokenSize"}, arg : Nat]
        \cup [op : {"sendRequest"}, con : BOOLEAN, multicast : BOOLEAN]

ASSUME ParameterAssumption == Defaults \in Parameters /\ Defaults.ackRandomFactor >= 2
ASSUME SettingAssumption ==
    /\ AckTimeouts \subseteq Nat /\ RandomFactors \subseteq Nat /\ RetransmitCounts \subseteq Nat
    /\ ResponseDelays \subseteq Nat /\ TokenSizes \subseteq Nat
ASSUME TimeAssumption == /\ Latency \in Nat /\ MaxLate \in Nat
                         /\ Coarseness \in Nat /\ Coarseness > 2
ASSUME RangeAssumption == /\ RetransmitCap \in Nat /\ WordSize \in Nat /\ WordSize > 1
                          /\ MaxSettings \in Nat /\ MaxMessages \in Nat

TypeOK ==
    /\ queue \in Seq(Call)
    /\ settings \in 0..MaxSettings
    /\ parameters \in Parameters /\ parameters.ackRandomFactor >= 2
    /\ now \in Nat
    /\ stage \in {"new", "posted", "registered", "forgotten"}
    /\ request \in Request
    /\ timers \in [TimerNames -> Timer]
    /\ sent \in Seq(Nat)
    /\ message \in Nat
    /\ known \in Parameters /\ known.ackRandomFactor >= 2 /\ steady \in BOOLEAN
    /\ verdict \in {"none", "answered", "timeout", "span", "expired"}

Off == [on |-> FALSE, at |-> 0, interval |-> 0]

Init ==
    /\ queue = <<>> /\ settings = 0
    /\ parameters = Defaults /\ known = Defaults /\ steady = TRUE
    /\ now = 0
    /\ stage = "new" /\ verdict = "none"
    /\ request = [con |-> FALSE, multicast |-> FALSE, timeout |-> 0,
                  retransmissionCounter |-> 0, transmissionInProgress |-> FALSE]
    /\ timers = [n \in TimerNames |-> Off]
    /\ sent = <<>> /\ message = 0

(***************************************************************************)
(* The durations, computed from the parameters p.                          *)
(***************************************************************************)

\* An integer product or sum of type uint.
UInt(x) == x % WordSize

\* 1u << k: the cap of the retransmission count keeps it in range.
Shifted[k \in Nat] == IF k = 0 THEN 1 ELSE 2 * Shifted[k - 1]

\* A double converted to uint: undefined when out of range, where the builds truncate or
\* saturate.
Converted(x) == IF x < WordSize THEN {x} ELSE {UInt(x), WordSize - 1}

TimesFactor(x, p) == (x * p.ackRandomFactor) \div 2

\* Fault: MAX_TRANSMIT_SPAN in place of MAX_TRANSMIT_WAIT.
FaultyMaximumTransmitWait(p) ==
    Converted(TimesFactor(UInt(p.ackTimeout * (Shifted[p.maximumRetransmitCount] - 1)), p))

MaximumTransmitSpan(p) ==
    Converted(TimesFactor(UInt(p.ackTimeout * (Shifted[p.maximumRetransmitCount] - 1)), p))

MaximumTransmitWait(p) ==
    Converted(TimesFactor(UInt(p.ackTimeout * (Shifted[p.maximumRetransmitCount + 1] - 1)), p))

MinimumTimeout(p) == p.ackTimeout
MaximumTimeout(p) == Converted(TimesFactor(p.ackTimeout, p))
NonConfirmLifetime(p) == {UInt(span + Latency) : span \in MaximumTransmitSpan(p)}
MulticastTimeout(p) ==
    {UInt(life + Latency + p.maximumServerResponseDelay) : life \in NonConfirmLifetime(p)}

\* bounded(min, max) draws below its upper bound.
InitialTimeouts(con, p) ==
    UNION {IF ~con THEN {most}
           ELSE IF most = MinimumTimeout(p) THEN {most}
           ELSE MinimumTimeout(p) .. (most - 1) : most \in MaximumTimeout(p)}

(***************************************************************************)
(* The user: parameters, and the request.                                  *)
(***************************************************************************)

Posted(op, v) ==
    /\ settings < MaxSettings
    /\ settings' = settings + 1
    /\ queue' = Append(queue, [op |-> op, arg |-> v])
    /\ UNCHANGED <<parameters, now, stage, request, timers, sent, message, known, steady, verdict>>

PostSetting ==
    \/ \E v \in AckTimeouts : Posted("setAckTimeout", v)
    \/ \E v \in RandomFactors : Posted("setAckRandomFactor", v)
    \/ \E v \in RetransmitCounts : Posted("setMaximumRetransmitCount", v)
    \/ \E v \in ResponseDelays : Posted("setMaximumServerResponseDelay", v)
    \/ \E v \in TokenSizes : Posted("setMinimumTokenSize", v)

\* A confirmable multicast request is refused by the client.
PostRequest ==
    /\ stage = "new"
    /\ \E con, multicast \in BOOLEAN :
          /\ ~ (con /\ multicast)
          /\ queue' = Append(queue, [op |-> "sendRequest", con |-> con, multicast |-> multicast])
    /\ stage' = "posted"
    /\ UNCHANGED <<settings, parameters, now, request, timers, sent, message, known, steady, verdict>>

(***************************************************************************)
(* The worker: the posted calls.                                           *)
(***************************************************************************)

SetAckTimeout(v) == parameters' = [parameters EXCEPT !.ackTimeout = v]

\* Fault: the factor is not compared with 1.
FaultySetAckRandomFactor(v) == parameters' = [parameters EXCEPT !.ackRandomFactor = v]

SetAckRandomFactor(v) ==
    parameters' = [parameters EXCEPT !.ackRandomFactor = IF v < 2 THEN 2 ELSE v]

SetMaximumRetransmitCount(v) ==
    parameters' = [parameters EXCEPT !.maximumRetransmitCount =
                       IF v > RetransmitCap THEN RetransmitCap ELSE v]

SetMaximumServerResponseDelay(v) ==
    parameters' = [parameters EXCEPT !.maximumServerResponseDelay = v]

\* A size out of range is refused.
SetMinimumTokenSize(v) ==
    parameters' = [parameters EXCEPT !.minimumTokenSize = IF v \in 1..8 THEN v ELSE @]

ApplySetting ==
    /\ queue # <<>> /\ queue' = Tail(queue)
    /\ LET call == Head(queue) IN
          \/ call.op = "setAckTimeout" /\ SetAckTimeout(call.arg)
          \/ call.op = "setAckRandomFactor" /\ SetAckRandomFactor(call.arg)
          \/ call.op = "setMaximumRetransmitCount" /\ SetMaximumRetransmitCount(call.arg)
          \/ call.op = "setMaximumServerResponseDelay" /\ SetMaximumServerResponseDelay(call.arg)
          \/ call.op = "setMinimumTokenSize" /\ SetMinimumTokenSize(call.arg)
    /\ steady' = FALSE
    /\ UNCHANGED <<settings, now, stage, request, timers, sent, message, known, verdict>>

\* QTimer::start: an interval that is negative as an int leaves the timer off.
Started(interval) ==
    IF interval < WordSize \div 2 THEN [on |-> TRUE, at |-> now + interval, interval |-> interval]
                                  ELSE [Off EXCEPT !.interval = interval]

\* Fault: the timeout is not doubled.
FaultyRestartTransmission(q, ts) ==
    LET first == ~q.transmissionInProgress IN
    /\ request' = IF first THEN [q EXCEPT !.transmissionInProgress = TRUE]
                  ELSE [q EXCEPT !.retransmissionCounter = @ + 1]
    /\ timers' = [ts EXCEPT !["maxTransmitWaitTimer"] = IF first THEN Started(@.interval) ELSE @,
                            !["timeoutTimer"] = IF q.timeout > 0 THEN Started(q.timeout) ELSE @]

\* Fault: the timer of the transmission is left out.
UntimedRestartTransmission(q, ts) ==
    LET first == ~q.transmissionInProgress
        timeout == IF first THEN q.timeout ELSE UInt(2 * q.timeout)
    IN /\ request' = IF first THEN [q EXCEPT !.transmissionInProgress = TRUE]
                     ELSE [q EXCEPT !.retransmissionCounter = @ + 1, !.timeout = timeout]
       /\ timers' = [ts EXCEPT !["timeoutTimer"] = IF timeout > 0 THEN Started(timeout) ELSE @]

\* The first transmission of a message starts the timer of the whole transmission, each
\* further one doubles the timeout.
RestartTransmission(q, ts) ==
    LET first == ~q.transmissionInProgress
        timeout == IF first THEN q.timeout ELSE UInt(2 * q.timeout)
    IN /\ request' = IF first THEN [q EXCEPT !.transmissionInProgress = TRUE]
                     ELSE [q EXCEPT !.retransmissionCounter = @ + 1, !.timeout = timeout]
       /\ timers' = [ts EXCEPT !["maxTransmitWaitTimer"] = IF first THEN Started(@.interval) ELSE @,
                               !["timeoutTimer"] = IF timeout > 0 THEN Started(timeout) ELSE @]

StartMulticastTransmission(q, ts) ==
    /\ request' = q
    /\ timers' = [ts EXCEPT !["multicastExpireTimer"] = Started(@.interval)]

\* The private sendRequest.
Transmit(q, ts) ==
    IF q.multicast THEN StartMulticastTransmission(q, ts) ELSE RestartTransmission(q, ts)

StartRequest ==
    /\ queue # <<>> /\ Head(queue).op = "sendRequest" /\ queue' = Tail(queue)
    /\ \E timeout \in InitialTimeouts(Head(queue).con, parameters),
          wait \in MaximumTransmitWait(parameters), expiry \in MulticastTimeout(parameters) :
          Transmit([con |-> Head(queue).con, multicast |-> Head(queue).multicast,
                    timeout |-> timeout,
                    retransmissionCounter |-> 0, transmissionInProgress |-> FALSE],
                   [timers EXCEPT !["maxTransmitWaitTimer"].interval = wait,
                                  !["multicastExpireTimer"].interval = expiry])
    /\ stage' = "registered" /\ known' = parameters /\ steady' = TRUE
    /\ sent' = <<now>> /\ message' = 1
    /\ UNCHANGED <<settings, parameters, now, verdict>>

(***************************************************************************)
(* The worker: answers.                                                    *)
(***************************************************************************)

\* Fault: stopTransmission leaves the timer of the transmission.
FaultyStoppedTimers(ts) == [ts EXCEPT !["timeoutTimer"].on = FALSE]

StoppedTimers(ts) == [ts EXCEPT !["timeoutTimer"].on = FALSE, !["maxTransmitWaitTimer"].on = FALSE]
Stopped(q) == [q EXCEPT !.transmissionInProgress = FALSE, !.retransmissionCounter = 0]

\* The exchange is forgotten, the request destroyed and its timers with it.
Forget(why) ==
    /\ stage' = "forgotten" /\ verdict' = why
    /\ timers' = [n \in TimerNames |-> Off]
    /\ UNCHANGED <<queue, settings, parameters, now, request, sent, message, known, steady>>

\* The answer asks for another block.
ReceiveBlock ==
    /\ stage = "registered" /\ message < MaxMessages
    /\ IF request.multicast THEN Transmit(request, timers)
                            ELSE Transmit(Stopped(request), StoppedTimers(timers))
    /\ sent' = <<now>> /\ message' = message + 1
    /\ UNCHANGED <<queue, settings, parameters, now, stage, known, steady, verdict>>

\* An empty ACK or a notification: the exchange goes on without timers.
ReceivePartial ==
    /\ stage = "registered" /\ ~request.multicast
    /\ request' = Stopped(request)
    /\ timers' = StoppedTimers(timers)
    /\ UNCHANGED <<queue, settings, parameters, now, stage, sent, message, known, steady, verdict>>

\* The response, an error response or the user's abort.
ReceiveLast == stage = "registered" /\ Forget("answered")

(***************************************************************************)
(* The worker: time and timers.                                            *)
(***************************************************************************)

\* A coarse timer may fire early by a fraction of its interval.
Due(n) == timers[n].on /\ now + timers[n].interval \div Coarseness >= timers[n].at

CanRetransmit == request.con /\ request.retransmissionCounter < parameters.maximumRetransmitCount

OnRequestTimeout ==
    /\ Due("timeoutTimer")
    /\ IF CanRetransmit
       THEN /\ Transmit(request, timers)
            /\ sent' = Append(sent, now)
            /\ UNCHANGED <<queue, settings, parameters, now, stage, message, known, steady, verdict>>
       ELSE Forget("timeout")

OnRequestMaxTransmissionSpanReached == Due("maxTransmitWaitTimer") /\ Forget("span")

OnMulticastRequestExpired == Due("multicastExpireTimer") /\ Forget("expired")

FireTimer == OnRequestTimeout \/ OnRequestMaxTransmissionSpanReached \/ OnMulticastRequestExpired

\* Time passes while a timer runs, and none is left behind by more than MaxLate.
Tick ==
    /\ \E n \in TimerNames : timers[n].on
    /\ \A n \in TimerNames : timers[n].on => now < timers[n].at + MaxLate
    /\ now' = now + 1
    /\ UNCHANGED <<queue, settings, parameters, stage, request, timers, sent, message, known, steady, verdict>>

Next ==
    \/ PostSetting \/ PostRequest \/ ApplySetting \/ StartRequest
    \/ ReceiveBlock \/ ReceivePartial \/ ReceiveLast
    \/ FireTimer \/ Tick

Spec == Init /\ [][Next]_vars

\* The event loop handles what is posted and due, and time goes on.
FairSpec == Spec /\ WF_vars(ApplySetting) /\ WF_vars(StartRequest) /\ WF_vars(FireTimer) /\ WF_vars(Tick)

(***************************************************************************)
(* Properties.                                                             *)
(***************************************************************************)

\* The wait for the last answer, doubled exactly, as a uint and as the int of a QTimer.
Representable(p) ==
    TimesFactor(p.ackTimeout * (Shifted[p.maximumRetransmitCount + 1] - 1), p) < WordSize \div 2

\* Settings that were not changed since the request was started.
Steady == steady /\ Representable(known)

\* maximumTransmitSpan, "the maximum time from the first transmission of a Confirmable
\* message to its last retransmission", and setAckTimeout: the k-th retransmission of the
\* first message comes neither earlier than k doublings of ACK_TIMEOUT allow nor after
\* MAX_TRANSMIT_SPAN, up to the precision of the timers.
RetransmitsOnSchedule ==
    Steady /\ message = 1 /\ sent # <<>> =>
       \A k \in DOMAIN sent :
          LET passed == sent[k] - sent[1] IN
          /\ Coarseness * passed >= (Coarseness - 1) * known.ackTimeout * (Shifted[k - 1] - 1)
          /\ \A span \in MaximumTransmitSpan(known) : passed <= span + (k - 1) * MaxLate

\* MAX_RETRANSMIT against MAX_TRANSMIT_WAIT: a confirmable message is given up after all its
\* retransmissions, by whichever of the two timers if it is the first message of its request,
\* when the event loop is late by no more than half of ACK_TIMEOUT.
NotGivenUpEarly ==
    Steady /\ request.con /\ known.ackTimeout > 0 /\ known.ackTimeout >= 2 * MaxLate =>
       /\ verdict = "timeout" => Len(sent) = known.maximumRetransmitCount + 1
       /\ verdict = "span" /\ message = 1 => Len(sent) = known.maximumRetransmitCount + 1

\* stopTransmission: a request whose present message was answered, an empty ACK included, is
\* not given up by a timer of that message or of one before.
AnsweredNotGivenUp == verdict \in {"timeout", "span"} => request.transmissionInProgress

\* Each transmission comes to an end: it is answered, or one of its two timers ends it, also
\* when ACK_TIMEOUT is 0.  When MAX_TRANSMIT_WAIT is out of range this is so for the first
\* message only: a further one may inherit a timeout out of range too.  A multicast request
\* expires if its timer runs at all.
Bounded == message = 1 \/ Representable(known)
TransmissionsEnd ==
    /\ request.transmissionInProgress /\ Bounded
          ~> stage = "forgotten" \/ ~request.transmissionInProgress \/ ~Bounded
    /\ timers["multicastExpireTimer"].on ~> stage = "forgotten"

\* setAckTimeout: "The actual timeout for reliable transmissions is a random value between
\* ackTimeout() and ackTimeout() * ackRandomFactor()".
FirstTimeoutInRange ==
    Steady /\ request.con /\ request.transmissionInProgress /\ request.retransmissionCounter = 0
       => request.timeout \in InitialTimeouts(TRUE, known)
=============================================================================
