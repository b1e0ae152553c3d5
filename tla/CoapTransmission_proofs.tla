----------------------- MODULE CoapTransmission_proofs -----------------------
(***************************************************************************)
(* TypeOK, AnsweredNotGivenUp, RetransmitsOnSchedule and NotGivenUpEarly   *)
(* for every value of the constants: every range of uint, every precision  *)
(* of the timers, every number of settings and of messages.                *)
(*                                                                         *)
(* AnsweredNotGivenUp rests on the flag of the transmission alone: the     *)
(* invariant Answered relates it to the timers and to the stage of the     *)
(* request, and nothing is said of durations.  The other two are about     *)
(* durations: the invariant Schedule derives all of them from the timeout  *)
(* that was drawn for the first message.                                   *)
(***************************************************************************)
EXTENDS CoapTransmission, Integers, WellFoundedInduction, TLAPS

(***************************************************************************)
(* Doublings: Shifted is defined by recursion.  That it doubles at every   *)
(* step is shown from the finite tables of its values, by least            *)
(* counterexamples.                                                        *)
(***************************************************************************)

LEMMA LeastNumber ==
    ASSUME NEW T, T \subseteq Nat, T # {}
    PROVE  \E x \in T : \A y \in T : x <= y
<1>1. PICK x \in T : \A y \in T : ~ (<<y, x>> \in OpToRel(<, Nat))
    BY NatLessThanWellFounded, WFMin
<1>2. \A y \in T : ~(y < x)
    BY <1>1 DEF OpToRel
<1> QED
    BY <1>2

\* f is a table of the doublings up to n.
Table(n, f) == /\ f \in [0..n -> Nat \ {0}]
               /\ f[0] = 1
               /\ \A k \in 1..n : f[k] = 2 * f[k - 1]

LEMMA TableExists == \A n \in Nat : \E f : Table(n, f)
<1> SUFFICES ASSUME NEW m \in Nat, ~ \E f : Table(m, f) PROVE FALSE
    OBVIOUS
<1> DEFINE T == {k \in Nat : ~ \E f : Table(k, f)}
<1>1. PICK n \in T : \A y \in T : n <= y
    BY LeastNumber
<1>2. CASE n = 0
    <2>1. Table(0, [k \in 0..0 |-> 1])
        BY DEF Table
    <2> QED
        BY <1>2, <2>1
<1>3. CASE n # 0
    <2>1. n - 1 \in Nat /\ ~ (n - 1 \in T)
        BY <1>1, <1>3
    <2>2. PICK f : Table(n - 1, f)
        BY <2>1
    <2> DEFINE g == [k \in 0..n |-> IF k = n THEN 2 * f[n - 1] ELSE f[k]]
    <2>3. Table(n, g)
        BY <2>2, <2>1, <1>3 DEF Table
    <2> QED
        BY <2>3
<1> QED
    BY <1>2, <1>3

LEMMA TablesAgree ==
    ASSUME NEW m \in Nat, NEW n \in Nat, NEW f, NEW g, Table(m, f), Table(n, g),
           NEW k \in Nat, k <= m, k <= n
    PROVE  f[k] = g[k]
<1> SUFFICES ASSUME f[k] # g[k] PROVE FALSE
    OBVIOUS
<1> DEFINE T == {j \in Nat : j <= m /\ j <= n /\ f[j] # g[j]}
<1>1. PICK j \in T : \A y \in T : j <= y
    BY LeastNumber
<1>2. j # 0
    BY DEF Table
<1>3. j - 1 \in Nat /\ ~ (j - 1 \in T)
    BY <1>1, <1>2
<1>4. f[j] = 2 * f[j - 1] /\ g[j] = 2 * g[j - 1]
    BY <1>2 DEF Table
<1> QED
    BY <1>3, <1>4

LEMMA ShiftedExists == \E f : f = [n \in Nat |-> IF n = 0 THEN 1 ELSE 2 * f[n - 1]]
<1> DEFINE table(n) == CHOOSE f : Table(n, f)
           d == [n \in Nat |-> table(n)[n]]
<1>1. \A n \in Nat : Table(n, table(n))
    BY TableExists
<1>2. d[0] = 1
    BY <1>1 DEF Table
<1>3. ASSUME NEW n \in Nat, n # 0 PROVE d[n] = 2 * d[n - 1]
    <2>1. n - 1 \in Nat /\ n - 1 <= n /\ n \in 1..n
        BY <1>3
    <2>2. table(n)[n] = 2 * table(n)[n - 1]
        BY <1>1, <2>1 DEF Table
    <2> HIDE DEF table
    <2>3. table(n)[n - 1] = table(n - 1)[n - 1]
        BY <1>1, <2>1, TablesAgree
    <2> QED
        BY <2>2, <2>3, <2>1
<1>4. d = [n \in Nat |-> d[n]]
    OBVIOUS
<1> HIDE DEF d
<1>5. \A n \in Nat : d[n] = IF n = 0 THEN 1 ELSE 2 * d[n - 1]
    BY <1>2, <1>3
<1>6. d = [n \in Nat |-> IF n = 0 THEN 1 ELSE 2 * d[n - 1]]
    BY <1>4, <1>5
<1> QED
    BY <1>6

\* 1u << k, for every k.
LEMMA ShiftedStep == /\ Shifted[0] = 1
                     /\ \A n \in Nat : Shifted[n + 1] = 2 * Shifted[n]
<1>0. Shifted = [n \in Nat |-> IF n = 0 THEN 1 ELSE 2 * Shifted[n - 1]]
    BY ShiftedExists DEF Shifted
<1>1. Shifted[0] = 1
    BY <1>0
<1>2. ASSUME NEW n \in Nat PROVE Shifted[n + 1] = 2 * Shifted[n]
    <2>1. Shifted[n + 1] = IF n + 1 = 0 THEN 1 ELSE 2 * Shifted[(n + 1) - 1]
        BY <1>0, n + 1 \in Nat
    <2> QED
        BY <2>1
<1> QED
    BY <1>1, <1>2

\* Doubling reaches more than counting.
LEMMA ShiftedType == \A n \in Nat : Shifted[n] \in Nat \ {0} /\ n + 1 <= Shifted[n]
<1> DEFINE Bad(k) == ~ (Shifted[k] \in Nat \ {0} /\ k + 1 <= Shifted[k])
<1> SUFFICES ASSUME NEW m \in Nat, Bad(m) PROVE FALSE
    OBVIOUS
<1> DEFINE T == {k \in Nat : Bad(k)}
<1>1. PICK n \in T : \A y \in T : n <= y
    BY LeastNumber
<1>2. n # 0
    BY ShiftedStep
<1>3. n - 1 \in Nat /\ ~ (n - 1 \in T)
    BY <1>1, <1>2
<1>4. Shifted[(n - 1) + 1] = 2 * Shifted[n - 1]
    BY <1>3, ShiftedStep
<1> QED
    BY <1>3, <1>4, (n - 1) + 1 = n

LEMMA ShiftedMonotone ==
    ASSUME NEW i \in Nat, NEW j \in Nat, i <= j
    PROVE  Shifted[i] <= Shifted[j]
<1> SUFFICES ASSUME ~ (Shifted[i] <= Shifted[j]) PROVE FALSE
    OBVIOUS
<1> DEFINE T == {k \in Nat : i <= k /\ ~ (Shifted[i] <= Shifted[k])}
<1>1. PICK k \in T : \A y \in T : k <= y
    BY LeastNumber
<1>2. k # i
    BY ShiftedType
<1>3. k - 1 \in Nat /\ i <= k - 1 /\ ~ (k - 1 \in T)
    BY <1>1, <1>2
<1>4. Shifted[(k - 1) + 1] = 2 * Shifted[k - 1]
    BY <1>3, ShiftedStep
<1> QED
    BY <1>3, <1>4, (k - 1) + 1 = k, ShiftedType

(***************************************************************************)
(* Arithmetic.                                                             *)
(***************************************************************************)

LEMMA ProductType == ASSUME NEW a \in Nat, NEW b \in Nat PROVE a * b \in Nat
OBVIOUS

LEMMA ProductMonotone ==
    ASSUME NEW a \in Nat, NEW b \in Nat, NEW c \in Nat, a <= b
    PROVE  a * c <= b * c /\ c * a <= c * b
OBVIOUS

LEMMA Quotient ==
    ASSUME NEW x \in Nat, NEW d \in Nat, d > 0
    PROVE  x \div d \in Nat /\ d * (x \div d) <= x
OBVIOUS

LEMMA Halves ==
    ASSUME NEW x \in Nat
    PROVE  x \div 2 \in Nat /\ 2 * (x \div 2) <= x /\ x < 2 * (x \div 2) + 2
OBVIOUS

(***************************************************************************)
(* Types.                                                                  *)
(***************************************************************************)

\* The parameters of a protocol: a random factor is at least 1.
Sound(p) == p \in Parameters /\ p.ackRandomFactor >= 2

LEMMA UIntType == ASSUME NEW x \in Nat PROVE UInt(x) \in Nat /\ UInt(x) < WordSize
BY RangeAssumption DEF UInt

LEMMA ConvertedType == ASSUME NEW x \in Nat PROVE Converted(x) \subseteq Nat
<1>1. WordSize - 1 \in Nat
    BY RangeAssumption
<1> QED
    BY <1>1, UIntType DEF Converted

LEMMA TimesFactorType ==
    ASSUME NEW p, Sound(p), NEW x \in Nat
    PROVE  TimesFactor(x, p) \in Nat
<1>1. p.ackRandomFactor \in Nat
    BY DEF Sound, Parameters
<1>2. x * p.ackRandomFactor \in Nat
    BY <1>1, ProductType
<1> QED
    BY <1>2, Halves DEF TimesFactor

\* ACK_TIMEOUT times a number of doublings.
LEMMA LadderType ==
    ASSUME NEW p, Sound(p), NEW k \in Nat
    PROVE  p.ackTimeout * (Shifted[k] - 1) \in Nat
<1>1. p.ackTimeout \in Nat /\ Shifted[k] - 1 \in Nat
    BY ShiftedType DEF Sound, Parameters
<1> QED
    BY <1>1, ProductType

\* Every duration computed from the parameters is a number.
LEMMA DurationsType ==
    ASSUME NEW p, Sound(p)
    PROVE  /\ MaximumTransmitSpan(p) \subseteq Nat
           /\ MaximumTransmitWait(p) \subseteq Nat
           /\ MulticastTimeout(p) \subseteq Nat
           /\ \A con \in BOOLEAN : InitialTimeouts(con, p) \subseteq Nat
<1>1. /\ p.maximumRetransmitCount \in Nat /\ p.maximumRetransmitCount + 1 \in Nat
      /\ p.maximumServerResponseDelay \in Nat /\ p.ackTimeout \in Nat
    BY RangeAssumption DEF Sound, Parameters
<1>2. MaximumTransmitSpan(p) \subseteq Nat
    BY <1>1, LadderType, UIntType, TimesFactorType, ConvertedType DEF MaximumTransmitSpan
<1>3. MaximumTransmitWait(p) \subseteq Nat
    BY <1>1, LadderType, UIntType, TimesFactorType, ConvertedType DEF MaximumTransmitWait
<1>4. MulticastTimeout(p) \subseteq Nat
    <2>1. NonConfirmLifetime(p) \subseteq Nat
        <3>1. \A span \in MaximumTransmitSpan(p) : UInt(span + Latency) \in Nat
            BY <1>2, TimeAssumption, UIntType
        <3> QED
            BY <3>1 DEF NonConfirmLifetime
    <2>2. \A life \in NonConfirmLifetime(p) :
             UInt(life + Latency + p.maximumServerResponseDelay) \in Nat
        BY <1>1, <2>1, TimeAssumption, UIntType
    <2> QED
        BY <2>2 DEF MulticastTimeout
<1>5. ASSUME NEW con \in BOOLEAN PROVE InitialTimeouts(con, p) \subseteq Nat
    <2>1. MaximumTimeout(p) \subseteq Nat
        BY <1>1, TimesFactorType, ConvertedType DEF MaximumTimeout
    <2>2. \A most \in MaximumTimeout(p) : MinimumTimeout(p) .. (most - 1) \subseteq Nat
        BY <1>1, <2>1 DEF MinimumTimeout
    <2> QED
        BY <2>1, <2>2 DEF InitialTimeouts
<1> QED
    BY <1>2, <1>3, <1>4, <1>5

LEMMA StartedType ==
    ASSUME now \in Nat, NEW interval \in Nat
    PROVE  Started(interval) \in Timer
<1>1. CASE interval < WordSize \div 2
    BY <1>1 DEF Started, Timer
<1>2. CASE ~(interval < WordSize \div 2)
    <2>1. Started(interval) = [on |-> FALSE, at |-> 0, interval |-> interval]
        BY <1>2 DEF Started, Off
    <2> QED
        BY <2>1 DEF Timer
<1> QED
    BY <1>1, <1>2

\* A transmission leaves a request and its timers.
LEMMA TransmitType ==
    ASSUME now \in Nat, NEW q \in Request, NEW ts \in [TimerNames -> Timer], Transmit(q, ts)
    PROVE  request' \in Request /\ timers' \in [TimerNames -> Timer]
<1>0. \A n \in TimerNames : ts[n] \in Timer /\ ts[n].interval \in Nat
    BY DEF Timer
<1>1. CASE q.multicast
    <2>1. /\ request' = q
          /\ timers' = [ts EXCEPT !["multicastExpireTimer"] = Started(ts["multicastExpireTimer"].interval)]
        BY <1>1 DEF Transmit, StartMulticastTransmission
    <2>2. Started(ts["multicastExpireTimer"].interval) \in Timer
        BY <1>0, StartedType DEF TimerNames
    <2> QED
        BY <2>1, <2>2
<1>2. CASE ~q.multicast
    <2> DEFINE first == ~q.transmissionInProgress
               timeout == IF first THEN q.timeout ELSE UInt(2 * q.timeout)
               wait == Started(ts["maxTransmitWaitTimer"].interval)
               again == Started(timeout)
    <2>1. /\ request' = IF first THEN [q EXCEPT !.transmissionInProgress = TRUE]
                        ELSE [q EXCEPT !.retransmissionCounter = @ + 1, !.timeout = timeout]
          /\ timers' = [ts EXCEPT !["maxTransmitWaitTimer"] = IF first THEN wait ELSE @,
                                  !["timeoutTimer"] = IF timeout > 0 THEN again ELSE @]
        BY <1>2, Zenon DEF Transmit, RestartTransmission
    <2>2. timeout \in Nat /\ q.retransmissionCounter + 1 \in Nat
        BY UIntType DEF Request
    <2>3. wait \in Timer /\ again \in Timer
        BY <1>0, <2>2, StartedType DEF TimerNames
    <2> HIDE DEF timeout, wait, again
    <2>4. request' \in Request
        <3>1. CASE first
            BY <2>1, <3>1 DEF Request
        <3>2. CASE ~first
            <4> DEFINE more == q.retransmissionCounter + 1
            <4>1. request' = [q EXCEPT !.retransmissionCounter = more, !.timeout = timeout]
                BY <2>1, <3>2
            <4> HIDE DEF more
            <4> QED
                BY <4>1, <2>2 DEF Request, more
        <3> QED
            BY <3>1, <3>2
    <2>5. timers' \in [TimerNames -> Timer]
        BY <2>1, <2>3 DEF TimerNames
    <2> QED
        BY <2>4, <2>5
<1> QED
    BY <1>1, <1>2

LEMMA StoppedType ==
    ASSUME NEW q \in Request, NEW ts \in [TimerNames -> Timer]
    PROVE  Stopped(q) \in Request /\ StoppedTimers(ts) \in [TimerNames -> Timer]
<1>1. Stopped(q) \in Request
    BY DEF Stopped, Request
<1>2. StoppedTimers(ts) \in [TimerNames -> Timer]
    BY DEF StoppedTimers, TimerNames, Timer
<1> QED
    BY <1>1, <1>2

LEMMA ForgetType == ASSUME TypeOK, NEW why \in {"answered", "timeout", "span", "expired"}, Forget(why)
                    PROVE  TypeOK'
<1>1. Off \in Timer
    BY DEF Off, Timer
<1> QED
    BY <1>1 DEF TypeOK, Forget

LEMMA InitType == Init => TypeOK
<1> SUFFICES ASSUME Init PROVE TypeOK
    OBVIOUS
<1>1. timers \in [TimerNames -> Timer]
    BY DEF Init, Off, Timer
<1>2. request \in Request
    BY DEF Init, Request
<1>3. settings \in 0..MaxSettings
    BY RangeAssumption DEF Init
<1> QED
    BY <1>1, <1>2, <1>3, ParameterAssumption DEF Init, TypeOK

LEMMA SettingType == ASSUME TypeOK, ApplySetting PROVE TypeOK'
<1> DEFINE call == Head(queue)
<1>1. call \in Call /\ queue' \in Seq(Call)
    BY DEF TypeOK, ApplySetting
<1>2. call.op # "sendRequest" => call.arg \in Nat
    BY <1>1 DEF Call
<1>3. parameters' \in Parameters /\ parameters'.ackRandomFactor >= 2
    <2> HIDE DEF call
    <2>0. parameters \in Parameters /\ parameters.ackRandomFactor >= 2 /\ RetransmitCap \in Nat
        BY RangeAssumption DEF TypeOK
    <2>1. CASE call.op = "setAckTimeout" /\ SetAckTimeout(call.arg)
        BY <1>2, <2>0, <2>1 DEF SetAckTimeout, Parameters
    <2>2. CASE call.op = "setAckRandomFactor" /\ SetAckRandomFactor(call.arg)
        BY <1>2, <2>0, <2>2 DEF SetAckRandomFactor, Parameters
    <2>3. CASE call.op = "setMaximumRetransmitCount" /\ SetMaximumRetransmitCount(call.arg)
        BY <1>2, <2>0, <2>3 DEF SetMaximumRetransmitCount, Parameters
    <2>4. CASE call.op = "setMaximumServerResponseDelay" /\ SetMaximumServerResponseDelay(call.arg)
        BY <1>2, <2>0, <2>4 DEF SetMaximumServerResponseDelay, Parameters
    <2>5. CASE call.op = "setMinimumTokenSize" /\ SetMinimumTokenSize(call.arg)
        BY <1>2, <2>0, <2>5 DEF SetMinimumTokenSize, Parameters
    <2> QED
        BY <2>1, <2>2, <2>3, <2>4, <2>5 DEF ApplySetting, call
<1> QED
    BY <1>1, <1>3 DEF TypeOK, ApplySetting

\* The request that is started, and its timers with their intervals.
LEMMA StartType == ASSUME TypeOK, StartRequest PROVE TypeOK'
<1> DEFINE call == Head(queue)
<1>1. call \in Call /\ queue' \in Seq(Call) /\ call.op = "sendRequest"
    BY DEF TypeOK, StartRequest
<1>2. call.con \in BOOLEAN /\ call.multicast \in BOOLEAN
    BY <1>1 DEF Call
<1>3. PICK timeout \in InitialTimeouts(call.con, parameters),
           wait \in MaximumTransmitWait(parameters), expiry \in MulticastTimeout(parameters) :
         Transmit([con |-> call.con, multicast |-> call.multicast, timeout |-> timeout,
                   retransmissionCounter |-> 0, transmissionInProgress |-> FALSE],
                  [timers EXCEPT !["maxTransmitWaitTimer"].interval = wait,
                                 !["multicastExpireTimer"].interval = expiry])
    BY Zenon DEF StartRequest
<1> DEFINE q == [con |-> call.con, multicast |-> call.multicast, timeout |-> timeout,
                 retransmissionCounter |-> 0, transmissionInProgress |-> FALSE]
           ts == [timers EXCEPT !["maxTransmitWaitTimer"].interval = wait,
                                !["multicastExpireTimer"].interval = expiry]
<1>4. timeout \in Nat /\ wait \in Nat /\ expiry \in Nat
    BY <1>2, DurationsType DEF TypeOK, Sound
<1>5. q \in Request /\ ts \in [TimerNames -> Timer]
    <2> HIDE DEF call
    <2>1. q \in Request
        BY <1>2, <1>4 DEF Request
    <2>2. ts \in [TimerNames -> Timer]
        BY <1>4 DEF TypeOK, Timer, TimerNames
    <2> QED
        BY <2>1, <2>2
<1>6. request' \in Request /\ timers' \in [TimerNames -> Timer]
    <2> HIDE DEF q, ts
    <2>1. Transmit(q, ts)
        BY <1>3 DEF q, ts
    <2> QED
        BY <1>5, <2>1, TransmitType DEF TypeOK
<1> QED
    BY <1>1, <1>6 DEF TypeOK, StartRequest

LEMMA NextType == TypeOK /\ [Next]_vars => TypeOK'
<1> SUFFICES ASSUME TypeOK, [Next]_vars PROVE TypeOK'
    OBVIOUS
<1>1. CASE PostSetting
    <2>1. PICK op \in {"setAckTimeout", "setAckRandomFactor", "setMaximumRetransmitCount",
                       "setMaximumServerResponseDelay", "setMinimumTokenSize"}, v \in Nat : Posted(op, v)
        BY <1>1, SettingAssumption DEF PostSetting
    <2>2. [op |-> op, arg |-> v] \in Call
        BY DEF Call
    <2>3. queue' \in Seq(Call)
        BY <2>1, <2>2 DEF Posted, TypeOK
    <2>4. settings' \in 0..MaxSettings
        BY <2>1, RangeAssumption DEF Posted, TypeOK
    <2> QED
        BY <2>1, <2>3, <2>4 DEF Posted, TypeOK
<1>2. CASE PostRequest
    <2>1. PICK con, multicast \in BOOLEAN :
             queue' = Append(queue, [op |-> "sendRequest", con |-> con, multicast |-> multicast])
        BY <1>2 DEF PostRequest
    <2>2. [op |-> "sendRequest", con |-> con, multicast |-> multicast] \in Call
        BY DEF Call
    <2>3. queue' \in Seq(Call)
        BY <2>1, <2>2 DEF TypeOK
    <2> QED
        BY <1>2, <2>3 DEF PostRequest, TypeOK
<1>3. CASE ApplySetting
    BY <1>3, SettingType
<1>4. CASE StartRequest
    BY <1>4, StartType
<1>5. CASE ReceiveBlock
    <2>1. request' \in Request /\ timers' \in [TimerNames -> Timer]
        <3>1. CASE request.multicast
            BY <1>5, <3>1, TransmitType DEF ReceiveBlock, TypeOK
        <3>2. CASE ~request.multicast
            BY <1>5, <3>2, StoppedType, TransmitType DEF ReceiveBlock, TypeOK
        <3> QED
            BY <3>1, <3>2
    <2> QED
        BY <1>5, <2>1 DEF ReceiveBlock, TypeOK
<1>6. CASE ReceivePartial
    BY <1>6, StoppedType DEF ReceivePartial, TypeOK
<1>7. CASE ReceiveLast
    BY <1>7, ForgetType DEF ReceiveLast
<1>8. CASE FireTimer
    <2>1. CASE OnRequestTimeout /\ CanRetransmit
        <3>1. request' \in Request /\ timers' \in [TimerNames -> Timer]
            BY <2>1, TransmitType DEF OnRequestTimeout, TypeOK
        <3>2. sent' = Append(sent, now) /\ sent \in Seq(Nat) /\ now \in Nat
            BY <2>1 DEF OnRequestTimeout, TypeOK
        <3>3. sent' \in Seq(Nat)
            BY <3>2
        <3> QED
            BY <2>1, <3>1, <3>3 DEF OnRequestTimeout, TypeOK
    <2>2. CASE OnRequestTimeout /\ ~CanRetransmit
        BY <2>2, ForgetType DEF OnRequestTimeout
    <2>3. CASE OnRequestMaxTransmissionSpanReached
        BY <2>3, ForgetType DEF OnRequestMaxTransmissionSpanReached
    <2>4. CASE OnMulticastRequestExpired
        BY <2>4, ForgetType DEF OnMulticastRequestExpired
    <2> QED
        BY <1>8, <2>1, <2>2, <2>3, <2>4 DEF FireTimer
<1>9. CASE Tick
    BY <1>9 DEF Tick, TypeOK
<1>10. CASE UNCHANGED vars
    BY <1>10 DEF vars, TypeOK
<1> QED
    BY <1>1, <1>2, <1>3, <1>4, <1>5, <1>6, <1>7, <1>8, <1>9, <1>10 DEF Next

\* Whatever the user sets, the durations stay in the ranges of their types and the random
\* factor at 1 or more.
THEOREM TypeCorrect == Spec => []TypeOK
BY InitType, NextType, PTL DEF Spec

(***************************************************************************)
(* What was answered is not given up.                                      *)
(***************************************************************************)

MessageTimers == {"timeoutTimer", "maxTransmitWaitTimer"}

\* A request q and timers ts have the fields of their records, whatever the values.
Shaped(q, ts) ==
    /\ DOMAIN q = {"con", "multicast", "timeout", "retransmissionCounter", "transmissionInProgress"}
    /\ ts = [n \in TimerNames |-> ts[n]]
    /\ \A n \in TimerNames : DOMAIN ts[n] = {"on", "at", "interval"}

\* The timers of a message run only while its transmission is in progress.
Follow(q, ts) == \A n \in MessageTimers : ts[n].on => q.transmissionInProgress

\* A sendRequest is posted at most once, and waits from the user's call to its start.
SentOnce ==
    /\ queue \in Seq(Call)
    /\ \A i \in DOMAIN queue : queue[i].op = "sendRequest" => stage = "posted"
    /\ \A i, j \in DOMAIN queue :
          queue[i].op = "sendRequest" /\ queue[j].op = "sendRequest" => i = j

\* Before the start and after the end no timer runs.
TimersEnd == stage # "registered" => \A n \in TimerNames : ~timers[n].on

\* A request that a timer gave up was in progress, and stays as it was.
Verdicts ==
    /\ verdict # "none" => stage = "forgotten"
    /\ verdict \in {"timeout", "span"} => request.transmissionInProgress

Answered == SentOnce /\ Shaped(request, timers) /\ Follow(request, timers) /\ TimersEnd /\ Verdicts

(***************************************************************************)
(* The operations on a request and its timers.                             *)
(***************************************************************************)

\* QTimer::start gives a timer, running or not.
LEMMA StartedShaped ==
    ASSUME NEW interval
    PROVE  DOMAIN Started(interval) = {"on", "at", "interval"}
BY DEF Started, Off

\* stopTransmission stops both timers of the message.
LEMMA StoppedFollow ==
    ASSUME NEW q, NEW ts, Shaped(q, ts)
    PROVE  /\ Shaped(Stopped(q), StoppedTimers(ts))
           /\ \A n \in MessageTimers : ~StoppedTimers(ts)[n].on
BY DEF Shaped, Stopped, StoppedTimers, MessageTimers, TimerNames

\* A transmission sets its flag before its timers run; the timer of a multicast request is
\* another one.
LEMMA TransmitFollow ==
    ASSUME NEW q, NEW ts, Shaped(q, ts), Follow(q, ts), Transmit(q, ts)
    PROVE  Shaped(request', timers') /\ Follow(request', timers')
<1>1. CASE q.multicast
    <2>1. /\ request' = q
          /\ timers' = [ts EXCEPT !["multicastExpireTimer"] = Started(ts["multicastExpireTimer"].interval)]
        BY <1>1 DEF Transmit, StartMulticastTransmission
    <2>2. DOMAIN Started(ts["multicastExpireTimer"].interval) = {"on", "at", "interval"}
        BY StartedShaped
    <2> QED
        BY <2>1, <2>2 DEF Shaped, Follow, MessageTimers, TimerNames
<1>2. CASE ~q.multicast
    <2> DEFINE first == ~q.transmissionInProgress
               timeout == IF first THEN q.timeout ELSE UInt(2 * q.timeout)
               wait == Started(ts["maxTransmitWaitTimer"].interval)
               again == Started(timeout)
    <2>1. /\ request' = IF first THEN [q EXCEPT !.transmissionInProgress = TRUE]
                        ELSE [q EXCEPT !.retransmissionCounter = @ + 1, !.timeout = timeout]
          /\ timers' = [ts EXCEPT !["maxTransmitWaitTimer"] = IF first THEN wait ELSE @,
                                  !["timeoutTimer"] = IF timeout > 0 THEN again ELSE @]
        BY <1>2, Zenon DEF Transmit, RestartTransmission
    <2>2. DOMAIN wait = {"on", "at", "interval"} /\ DOMAIN again = {"on", "at", "interval"}
        BY StartedShaped
    <2> HIDE DEF timeout, wait, again
    <2>3. DOMAIN request' = DOMAIN q /\ request'.transmissionInProgress
        BY <2>1 DEF Shaped
    <2>4. timers' = [n \in TimerNames |-> timers'[n]]
        BY <2>1 DEF Shaped, TimerNames
    <2>5. \A n \in TimerNames : DOMAIN timers'[n] = {"on", "at", "interval"}
        BY <2>1, <2>2 DEF Shaped, TimerNames
    <2> QED
        BY <2>3, <2>4, <2>5 DEF Shaped, Follow
<1> QED
    BY <1>1, <1>2

\* The end of the exchange destroys the timers.
LEMMA ForgetKeeps ==
    ASSUME Answered, NEW why, Forget(why), stage = "registered",
           why \in {"timeout", "span"} => request.transmissionInProgress
    PROVE  Answered'
<1>1. SentOnce'
    BY DEF Answered, SentOnce, Forget
<1>2. Shaped(request, timers)' /\ Follow(request, timers)' /\ TimersEnd'
    BY DEF Answered, Shaped, Follow, TimersEnd, MessageTimers, TimerNames, Forget, Off
<1>3. Verdicts'
    BY DEF Answered, Verdicts, Forget
<1> QED
    BY <1>1, <1>2, <1>3 DEF Answered

(***************************************************************************)
(* The steps.                                                              *)
(***************************************************************************)

LEMMA InitAnswered == Init => Answered
<1> SUFFICES ASSUME Init PROVE Answered
    OBVIOUS
<1>1. SentOnce
    BY DEF Init, SentOnce
<1>2. Shaped(request, timers)
    BY DEF Init, Shaped, TimerNames, Off
<1>3. Follow(request, timers) /\ TimersEnd
    BY DEF Init, Follow, TimersEnd, MessageTimers, TimerNames, Off
<1>4. Verdicts
    BY DEF Init, Verdicts
<1> QED
    BY <1>1, <1>2, <1>3, <1>4 DEF Answered

\* A posted setting is a call, and leaves the request alone.
LEMMA PostSettingAnswered == Answered /\ PostSetting => Answered'
<1> SUFFICES ASSUME Answered, PostSetting PROVE Answered'
    OBVIOUS
<1>1. PICK op \in {"setAckTimeout", "setAckRandomFactor", "setMaximumRetransmitCount",
                   "setMaximumServerResponseDelay", "setMinimumTokenSize"}, v \in Nat : Posted(op, v)
    BY SettingAssumption DEF PostSetting
<1>2. SentOnce'
    <2>1. [op |-> op, arg |-> v] \in Call /\ [op |-> op, arg |-> v].op # "sendRequest"
        BY DEF Call
    <2>2. queue' = Append(queue, [op |-> op, arg |-> v]) /\ stage' = stage
        BY <1>1 DEF Posted
    <2> HIDE DEF Call
    <2> QED
        BY <2>1, <2>2 DEF Answered, SentOnce
<1>3. Shaped(request, timers)' /\ Follow(request, timers)' /\ TimersEnd' /\ Verdicts'
    BY <1>1 DEF Answered, Posted, Shaped, Follow, TimersEnd, Verdicts
<1> QED
    BY <1>2, <1>3 DEF Answered

LEMMA PostRequestAnswered == Answered /\ PostRequest => Answered'
<1> SUFFICES ASSUME Answered, PostRequest PROVE Answered'
    OBVIOUS
<1>1. SentOnce'
    <2>1. PICK con, multicast \in BOOLEAN :
             queue' = Append(queue, [op |-> "sendRequest", con |-> con, multicast |-> multicast])
        BY DEF PostRequest
    <2>2. [op |-> "sendRequest", con |-> con, multicast |-> multicast] \in Call
        BY DEF Call
    <2>3. \A i \in DOMAIN queue : queue[i].op # "sendRequest"
        BY DEF Answered, SentOnce, PostRequest
    <2> HIDE DEF Call
    <2> QED
        BY <2>1, <2>2, <2>3 DEF Answered, SentOnce, PostRequest
<1>2. Shaped(request, timers)' /\ Follow(request, timers)'
    BY DEF Answered, PostRequest, Shaped, Follow
<1>3. TimersEnd' /\ Verdicts'
    BY DEF Answered, PostRequest, TimersEnd, Verdicts
<1> QED
    BY <1>1, <1>2, <1>3 DEF Answered

\* The rest of the queue is a queue, and has no sendRequest if one was taken.
LEMMA TailOnce ==
    ASSUME SentOnce, queue # <<>>, queue' = Tail(queue),
           stage' = stage \/ Head(queue).op = "sendRequest"
    PROVE  SentOnce'
<1>1. queue' \in Seq(Call) /\ \A i \in DOMAIN queue' : i + 1 \in DOMAIN queue /\ queue'[i] = queue[i + 1]
    BY DEF SentOnce
<1>2. \A i, j \in DOMAIN queue' : queue'[i].op = "sendRequest" /\ queue'[j].op = "sendRequest" => i = j
    <2> SUFFICES ASSUME NEW i \in DOMAIN queue', NEW j \in DOMAIN queue',
                        queue'[i].op = "sendRequest", queue'[j].op = "sendRequest"
                 PROVE  i = j
        OBVIOUS
    <2>1. i + 1 = j + 1
        BY <1>1 DEF SentOnce
    <2>2. i \in Nat /\ j \in Nat
        BY <1>1
    <2> QED
        BY <2>1, <2>2
<1>3. \A i \in DOMAIN queue' : queue'[i].op = "sendRequest" => stage' = "posted"
    <2> SUFFICES ASSUME NEW i \in DOMAIN queue', queue'[i].op = "sendRequest"
                 PROVE  stage' = "posted"
        OBVIOUS
    <2>1. i + 1 \in DOMAIN queue /\ queue[i + 1].op = "sendRequest" /\ i \in Nat \ {0}
        BY <1>1
    <2>2. Head(queue) = queue[1] /\ 1 \in DOMAIN queue
        BY DEF SentOnce
    <2>3. Head(queue).op # "sendRequest"
        <3> SUFFICES ASSUME queue[1].op = "sendRequest" PROVE FALSE
            BY <2>2
        <3>1. 1 = i + 1
            BY <2>1, <2>2 DEF SentOnce
        <3> QED
            BY <3>1, <2>1
    <2> QED
        BY <2>1, <2>3 DEF SentOnce
<1> QED
    BY <1>1, <1>2, <1>3 DEF SentOnce

LEMMA ApplySettingAnswered == Answered /\ ApplySetting => Answered'
<1> SUFFICES ASSUME Answered, ApplySetting PROVE Answered'
    OBVIOUS
<1>1. SentOnce'
    BY TailOnce DEF Answered, ApplySetting
<1>2. Shaped(request, timers)' /\ Follow(request, timers)' /\ TimersEnd' /\ Verdicts'
    BY DEF Answered, ApplySetting, Shaped, Follow, TimersEnd, Verdicts
<1> QED
    BY <1>1, <1>2 DEF Answered

\* The request that starts is the one that was posted: no timer runs and no verdict is given.
LEMMA StartRequestAnswered == Answered /\ StartRequest => Answered'
<1> SUFFICES ASSUME Answered, StartRequest PROVE Answered'
    OBVIOUS
<1>1. SentOnce'
    BY TailOnce DEF Answered, StartRequest
<1>2. stage = "posted"
    <2>1. Head(queue) = queue[1] /\ 1 \in DOMAIN queue
        BY DEF Answered, SentOnce, StartRequest
    <2> QED
        BY <2>1 DEF Answered, SentOnce, StartRequest
<1>3. PICK timeout, wait, expiry :
         Transmit([con |-> Head(queue).con, multicast |-> Head(queue).multicast,
                   timeout |-> timeout,
                   retransmissionCounter |-> 0, transmissionInProgress |-> FALSE],
                  [timers EXCEPT !["maxTransmitWaitTimer"].interval = wait,
                                 !["multicastExpireTimer"].interval = expiry])
    BY Zenon DEF StartRequest
<1> DEFINE q == [con |-> Head(queue).con, multicast |-> Head(queue).multicast,
                 timeout |-> timeout,
                 retransmissionCounter |-> 0, transmissionInProgress |-> FALSE]
           ts == [timers EXCEPT !["maxTransmitWaitTimer"].interval = wait,
                                !["multicastExpireTimer"].interval = expiry]
<1>4. Shaped(q, ts)
    BY DEF Answered, Shaped, TimerNames
<1>5. Follow(q, ts)
    BY <1>2 DEF Answered, Shaped, Follow, TimersEnd, MessageTimers, TimerNames
<1>6. Shaped(request, timers)' /\ Follow(request, timers)'
    <2> HIDE DEF q, ts
    <2>1. Transmit(q, ts)
        BY <1>3 DEF q, ts
    <2> QED
        BY <1>4, <1>5, <2>1, TransmitFollow
<1>7. TimersEnd' /\ Verdicts'
    BY <1>2 DEF Answered, StartRequest, TimersEnd, Verdicts
<1> QED
    BY <1>1, <1>6, <1>7 DEF Answered

LEMMA ReceiveBlockAnswered == Answered /\ ReceiveBlock => Answered'
<1> SUFFICES ASSUME Answered, ReceiveBlock PROVE Answered'
    OBVIOUS
<1>1. Shaped(request, timers)' /\ Follow(request, timers)'
    <2>1. CASE request.multicast
        BY <2>1, TransmitFollow DEF Answered, ReceiveBlock
    <2>2. CASE ~request.multicast
        <3>1. Shaped(Stopped(request), StoppedTimers(timers))
              /\ Follow(Stopped(request), StoppedTimers(timers))
            BY StoppedFollow DEF Answered, Follow
        <3> QED
            BY <2>2, <3>1, TransmitFollow DEF ReceiveBlock
    <2> QED
        BY <2>1, <2>2
<1>2. SentOnce' /\ TimersEnd' /\ Verdicts'
    BY DEF Answered, ReceiveBlock, SentOnce, TimersEnd, Verdicts
<1> QED
    BY <1>1, <1>2 DEF Answered

LEMMA ReceivePartialAnswered == Answered /\ ReceivePartial => Answered'
<1> SUFFICES ASSUME Answered, ReceivePartial PROVE Answered'
    OBVIOUS
<1>1. Shaped(request, timers)' /\ Follow(request, timers)'
    BY StoppedFollow DEF Answered, ReceivePartial, Follow
<1>2. SentOnce' /\ TimersEnd' /\ Verdicts'
    BY DEF Answered, ReceivePartial, SentOnce, TimersEnd, Verdicts
<1> QED
    BY <1>1, <1>2 DEF Answered

\* A timer that runs is one of a registered request; if it is one of a message, the
\* transmission is in progress.
LEMMA FireTimerAnswered == Answered /\ FireTimer => Answered'
<1> SUFFICES ASSUME Answered, FireTimer PROVE Answered'
    OBVIOUS
<1>1. stage = "registered"
    BY DEF Answered, TimersEnd, TimerNames, FireTimer, OnRequestTimeout, Due,
           OnRequestMaxTransmissionSpanReached, OnMulticastRequestExpired
<1>2. CASE OnRequestTimeout /\ CanRetransmit
    <2>1. Shaped(request, timers)' /\ Follow(request, timers)'
        BY <1>2, TransmitFollow DEF Answered, OnRequestTimeout
    <2>2. SentOnce' /\ TimersEnd' /\ Verdicts'
        BY <1>1, <1>2 DEF Answered, OnRequestTimeout, SentOnce, TimersEnd, Verdicts
    <2> QED
        BY <2>1, <2>2 DEF Answered
<1>3. CASE OnRequestTimeout /\ ~CanRetransmit
    <2>1. Forget("timeout") /\ request.transmissionInProgress
        BY <1>3 DEF OnRequestTimeout, Due, Answered, Follow, MessageTimers
    <2> QED
        BY <1>1, <2>1, ForgetKeeps
<1>4. CASE OnRequestMaxTransmissionSpanReached
    <2>1. Forget("span") /\ request.transmissionInProgress
        BY <1>4 DEF OnRequestMaxTransmissionSpanReached, Due, Answered, Follow, MessageTimers
    <2> QED
        BY <1>1, <2>1, ForgetKeeps
<1>5. CASE OnMulticastRequestExpired
    BY <1>1, <1>5, ForgetKeeps DEF OnMulticastRequestExpired
<1> QED
    BY <1>2, <1>3, <1>4, <1>5 DEF FireTimer

LEMMA NextAnswered == Answered /\ [Next]_vars => Answered'
<1> SUFFICES ASSUME Answered, [Next]_vars PROVE Answered'
    OBVIOUS
<1>1. CASE PostSetting
    BY <1>1, PostSettingAnswered
<1>2. CASE PostRequest
    BY <1>2, PostRequestAnswered
<1>3. CASE ApplySetting
    BY <1>3, ApplySettingAnswered
<1>4. CASE StartRequest
    BY <1>4, StartRequestAnswered
<1>5. CASE ReceiveBlock
    BY <1>5, ReceiveBlockAnswered
<1>6. CASE ReceivePartial
    BY <1>6, ReceivePartialAnswered
<1>7. CASE ReceiveLast
    BY <1>7, ForgetKeeps DEF ReceiveLast
<1>8. CASE FireTimer
    BY <1>8, FireTimerAnswered
<1>9. CASE Tick
    BY <1>9 DEF Answered, Tick, SentOnce, Shaped, Follow, TimersEnd, Verdicts
<1>10. CASE UNCHANGED vars
    BY <1>10 DEF vars, Answered, SentOnce, Shaped, Follow, TimersEnd, Verdicts
<1> QED
    BY <1>1, <1>2, <1>3, <1>4, <1>5, <1>6, <1>7, <1>8, <1>9, <1>10 DEF Next

\* stopTransmission: a request whose present message was answered, by an empty ACK, a
\* notification or a block, is never given up by a timer of that message or of an earlier one.
THEOREM AnsweredIsNotGivenUp == Spec => []AnsweredNotGivenUp
<1>1. Answered => AnsweredNotGivenUp
    BY DEF Answered, Verdicts, AnsweredNotGivenUp
<1> QED
    BY <1>1, InitAnswered, NextAnswered, PTL DEF Spec

(***************************************************************************)
(* The schedule of a message.                                              *)
(*                                                                         *)
(* While the parameters stay as they were when the request was started,    *)
(* all times of its first message follow from one number: the timeout that *)
(* was drawn for it.  Each timeout is a doubling of that number, each      *)
(* transmission comes when the timeout before it ends, early by the        *)
(* coarseness of the timer at most and late by MaxLate at most, and the    *)
(* timer of the whole transmission runs from the first of them.            *)
(***************************************************************************)

\* MAX_TRANSMIT_WAIT, as computed from parameters that are representable.
Wait(p) == TimesFactor(p.ackTimeout * (Shifted[p.maximumRetransmitCount + 1] - 1), p)

\* No timer is left behind by more than MaxLate.
OnTime(ts) == \A n \in TimerNames : ts[n].on => now <= ts[n].at + MaxLate
InTime == OnTime(timers)

\* A message in progress was sent once more than it was retransmitted, and retransmitted no
\* more than the parameters allow.
Counted ==
    /\ stage = "registered" => message >= 1 /\ (steady => parameters = known)
    /\ request.multicast => ~request.transmissionInProgress
    /\ request.transmissionInProgress =>
          /\ Len(sent) = request.retransmissionCounter + 1
          /\ steady => request.retransmissionCounter <= known.maximumRetransmitCount

\* The times at which the first message was sent, when its timeout was drawn as initial.
SentOnTime(initial) ==
    /\ sent # <<>> /\ Len(sent) <= known.maximumRetransmitCount + 1
    /\ \A k \in DOMAIN sent :
          /\ Coarseness * (sent[k] - sent[1]) >= (Coarseness - 1) * (initial * (Shifted[k - 1] - 1))
          /\ sent[k] - sent[1] <= initial * (Shifted[k - 1] - 1) + (k - 1) * MaxLate

\* The timers of the first message, while it is in progress.
Running(initial) ==
    /\ request.timeout = initial * Shifted[request.retransmissionCounter]
    /\ timers["timeoutTimer"].on <=> initial > 0
    /\ timers["timeoutTimer"].on =>
          /\ timers["timeoutTimer"].at = sent[Len(sent)] + request.timeout
          /\ timers["timeoutTimer"].interval = request.timeout
    /\ timers["maxTransmitWaitTimer"] =
          [on |-> TRUE, at |-> sent[1] + Wait(known), interval |-> Wait(known)]

Scheduled ==
    Steady /\ message = 1 =>
       \E initial \in InitialTimeouts(request.con, known) :
          /\ SentOnTime(initial)
          /\ request.transmissionInProgress /\ stage = "registered" => Running(initial)

Schedule == InTime /\ Counted /\ Scheduled /\ NotGivenUpEarly

(***************************************************************************)
(* The durations of representable parameters, without wrapping.            *)
(***************************************************************************)

LEMMA HalfWord == WordSize \div 2 \in Nat /\ WordSize \div 2 < WordSize
BY RangeAssumption

LEMMA TimesFactorMonotone ==
    ASSUME NEW p, Sound(p), NEW a \in Nat, NEW b \in Nat, a <= b
    PROVE  TimesFactor(a, p) <= TimesFactor(b, p) /\ a <= TimesFactor(a, p)
<1> DEFINE f == p.ackRandomFactor
<1>1. f \in Nat /\ 2 <= f
    BY DEF Sound, Parameters
<1> HIDE DEF f
<1>2. a * f \in Nat /\ b * f \in Nat /\ a * f <= b * f /\ a * 2 <= a * f
    BY <1>1, ProductType, ProductMonotone
<1>3. (a * f) \div 2 <= (b * f) \div 2 /\ a <= (a * f) \div 2
    BY <1>2
<1> QED
    BY <1>3 DEF TimesFactor, f

\* A timeout within ACK_TIMEOUT * ACK_RANDOM_FACTOR, m times, is within m times that.
LEMMA Within ==
    ASSUME NEW p, Sound(p), NEW most \in Nat, most <= TimesFactor(p.ackTimeout, p), NEW m \in Nat
    PROVE  most * m <= TimesFactor(p.ackTimeout * m, p)
<1> DEFINE t == p.ackTimeout
           f == p.ackRandomFactor
<1>0. t \in Nat /\ f \in Nat
    BY DEF Sound, Parameters
<1> HIDE DEF t, f
<1>1. t * f \in Nat /\ t * m \in Nat /\ (t * m) * f \in Nat /\ most * m \in Nat
    BY <1>0, ProductType
<1>2. 2 * most <= t * f
    BY <1>1, Halves DEF TimesFactor, t, f
<1>3. (2 * most) * m <= (t * f) * m
    BY <1>2, <1>1, ProductMonotone, 2 * most \in Nat
<1>4. (t * f) * m = (t * m) * f /\ (2 * most) * m = 2 * (most * m)
    BY <1>0
<1>5. most * m <= ((t * m) * f) \div 2
    BY <1>3, <1>4, <1>1
<1> QED
    BY <1>5 DEF TimesFactor, t, f

\* The wait for the last answer and the span of the retransmissions are exact.
LEMMA ExactDurations ==
    ASSUME NEW p, Sound(p), Representable(p)
    PROVE  /\ Wait(p) \in Nat /\ Wait(p) < WordSize \div 2
           /\ MaximumTransmitWait(p) = {Wait(p)}
           /\ MaximumTransmitSpan(p) =
                 {TimesFactor(p.ackTimeout * (Shifted[p.maximumRetransmitCount] - 1), p)}
           /\ MaximumTimeout(p) = {TimesFactor(p.ackTimeout, p)}
           /\ TimesFactor(p.ackTimeout, p) <= Wait(p)
<1> DEFINE t == p.ackTimeout
           last == Shifted[p.maximumRetransmitCount] - 1
           all == Shifted[p.maximumRetransmitCount + 1] - 1
<1>1. /\ p.maximumRetransmitCount \in Nat /\ p.maximumRetransmitCount + 1 \in Nat
      /\ t \in Nat
    BY RangeAssumption DEF Sound, Parameters
<1>2. last \in Nat /\ all \in Nat /\ last <= all /\ 1 <= all
    BY <1>1, ShiftedType, ShiftedStep
<1> HIDE DEF t, last, all
<1>3. t * last \in Nat /\ t * all \in Nat /\ t * last <= t * all /\ t <= t * all
    <2>1. t * 1 <= t * all
        BY <1>1, <1>2, ProductMonotone
    <2> QED
        BY <2>1, <1>1, <1>2, ProductType, ProductMonotone
<1>4. /\ TimesFactor(t * last, p) \in Nat /\ TimesFactor(t * all, p) \in Nat /\ TimesFactor(t, p) \in Nat
      /\ TimesFactor(t * last, p) <= TimesFactor(t * all, p)
      /\ TimesFactor(t, p) <= TimesFactor(t * all, p)
      /\ t * last <= TimesFactor(t * last, p) /\ t * all <= TimesFactor(t * all, p)
    BY <1>1, <1>3, TimesFactorType, TimesFactorMonotone
<1>5. Wait(p) = TimesFactor(t * all, p) /\ Wait(p) < WordSize \div 2
    BY DEF Wait, Representable, t, all
<1>6. \A x \in Nat : x < WordSize => UInt(x) = x
    BY RangeAssumption DEF UInt
<1>7. \A x \in Nat : x < WordSize => Converted(x) = {x}
    BY DEF Converted
<1>8. UInt(t * last) = t * last /\ UInt(t * all) = t * all
    <2>1. t * last < WordSize /\ t * all < WordSize
        BY <1>3, <1>4, <1>5, HalfWord, RangeAssumption
    <2> QED
        BY <2>1, <1>3, <1>6
<1>9. /\ Converted(TimesFactor(t * last, p)) = {TimesFactor(t * last, p)}
      /\ Converted(TimesFactor(t * all, p)) = {TimesFactor(t * all, p)}
      /\ Converted(TimesFactor(t, p)) = {TimesFactor(t, p)}
    BY <1>4, <1>5, <1>7, HalfWord, RangeAssumption
<1>10. MaximumTransmitWait(p) = {Wait(p)}
    BY <1>5, <1>8, <1>9 DEF MaximumTransmitWait, t, all
<1>11. MaximumTransmitSpan(p) = {TimesFactor(t * last, p)}
    BY <1>8, <1>9 DEF MaximumTransmitSpan, t, last
<1>12. MaximumTimeout(p) = {TimesFactor(t, p)}
    BY <1>9 DEF MaximumTimeout, t
<1> QED
    BY <1>4, <1>5, <1>10, <1>11, <1>12 DEF t, last

\* A drawn timeout lies between ACK_TIMEOUT and ACK_TIMEOUT * ACK_RANDOM_FACTOR.
LEMMA DrawnTimeout ==
    ASSUME NEW p, Sound(p), Representable(p), NEW con \in BOOLEAN, NEW initial \in InitialTimeouts(con, p)
    PROVE  initial \in Nat /\ p.ackTimeout <= initial /\ initial <= TimesFactor(p.ackTimeout, p)
<1> DEFINE most == TimesFactor(p.ackTimeout, p)
<1>1. p.ackTimeout \in Nat
    BY DEF Sound, Parameters
<1>2. most \in Nat /\ p.ackTimeout <= most
    BY <1>1, TimesFactorType, TimesFactorMonotone
<1>3. MaximumTimeout(p) = {most}
    BY ExactDurations
<1> HIDE DEF most
<1>4. initial = most \/ initial \in p.ackTimeout .. (most - 1)
    BY <1>3 DEF InitialTimeouts, MinimumTimeout
<1> QED
    BY <1>1, <1>2, <1>4 DEF most

\* None of its doublings, up to the last retransmission, is out of range.
LEMMA DoubledTimeout ==
    ASSUME NEW p, Sound(p), Representable(p), NEW con \in BOOLEAN, NEW initial \in InitialTimeouts(con, p),
           NEW k \in Nat, k <= p.maximumRetransmitCount
    PROVE  /\ initial * Shifted[k] \in Nat
           /\ initial * Shifted[k] <= Wait(p)
           /\ initial * (2 * Shifted[k] - 1) <= Wait(p)
<1> DEFINE all == Shifted[p.maximumRetransmitCount + 1] - 1
<1>1. p.maximumRetransmitCount \in Nat /\ initial \in Nat
    BY RangeAssumption, DrawnTimeout DEF Sound, Parameters
<1>2. /\ Shifted[k] \in Nat /\ all \in Nat /\ 2 * Shifted[k] - 1 \in Nat
      /\ Shifted[k] <= 2 * Shifted[k] - 1 /\ 2 * Shifted[k] - 1 <= all
    BY <1>1, ShiftedType, ShiftedStep, ShiftedMonotone
<1> HIDE DEF all
<1>3. initial * all <= Wait(p)
    BY <1>1, <1>2, Within, DrawnTimeout DEF Wait, all
<1>4. /\ initial * Shifted[k] \in Nat /\ initial * (2 * Shifted[k] - 1) \in Nat /\ initial * all \in Nat
      /\ initial * Shifted[k] <= initial * all /\ initial * (2 * Shifted[k] - 1) <= initial * all
    <2>1. Shifted[k] <= all
        BY <1>2
    <2> QED
        BY <2>1, <1>1, <1>2, ProductType, ProductMonotone
<1> QED
    BY <1>3, <1>4, ExactDurations

\* The next transmission comes no later than the ladder of the timeouts, by steps of l.
LEMMA LateUpper ==
    ASSUME NEW i \in Nat, NEW s \in Nat, NEW c \in Nat, NEW l \in Nat, NEW d \in Int, NEW e \in Int,
           d <= i * (s - 1) + c * l, e <= i * s + l
    PROVE  d + e <= i * (2 * s - 1) + (c + 1) * l
OBVIOUS

\* And no earlier than the ladder of the timeouts, each early by a fraction of it.
LEMMA EarlyLower ==
    ASSUME NEW i \in Nat, NEW s \in Nat, NEW c \in Nat, c > 0, NEW d \in Int, NEW e \in Int,
           c * d >= (c - 1) * (i * (s - 1)), e + (i * s) \div c >= i * s
    PROVE  c * (d + e) >= (c - 1) * (i * (2 * s - 1))
<1> DEFINE P == i * s
           y == P \div c
<1>1. P \in Nat
    BY ProductType
<1>2. y \in Nat /\ c * y <= P
    BY <1>1, Quotient
<1>3. i * (s - 1) = P - i /\ i * (2 * s - 1) = 2 * P - i
    OBVIOUS
<1>4. e + y >= P
    OBVIOUS
<1> HIDE DEF P, y
<1>5. c * (e + y) >= c * P
    BY <1>1, <1>2, <1>4
<1> QED
    BY <1>1, <1>2, <1>3, <1>4, <1>5

(***************************************************************************)
(* A message is sent, for the first time or again.                         *)
(***************************************************************************)

LEMMA StartedOnTime ==
    ASSUME now \in Nat, NEW interval \in Nat
    PROVE  /\ Started(interval).on => now <= Started(interval).at + MaxLate
           /\ interval < WordSize \div 2 =>
                 Started(interval) = [on |-> TRUE, at |-> now + interval, interval |-> interval]
<1>1. CASE interval < WordSize \div 2
    BY <1>1, TimeAssumption DEF Started
<1>2. CASE ~(interval < WordSize \div 2)
    BY <1>2 DEF Started, Off
<1> QED
    BY <1>1, <1>2

LEMMA SentFirst ==
    ASSUME NEW q \in Request, NEW ts \in [TimerNames -> Timer], Transmit(q, ts),
           ~q.multicast, ~q.transmissionInProgress
    PROVE  /\ request' = [q EXCEPT !.transmissionInProgress = TRUE]
           /\ timers'["multicastExpireTimer"] = ts["multicastExpireTimer"]
           /\ timers'["maxTransmitWaitTimer"] = Started(ts["maxTransmitWaitTimer"].interval)
           /\ timers'["timeoutTimer"] = IF q.timeout > 0 THEN Started(q.timeout) ELSE ts["timeoutTimer"]
<1> DEFINE wait == Started(ts["maxTransmitWaitTimer"].interval)
           again == Started(q.timeout)
<1>1. /\ request' = [q EXCEPT !.transmissionInProgress = TRUE]
      /\ timers' = [ts EXCEPT !["maxTransmitWaitTimer"] = wait,
                              !["timeoutTimer"] = IF q.timeout > 0 THEN again ELSE @]
    BY Zenon DEF Transmit, RestartTransmission
<1> HIDE DEF wait, again
<1>2. /\ timers'["multicastExpireTimer"] = ts["multicastExpireTimer"]
      /\ timers'["maxTransmitWaitTimer"] = wait
      /\ timers'["timeoutTimer"] = IF q.timeout > 0 THEN again ELSE ts["timeoutTimer"]
    BY <1>1 DEF TimerNames
<1> QED
    BY <1>1, <1>2 DEF wait, again

LEMMA SentAgain ==
    ASSUME NEW q \in Request, NEW ts \in [TimerNames -> Timer], Transmit(q, ts),
           ~q.multicast, q.transmissionInProgress
    PROVE  /\ request'.con = q.con /\ request'.multicast = q.multicast
           /\ request'.transmissionInProgress
           /\ request'.retransmissionCounter = q.retransmissionCounter + 1
           /\ request'.timeout = UInt(2 * q.timeout)
           /\ timers'["multicastExpireTimer"] = ts["multicastExpireTimer"]
           /\ timers'["maxTransmitWaitTimer"] = ts["maxTransmitWaitTimer"]
           /\ timers'["timeoutTimer"] = IF UInt(2 * q.timeout) > 0 THEN Started(UInt(2 * q.timeout))
                                        ELSE ts["timeoutTimer"]
<1> DEFINE doubled == UInt(2 * q.timeout)
           again == Started(doubled)
           more == q.retransmissionCounter + 1
<1>1. /\ request' = [q EXCEPT !.retransmissionCounter = @ + 1, !.timeout = doubled]
      /\ timers' = [ts EXCEPT !["maxTransmitWaitTimer"] = @,
                              !["timeoutTimer"] = IF doubled > 0 THEN again ELSE @]
    BY Zenon DEF Transmit, RestartTransmission
<1>2. request' = [q EXCEPT !.retransmissionCounter = more, !.timeout = doubled]
    BY <1>1
<1> HIDE DEF doubled, again, more
<1>3. /\ request'.con = q.con /\ request'.multicast = q.multicast
      /\ request'.transmissionInProgress
      /\ request'.retransmissionCounter = more /\ request'.timeout = doubled
    BY <1>2 DEF Request
<1>4. /\ timers'["multicastExpireTimer"] = ts["multicastExpireTimer"]
      /\ timers'["maxTransmitWaitTimer"] = ts["maxTransmitWaitTimer"]
      /\ timers'["timeoutTimer"] = IF doubled > 0 THEN again ELSE ts["timeoutTimer"]
    BY <1>1 DEF TimerNames
<1> QED
    BY <1>3, <1>4 DEF doubled, again, more

\* A timer that is started runs into the future.
LEMMA TransmitOnTime ==
    ASSUME now \in Nat, now' = now, NEW q \in Request, NEW ts \in [TimerNames -> Timer],
           Transmit(q, ts), OnTime(ts)
    PROVE  InTime'
<1>0. \A n \in TimerNames : ts[n].interval \in Nat
    BY DEF Timer
<1>1. CASE q.multicast
    <2> DEFINE expiry == Started(ts["multicastExpireTimer"].interval)
    <2>1. timers' = [ts EXCEPT !["multicastExpireTimer"] = expiry]
        BY <1>1 DEF Transmit, StartMulticastTransmission
    <2>2. expiry.on => now <= expiry.at + MaxLate
        BY <1>0, StartedOnTime DEF TimerNames
    <2> HIDE DEF expiry
    <2> QED
        BY <2>1, <2>2 DEF InTime, OnTime, TimerNames
<1>2. CASE ~q.multicast /\ ~q.transmissionInProgress
    <2> DEFINE wait == Started(ts["maxTransmitWaitTimer"].interval)
               first == Started(q.timeout)
    <2>1. /\ timers'["multicastExpireTimer"] = ts["multicastExpireTimer"]
          /\ timers'["maxTransmitWaitTimer"] = wait
          /\ timers'["timeoutTimer"] = IF q.timeout > 0 THEN first ELSE ts["timeoutTimer"]
        BY <1>2, SentFirst
    <2>2. /\ wait.on => now <= wait.at + MaxLate
          /\ first.on => now <= first.at + MaxLate
        BY <1>0, StartedOnTime DEF TimerNames, Request
    <2> HIDE DEF wait, first
    <2> QED
        BY <2>1, <2>2 DEF InTime, OnTime, TimerNames
<1>3. CASE ~q.multicast /\ q.transmissionInProgress
    <2> DEFINE doubled == UInt(2 * q.timeout)
               again == Started(doubled)
    <2>1. /\ timers'["multicastExpireTimer"] = ts["multicastExpireTimer"]
          /\ timers'["maxTransmitWaitTimer"] = ts["maxTransmitWaitTimer"]
          /\ timers'["timeoutTimer"] = IF doubled > 0 THEN again ELSE ts["timeoutTimer"]
        BY <1>3, SentAgain
    <2>2. again.on => now <= again.at + MaxLate
        BY StartedOnTime, UIntType DEF Request
    <2> HIDE DEF doubled, again
    <2> QED
        BY <2>1, <2>2 DEF InTime, OnTime, TimerNames
<1> QED
    BY <1>1, <1>2, <1>3

(***************************************************************************)
(* Steps that send nothing.                                                *)
(***************************************************************************)

\* Neither the request nor its history changes, and its timers only end with it.
LEMMA QuietKeeps ==
    ASSUME Schedule, UNCHANGED <<request, sent, message, known>>, steady' => steady,
           timers' = timers \/ stage' = "forgotten",
           stage' = stage \/ stage' \in {"posted", "forgotten"},
           steady' => parameters' = parameters
    PROVE  Counted' /\ Scheduled'
<1>1. Counted'
    BY DEF Schedule, Counted
<1>2. Scheduled'
    <2> SUFFICES ASSUME Steady', message' = 1
                 PROVE  \E initial \in InitialTimeouts(request'.con, known') :
                           /\ SentOnTime(initial)'
                           /\ request'.transmissionInProgress /\ stage' = "registered" => Running(initial)'
        BY DEF Scheduled
    <2>1. Steady /\ message = 1
        BY DEF Steady, Representable
    <2>2. PICK initial \in InitialTimeouts(request.con, known) :
             /\ SentOnTime(initial)
             /\ request.transmissionInProgress /\ stage = "registered" => Running(initial)
        BY <2>1 DEF Schedule, Scheduled
    <2>3. initial \in InitialTimeouts(request'.con, known')
        BY <2>2
    <2>4. SentOnTime(initial)'
        BY <2>2 DEF SentOnTime
    <2>5. request'.transmissionInProgress /\ stage' = "registered" => Running(initial)'
        BY <2>2 DEF Running
    <2> QED
        BY <2>3, <2>4, <2>5
<1> QED
    BY <1>1, <1>2

LEMMA ForgetSchedule ==
    ASSUME Schedule, NEW why, Forget(why), NotGivenUpEarly' PROVE Schedule'
<1>1. Counted' /\ Scheduled'
    BY QuietKeeps DEF Forget
<1>2. InTime'
    BY DEF Forget, InTime, OnTime, Off
<1> QED
    BY <1>1, <1>2 DEF Schedule

\* A verdict is final: without a new one, the property about it stays.
LEMMA VerdictStays ==
    ASSUME NotGivenUpEarly, UNCHANGED <<verdict, sent, message, known>>, request'.con = request.con,
           steady' => steady
    PROVE  NotGivenUpEarly'
BY DEF NotGivenUpEarly, Steady, Representable

LEMMA NoVerdict == ASSUME verdict' \notin {"timeout", "span"} PROVE NotGivenUpEarly'
BY DEF NotGivenUpEarly

(***************************************************************************)
(* The steps of the schedule.                                              *)
(***************************************************************************)

LEMMA InitSchedule == Init => Schedule
<1> SUFFICES ASSUME Init PROVE Schedule
    OBVIOUS
<1>1. InTime
    BY DEF Init, InTime, OnTime, Off
<1>2. Counted /\ Scheduled /\ NotGivenUpEarly
    BY DEF Init, Counted, Scheduled, NotGivenUpEarly
<1> QED
    BY <1>1, <1>2 DEF Schedule

\* A request is started once, and before that no timer runs.
LEMMA StartedOnce == ASSUME Answered, StartRequest PROVE stage = "posted"
<1>1. Head(queue) = queue[1] /\ 1 \in DOMAIN queue
    BY DEF Answered, SentOnce, StartRequest
<1> QED
    BY <1>1 DEF Answered, SentOnce, StartRequest

LEMMA StartSchedule == ASSUME TypeOK, Answered, Schedule, StartRequest PROVE Schedule'
<1> DEFINE call == Head(queue)
<1>1. call \in Call /\ call.op = "sendRequest"
    BY DEF TypeOK, StartRequest
<1>2. call.con \in BOOLEAN /\ call.multicast \in BOOLEAN
    BY <1>1 DEF Call
<1>3. PICK timeout \in InitialTimeouts(call.con, parameters),
           wait \in MaximumTransmitWait(parameters), expiry \in MulticastTimeout(parameters) :
         Transmit([con |-> call.con, multicast |-> call.multicast, timeout |-> timeout,
                   retransmissionCounter |-> 0, transmissionInProgress |-> FALSE],
                  [timers EXCEPT !["maxTransmitWaitTimer"].interval = wait,
                                 !["multicastExpireTimer"].interval = expiry])
    BY Zenon DEF StartRequest
<1> DEFINE q == [con |-> call.con, multicast |-> call.multicast, timeout |-> timeout,
                 retransmissionCounter |-> 0, transmissionInProgress |-> FALSE]
           ts == [timers EXCEPT !["maxTransmitWaitTimer"].interval = wait,
                                !["multicastExpireTimer"].interval = expiry]
<1>4. timeout \in Nat /\ wait \in Nat /\ expiry \in Nat
    BY <1>2, DurationsType DEF TypeOK, Sound
<1>5. stage = "posted" /\ \A n \in TimerNames : ~timers[n].on
    BY StartedOnce DEF Answered, TimersEnd
<1>6. /\ sent' = <<now>> /\ message' = 1 /\ known' = parameters /\ parameters' = parameters
      /\ steady' = TRUE /\ stage' = "registered" /\ now' = now /\ verdict' = verdict
    BY DEF StartRequest
<1>7. verdict' = "none"
    BY <1>5, <1>6 DEF Answered, Verdicts
<1> HIDE DEF call
<1>8. q \in Request /\ ts \in [TimerNames -> Timer]
    <2>1. q \in Request
        BY <1>2, <1>4 DEF Request
    <2>2. ts \in [TimerNames -> Timer]
        BY <1>4 DEF TypeOK, Timer, TimerNames
    <2> QED
        BY <2>1, <2>2
<1>9. /\ q.con = call.con /\ q.multicast = call.multicast /\ q.timeout = timeout
      /\ q.retransmissionCounter = 0 /\ ~q.transmissionInProgress
    OBVIOUS
<1>10. /\ \A n \in TimerNames : ~ts[n].on
       /\ ts["maxTransmitWaitTimer"].interval = wait
    BY <1>5 DEF TypeOK, Timer, TimerNames
<1>11. Transmit(q, ts)
    BY <1>3
<1> HIDE DEF q, ts
<1>12. InTime'
    BY <1>6, <1>8, <1>10, <1>11, TransmitOnTime DEF TypeOK, OnTime
<1>13. /\ request'.con = call.con /\ request'.multicast = call.multicast
       /\ request'.timeout = timeout /\ request'.retransmissionCounter = 0
       /\ request'.transmissionInProgress = ~call.multicast
    <2>1. CASE call.multicast
        <3>1. request' = q
            BY <1>9, <1>11, <2>1 DEF Transmit, StartMulticastTransmission
        <3> QED
            BY <3>1, <2>1, <1>8, <1>9 DEF Request
    <2>2. CASE ~call.multicast
        <3>1. request' = [q EXCEPT !.transmissionInProgress = TRUE]
            BY <1>8, <1>9, <1>11, <2>2, SentFirst
        <3> QED
            BY <3>1, <2>2, <1>8, <1>9 DEF Request
    <2> QED
        BY <1>2, <2>1, <2>2
<1>14. known' \in Parameters /\ known'.maximumRetransmitCount \in Nat /\ Sound(known')
    BY <1>6, RangeAssumption DEF TypeOK, Parameters, Sound
<1>15. Len(sent') = 1 /\ DOMAIN sent' = {1} /\ sent'[1] = now /\ now \in Nat
    BY <1>6 DEF TypeOK
<1>16. Counted'
    <2>1. /\ stage' = "registered" => message' >= 1 /\ (steady' => parameters' = known')
          /\ Len(sent') = request'.retransmissionCounter + 1
          /\ request'.retransmissionCounter <= known'.maximumRetransmitCount
        BY <1>6, <1>13, <1>14, <1>15
    <2>2. request'.multicast => ~request'.transmissionInProgress
        BY <1>13
    <2> QED
        BY <2>1, <2>2 DEF Counted
<1>17. Scheduled'
    <2> SUFFICES ASSUME Representable(known')
                 PROVE  /\ SentOnTime(timeout)'
                        /\ request'.transmissionInProgress => Running(timeout)'
        BY <1>6, <1>13 DEF Scheduled, Steady, Representable
    <2>1. SentOnTime(timeout)'
        <3>1. sent'[1] - sent'[1] = 0 /\ timeout * (Shifted[1 - 1] - 1) = 0
            BY <1>4, <1>15, ShiftedStep
        <3>2. (1 - 1) * MaxLate = 0 /\ (Coarseness - 1) * 0 = 0 /\ Coarseness * 0 = 0
            BY TimeAssumption
        <3>3. sent' # <<>> /\ Len(sent') <= known'.maximumRetransmitCount + 1
            BY <1>6, <1>14, <1>15
        <3>4. ASSUME NEW k \in DOMAIN sent'
              PROVE  /\ Coarseness * (sent'[k] - sent'[1]) >= (Coarseness - 1) * (timeout * (Shifted[k - 1] - 1))
                     /\ sent'[k] - sent'[1] <= timeout * (Shifted[k - 1] - 1) + (k - 1) * MaxLate
            <4>1. k = 1
                BY <1>15
            <4> QED
                BY <4>1, <3>1, <3>2
        <3> QED
            BY <3>3, <3>4 DEF SentOnTime
    <2>2. ASSUME request'.transmissionInProgress PROVE Running(timeout)'
        <3>1. /\ timers'["maxTransmitWaitTimer"] = Started(wait)
              /\ timers'["timeoutTimer"] = IF timeout > 0 THEN Started(timeout) ELSE ts["timeoutTimer"]
            BY <2>2, <1>2, <1>8, <1>9, <1>10, <1>11, <1>13, SentFirst
        <3>2. wait = Wait(known') /\ wait < WordSize \div 2
            BY <1>6, <1>14, ExactDurations
        <3>3. Started(wait) = [on |-> TRUE, at |-> now + wait, interval |-> wait]
            BY <1>4, <1>15, <3>2, StartedOnTime
        <3>4. timeout < WordSize \div 2
            <4>1. timeout <= TimesFactor(known'.ackTimeout, known')
                BY <1>2, <1>6, <1>14, DrawnTimeout
            <4>2. /\ TimesFactor(known'.ackTimeout, known') <= Wait(known')
                  /\ TimesFactor(known'.ackTimeout, known') \in Nat
                BY <1>14, ExactDurations, TimesFactorType DEF Parameters
            <4> QED
                BY <4>1, <4>2, <3>2, <1>4, HalfWord
        <3>5. Started(timeout) = [on |-> TRUE, at |-> now + timeout, interval |-> timeout]
            BY <1>4, <1>15, <3>4, StartedOnTime
        <3>6. ~ts["timeoutTimer"].on
            BY <1>10 DEF TimerNames
        <3>7. request'.timeout = timeout * Shifted[request'.retransmissionCounter]
            BY <1>4, <1>13, ShiftedStep
        <3>8. timers'["maxTransmitWaitTimer"] =
                 [on |-> TRUE, at |-> sent'[1] + Wait(known'), interval |-> Wait(known')]
            BY <3>1, <3>2, <3>3, <1>15
        <3>9. /\ timers'["timeoutTimer"].on <=> timeout > 0
              /\ timers'["timeoutTimer"].on =>
                    /\ timers'["timeoutTimer"].at = sent'[Len(sent')] + request'.timeout
                    /\ timers'["timeoutTimer"].interval = request'.timeout
            BY <3>1, <3>5, <3>6, <1>4, <1>13, <1>15
        <3>10. Wait(known)' = Wait(known')
            BY DEF Wait
        <3> QED
            BY <3>7, <3>8, <3>9, <3>10 DEF Running
    <2> QED
        BY <2>1, <2>2
<1>18. NotGivenUpEarly'
    BY <1>7, NoVerdict
<1> QED
    BY <1>12, <1>16, <1>17, <1>18 DEF Schedule

\* A further block is another message: it has no history, and no schedule is promised for it.
LEMMA BlockSchedule == ASSUME TypeOK, Answered, Schedule, ReceiveBlock PROVE Schedule'
<1> DEFINE q == IF request.multicast THEN request ELSE Stopped(request)
           ts == IF request.multicast THEN timers ELSE StoppedTimers(timers)
<1>1. Transmit(q, ts)
    BY DEF ReceiveBlock
<1>2. q \in Request /\ ts \in [TimerNames -> Timer]
    BY StoppedType DEF TypeOK
<1>3. /\ stage = "registered" /\ stage' = stage /\ sent' = <<now>> /\ message' = message + 1
      /\ known' = known /\ steady' = steady /\ parameters' = parameters /\ now' = now
      /\ verdict' = verdict
    BY DEF ReceiveBlock
<1>4. OnTime(ts)
    <2>1. CASE request.multicast
        BY <2>1 DEF Schedule, InTime
    <2>2. CASE ~request.multicast
        BY <2>2 DEF Schedule, InTime, OnTime, StoppedTimers, TypeOK, Timer, TimerNames
    <2> QED
        BY <2>1, <2>2
<1>5. q.multicast = request.multicast /\ ~q.transmissionInProgress
      /\ (~q.multicast => q.retransmissionCounter = 0)
    BY DEF Stopped, TypeOK, Request, Schedule, Counted
<1> HIDE DEF q, ts
<1>6. InTime'
    BY <1>1, <1>2, <1>3, <1>4, TransmitOnTime DEF TypeOK
<1>7. /\ request'.multicast => ~request'.transmissionInProgress
      /\ request'.transmissionInProgress => request'.retransmissionCounter = 0
    <2>1. CASE q.multicast
        <3>1. request' = q
            BY <1>1, <2>1 DEF Transmit, StartMulticastTransmission
        <3> QED
            BY <3>1, <1>5
    <2>2. CASE ~q.multicast
        <3>1. request' = [q EXCEPT !.transmissionInProgress = TRUE]
            BY <1>1, <1>2, <1>5, <2>2, SentFirst
        <3>2. request'.multicast = q.multicast /\ request'.retransmissionCounter = 0
            BY <3>1, <1>2, <1>5, <2>2 DEF Request
        <3> QED
            BY <3>2, <2>2
    <2> QED
        BY <2>1, <2>2
<1>8. message \in Nat /\ message >= 1 /\ now \in Nat /\ known.maximumRetransmitCount \in Nat
    BY <1>3, RangeAssumption DEF TypeOK, Parameters, Schedule, Counted
<1>9. Counted'
    <2>1. Len(sent') = 1
        BY <1>3
    <2>2. steady => parameters = known
        BY <1>3 DEF Schedule, Counted
    <2> QED
        BY <2>1, <2>2, <1>3, <1>7, <1>8 DEF Counted
<1>10. Scheduled'
    BY <1>3, <1>8 DEF Scheduled
<1>11. NotGivenUpEarly'
    BY <1>3, NoVerdict DEF Answered, Verdicts
<1> QED
    BY <1>6, <1>9, <1>10, <1>11 DEF Schedule

\* An empty ACK or a notification stops the timers; the history stays.
LEMMA PartialSchedule == ASSUME TypeOK, Answered, Schedule, ReceivePartial PROVE Schedule'
<1>1. /\ request'.con = request.con /\ request'.multicast = request.multicast
      /\ ~request'.transmissionInProgress
    BY DEF ReceivePartial, Stopped, TypeOK, Request
<1>2. InTime'
    BY DEF ReceivePartial, Schedule, InTime, OnTime, StoppedTimers, TypeOK, Timer, TimerNames
<1>3. Counted'
    BY <1>1 DEF ReceivePartial, Schedule, Counted
<1>4. Scheduled'
    <2> SUFFICES ASSUME Steady', message' = 1
                 PROVE  \E initial \in InitialTimeouts(request'.con, known') : SentOnTime(initial)'
        BY <1>1 DEF Scheduled
    <2>1. Steady /\ message = 1
        BY DEF Steady, Representable, ReceivePartial
    <2>2. PICK initial \in InitialTimeouts(request.con, known) : SentOnTime(initial)
        BY <2>1 DEF Schedule, Scheduled
    <2>3. initial \in InitialTimeouts(request'.con, known')
        BY <2>2, <1>1 DEF ReceivePartial
    <2>4. SentOnTime(initial)'
        BY <2>2 DEF SentOnTime, ReceivePartial
    <2> QED
        BY <2>3, <2>4
<1>5. NotGivenUpEarly'
    BY NoVerdict DEF ReceivePartial, Answered, Verdicts
<1> QED
    BY <1>2, <1>3, <1>4, <1>5 DEF Schedule

(***************************************************************************)
(* The timers end.                                                         *)
(***************************************************************************)

\* A timer that fires is one of a registered request, and one of a message only while its
\* transmission is in progress.
LEMMA FiredInProgress ==
    ASSUME Answered, NEW n \in TimerNames, Due(n)
    PROVE  stage = "registered" /\ (n \in MessageTimers => request.transmissionInProgress)
BY DEF Answered, TimersEnd, Follow, Due

\* A request sent again is one of the requests sent before, a doubling later.
LEMMA AgainOnTime ==
    ASSUME TypeOK, Answered, Schedule, Due("timeoutTimer"), CanRetransmit,
           Transmit(request, timers), sent' = Append(sent, now), now' = now,
           UNCHANGED <<stage, message, known, steady, parameters>>, Steady, message = 1,
           NEW initial \in InitialTimeouts(request.con, known), SentOnTime(initial), Running(initial)
    PROVE  SentOnTime(initial)' /\ Running(initial)'
<1> DEFINE c == request.retransmissionCounter
           P == initial * Shifted[c]
           n == Len(sent)
<1>1. /\ stage = "registered" /\ request.transmissionInProgress /\ ~request.multicast
      /\ parameters = known
    BY FiredInProgress DEF TimerNames, MessageTimers, Schedule, Counted, Steady
<1>2. /\ c \in Nat /\ known.maximumRetransmitCount \in Nat /\ c < known.maximumRetransmitCount
      /\ Sound(known) /\ request.con \in BOOLEAN /\ request \in Request
      /\ timers \in [TimerNames -> Timer] /\ now \in Nat
    BY <1>1, RangeAssumption DEF CanRetransmit, TypeOK, Request, Parameters, Sound
<1>3. n = c + 1 /\ sent \in Seq(Nat) /\ n \in DOMAIN sent /\ 1 \in DOMAIN sent
    BY <1>1, <1>2 DEF Schedule, Counted, TypeOK
<1>4. Representable(known) /\ initial \in Nat
    BY <1>2, DrawnTimeout DEF Steady
<1>5. /\ Shifted[c] \in Nat \ {0} /\ Shifted[c + 1] = 2 * Shifted[c]
      /\ P \in Nat /\ initial * Shifted[c + 1] = 2 * P
    <2>1. Shifted[c] \in Nat \ {0} /\ Shifted[c + 1] = 2 * Shifted[c]
        BY <1>2, ShiftedType, ShiftedStep
    <2> QED
        BY <2>1, <1>4, ProductType
<1>6. request.timeout = P
    BY DEF Running
<1>7. /\ timers["timeoutTimer"].at = sent[n] + P /\ timers["timeoutTimer"].interval = P
      /\ initial > 0
    BY <1>6 DEF Due, Running
<1>8. now <= sent[n] + P + MaxLate /\ now + P \div Coarseness >= sent[n] + P
    <2>1. now <= timers["timeoutTimer"].at + MaxLate
        BY DEF Schedule, InTime, OnTime, TimerNames, Due
    <2>2. now + P \div Coarseness >= sent[n] + P
        BY <1>7 DEF Due
    <2> QED
        BY <2>1, <2>2, <1>7
<1> HIDE DEF c, P, n
<1>9. /\ Len(sent') = n + 1 /\ DOMAIN sent' = 1 .. (n + 1) /\ sent'[n + 1] = now
      /\ \A k \in DOMAIN sent : sent'[k] = sent[k]
      /\ DOMAIN sent = 1 .. n /\ n \in Nat /\ sent[n] \in Nat /\ sent[1] \in Nat
    BY <1>2, <1>3 DEF n
<1>10. 2 * P \in Nat /\ 2 * P < WordSize \div 2
    <2>1. initial * Shifted[c + 1] <= Wait(known)
        BY <1>2, <1>4, DoubledTimeout
    <2>2. Wait(known) \in Nat /\ Wait(known) < WordSize \div 2
        BY <1>2, <1>4, ExactDurations
    <2> QED
        BY <2>1, <2>2, <1>5, HalfWord
<1>11. SentOnTime(initial)'
    <2>1. /\ Coarseness * (sent[n] - sent[1]) >= (Coarseness - 1) * (initial * (Shifted[c] - 1))
          /\ sent[n] - sent[1] <= initial * (Shifted[c] - 1) + c * MaxLate
        <3>1. n - 1 = c
            BY <1>2, <1>3
        <3> QED
            BY <3>1, <1>3 DEF SentOnTime
    <2> DEFINE d == sent[n] - sent[1]
               e == now - sent[n]
    <2>2. d \in Int /\ e \in Int /\ now - sent[1] = d + e
        BY <1>2, <1>9
    <2>3. e <= P + MaxLate /\ e + P \div Coarseness >= P
        <3> DEFINE early == P \div Coarseness
        <3>1. early \in Nat
            BY <1>5, TimeAssumption, Quotient
        <3>2. now <= sent[n] + P + MaxLate /\ now + early >= sent[n] + P
            BY <1>8
        <3> HIDE DEF early
        <3>3. e <= P + MaxLate /\ e + early >= P
            <4>1. now \in Nat /\ sent[n] \in Nat /\ P \in Nat /\ MaxLate \in Nat
                BY <1>2, <1>5, <1>9, TimeAssumption
            <4> QED
                BY <4>1, <3>1, <3>2
        <3> QED
            BY <3>3 DEF early
    <2>4. /\ Coarseness * d >= (Coarseness - 1) * (initial * (Shifted[c] - 1))
          /\ d <= initial * (Shifted[c] - 1) + c * MaxLate
        BY <2>1
    <2> HIDE DEF d, e
    <2>5. d + e <= initial * (2 * Shifted[c] - 1) + (c + 1) * MaxLate
        BY <2>2, <2>3, <2>4, <1>2, <1>4, <1>5, TimeAssumption, LateUpper DEF P
    <2>6. Coarseness * (d + e) >= (Coarseness - 1) * (initial * (2 * Shifted[c] - 1))
        <3> DEFINE s == Shifted[c]
        <3>1. e + (initial * s) \div Coarseness >= initial * s
            BY <2>3 DEF P
        <3>2. Coarseness * d >= (Coarseness - 1) * (initial * (s - 1))
            BY <2>4
        <3>3. s \in Nat /\ Coarseness \in Nat /\ Coarseness > 0
            BY <1>5, TimeAssumption
        <3> HIDE DEF s
        <3>4. Coarseness * (d + e) >= (Coarseness - 1) * (initial * (2 * s - 1))
            BY <3>1, <3>2, <3>3, <2>2, <1>4, EarlyLower
        <3> QED
            BY <3>4 DEF s
    <2>7. ASSUME NEW k \in DOMAIN sent'
          PROVE  /\ Coarseness * (sent'[k] - sent'[1]) >= (Coarseness - 1) * (initial * (Shifted[k - 1] - 1))
                 /\ sent'[k] - sent'[1] <= initial * (Shifted[k - 1] - 1) + (k - 1) * MaxLate
        <3>1. CASE k \in DOMAIN sent
            BY <3>1, <1>3, <1>9 DEF SentOnTime
        <3>2. CASE k \notin DOMAIN sent
            <4>1. k = n + 1 /\ k - 1 = c + 1 /\ sent'[k] - sent'[1] = d + e
                BY <3>2, <1>2, <1>3, <1>9, <2>2
            <4>2. Shifted[k - 1] = 2 * Shifted[c]
                BY <4>1, <1>5
            <4> QED
                BY <4>1, <4>2, <2>5, <2>6
        <3> QED
            BY <3>1, <3>2
    <2>8. sent' # <<>> /\ Len(sent') <= known.maximumRetransmitCount + 1
        BY <1>2, <1>3, <1>9
    <2> QED
        BY <2>7, <2>8 DEF SentOnTime
<1>12. Running(initial)'
    <2>1. /\ request'.retransmissionCounter = c + 1
          /\ request'.timeout = UInt(2 * P)
          /\ timers'["maxTransmitWaitTimer"] = timers["maxTransmitWaitTimer"]
          /\ timers'["timeoutTimer"] = IF UInt(2 * P) > 0 THEN Started(UInt(2 * P))
                                       ELSE timers["timeoutTimer"]
        BY <1>1, <1>2, <1>6, SentAgain DEF c
    <2>2. UInt(2 * P) = 2 * P /\ 2 * P > 0
        <3>1. P > 0
            BY <1>4, <1>5, <1>7 DEF P
        <3> QED
            BY <3>1, <1>5, <1>10, HalfWord, RangeAssumption DEF UInt
    <2>3. timers'["timeoutTimer"] = [on |-> TRUE, at |-> now + 2 * P, interval |-> 2 * P]
        BY <2>1, <2>2, <1>2, <1>10, StartedOnTime
    <2>4. request'.timeout = initial * Shifted[request'.retransmissionCounter]
        BY <2>1, <2>2, <1>5
    <2>5. timers'["maxTransmitWaitTimer"] =
             [on |-> TRUE, at |-> sent'[1] + Wait(known), interval |-> Wait(known)]
        BY <2>1, <1>3, <1>9 DEF Running
    <2>6. /\ timers'["timeoutTimer"].on <=> initial > 0
          /\ timers'["timeoutTimer"].at = sent'[Len(sent')] + request'.timeout
          /\ timers'["timeoutTimer"].interval = request'.timeout
        BY <2>1, <2>2, <2>3, <1>7, <1>9
    <2>7. Wait(known)' = Wait(known)
        BY DEF Wait
    <2> QED
        BY <2>4, <2>5, <2>6, <2>7 DEF Running
<1> QED
    BY <1>11, <1>12

LEMMA AgainSchedule ==
    ASSUME TypeOK, Answered, Schedule, OnRequestTimeout, CanRetransmit PROVE Schedule'
<1>1. /\ Due("timeoutTimer") /\ Transmit(request, timers) /\ sent' = Append(sent, now) /\ now' = now
      /\ UNCHANGED <<stage, message, known, steady, parameters, verdict>>
    BY DEF OnRequestTimeout
<1>2. stage = "registered" /\ request.transmissionInProgress /\ ~request.multicast
    BY <1>1, FiredInProgress DEF TimerNames, MessageTimers, Schedule, Counted
<1>3. /\ request'.con = request.con /\ request'.multicast = request.multicast
      /\ request'.transmissionInProgress
      /\ request'.retransmissionCounter = request.retransmissionCounter + 1
    BY <1>1, <1>2, SentAgain DEF TypeOK
<1>4. InTime'
    BY <1>1, TransmitOnTime DEF TypeOK, Schedule, InTime
<1>5. Counted'
    <2>1. Len(sent') = Len(sent) + 1 /\ Len(sent) \in Nat /\ request.retransmissionCounter \in Nat
        BY <1>1 DEF TypeOK, Request
    <2>2. steady => request.retransmissionCounter + 1 <= known.maximumRetransmitCount
        <3>1. steady => request.retransmissionCounter < known.maximumRetransmitCount
            BY <1>2 DEF CanRetransmit, Schedule, Counted
        <3> QED
            BY <3>1, <2>1, RangeAssumption DEF TypeOK, Parameters
    <2>3. Len(sent) = request.retransmissionCounter + 1
        BY <1>2 DEF Schedule, Counted
    <2> QED
        BY <2>1, <2>2, <2>3, <1>1, <1>2, <1>3 DEF Schedule, Counted
<1>6. Scheduled'
    <2> SUFFICES ASSUME Steady', message' = 1
                 PROVE  \E initial \in InitialTimeouts(request'.con, known') :
                           SentOnTime(initial)' /\ Running(initial)'
        BY DEF Scheduled
    <2>1. Steady /\ message = 1
        BY <1>1 DEF Steady, Representable
    <2>2. PICK initial \in InitialTimeouts(request.con, known) : SentOnTime(initial) /\ Running(initial)
        BY <2>1, <1>2 DEF Schedule, Scheduled
    <2>3. SentOnTime(initial)' /\ Running(initial)'
        BY <2>1, <2>2, <1>1, AgainOnTime
    <2>4. initial \in InitialTimeouts(request'.con, known')
        BY <2>2, <1>1, <1>3
    <2> QED
        BY <2>3, <2>4
<1>7. NotGivenUpEarly'
    BY <1>1, <1>2, NoVerdict DEF Answered, Verdicts
<1> QED
    BY <1>4, <1>5, <1>6, <1>7 DEF Schedule

\* The timeout that gives a message up comes after the last retransmission.
LEMMA TimeoutSchedule ==
    ASSUME TypeOK, Answered, Schedule, OnRequestTimeout, ~CanRetransmit PROVE Schedule'
<1>1. Due("timeoutTimer") /\ Forget("timeout")
    BY DEF OnRequestTimeout
<1>2. stage = "registered" /\ request.transmissionInProgress
    BY <1>1, FiredInProgress DEF TimerNames, MessageTimers
<1>3. NotGivenUpEarly'
    <2> SUFFICES ASSUME steady, request.con
                 PROVE  Len(sent) = known.maximumRetransmitCount + 1
        BY <1>1 DEF NotGivenUpEarly, Steady, Forget
    <2>1. /\ Len(sent) = request.retransmissionCounter + 1
          /\ request.retransmissionCounter <= known.maximumRetransmitCount
          /\ parameters = known
        BY <1>2 DEF Schedule, Counted
    <2>2. ~ (request.retransmissionCounter < known.maximumRetransmitCount)
        BY <2>1 DEF CanRetransmit
    <2>3. request.retransmissionCounter \in Nat /\ known.maximumRetransmitCount \in Nat
        BY RangeAssumption DEF TypeOK, Request, Parameters
    <2> QED
        BY <2>1, <2>2, <2>3
<1> QED
    BY <1>1, <1>3, ForgetSchedule

\* The ladder of the timeouts, late by l at each step, is far from the end of the wait when a
\* retransmission is left: P is the present timeout, n the transmissions so far.
LEMMA WaitOutlasts ==
    ASSUME NEW i \in Nat, i > 0, NEW P \in Nat, NEW n \in Nat, NEW l \in Nat, NEW c \in Nat, c > 2,
           NEW wait \in Nat, NEW passed \in Int,
           n * i <= P, 2 * l <= i, 4 * P - i <= wait,
           passed <= 2 * P - i + n * l,
           passed + wait \div c >= wait
    PROVE  FALSE
<1> DEFINE y == wait \div c
           L == n * l
           I == n * i
<1>1. y \in Nat /\ c * y <= wait
    BY Quotient
<1>2. L \in Nat /\ I \in Nat /\ 2 * L <= I
    <2>1. n * (2 * l) <= n * i
        BY ProductMonotone, 2 * l \in Nat
    <2> QED
        BY <2>1, ProductType
<1>3. 3 * y <= wait
    <2>1. 3 * y <= c * y
        BY <1>1, ProductMonotone
    <2> QED
        BY <1>1, <2>1, ProductType
<1>4. passed + y >= wait /\ passed <= 2 * P - i + L /\ I <= P
    OBVIOUS
<1> HIDE DEF y, L, I
<1> QED
    BY <1>1, <1>2, <1>3, <1>4

\* The timer of the whole transmission ends it after the last retransmission.
LEMMA SpanSchedule ==
    ASSUME TypeOK, Answered, Schedule, OnRequestMaxTransmissionSpanReached PROVE Schedule'
<1>1. Due("maxTransmitWaitTimer") /\ Forget("span")
    BY DEF OnRequestMaxTransmissionSpanReached
<1>2. stage = "registered" /\ request.transmissionInProgress
    BY <1>1, FiredInProgress DEF TimerNames, MessageTimers
<1>3. NotGivenUpEarly'
    <2> SUFFICES ASSUME Steady, request.con, known.ackTimeout > 0, known.ackTimeout >= 2 * MaxLate,
                        message = 1, Len(sent) # known.maximumRetransmitCount + 1
                 PROVE  FALSE
        BY <1>1 DEF NotGivenUpEarly, Steady, Representable, Forget
    <2>1. PICK initial \in InitialTimeouts(request.con, known) : SentOnTime(initial) /\ Running(initial)
        BY <1>2 DEF Schedule, Scheduled
    <2> DEFINE c == request.retransmissionCounter
               n == Len(sent)
               P == initial * Shifted[c]
               wait == Wait(known)
               passed == now - sent[1]
    <2>2. /\ c \in Nat /\ known.maximumRetransmitCount \in Nat /\ now \in Nat
          /\ known.ackTimeout \in Nat /\ Sound(known) /\ request.con \in BOOLEAN
          /\ sent \in Seq(Nat)
        BY RangeAssumption DEF TypeOK, Request, Parameters, Sound
    <2>3. n = c + 1 /\ c < known.maximumRetransmitCount
        <3>1. n = c + 1 /\ c <= known.maximumRetransmitCount
            BY <1>2 DEF Schedule, Counted, Steady
        <3> QED
            BY <3>1, <2>2
    <2>4. Representable(known) /\ initial \in Nat /\ known.ackTimeout <= initial /\ initial > 0
        <3>1. Representable(known)
            BY DEF Steady
        <3>2. initial \in Nat /\ known.ackTimeout <= initial
            BY <3>1, <2>2, DrawnTimeout
        <3> QED
            BY <3>1, <3>2, <2>2
    <2>5. Shifted[c] \in Nat \ {0} /\ n \in Nat /\ n <= Shifted[c] /\ Shifted[c + 1] = 2 * Shifted[c]
        <3>1. /\ Shifted[c] \in Nat \ {0} /\ c + 1 <= Shifted[c] /\ Shifted[c + 1] = 2 * Shifted[c]
              /\ c + 1 \in Nat
            <4>1. c \in Nat
                BY <2>2
            <4> HIDE DEF c
            <4> QED
                BY <4>1, ShiftedType, ShiftedStep
        <3> QED
            BY <3>1, <2>3
    <2>6. P \in Nat /\ n * initial <= P
        <3> DEFINE s == Shifted[c]
        <3>1. s \in Nat /\ n \in Nat /\ n <= s
            BY <2>5
        <3> HIDE DEF s, n
        <3>2. s * initial \in Nat /\ n * initial <= s * initial /\ s * initial = initial * s
            BY <3>1, <2>4, ProductType, ProductMonotone
        <3> QED
            BY <3>2 DEF s
    <2>7. wait \in Nat /\ 4 * P - initial <= wait
        <3>1. c + 1 \in Nat /\ c + 1 <= known.maximumRetransmitCount
            BY <2>2, <2>3
        <3>2. initial * (2 * Shifted[c + 1] - 1) <= wait /\ wait \in Nat
            BY <3>1, <2>2, <2>4, DoubledTimeout, ExactDurations
        <3>3. initial * (2 * (2 * Shifted[c]) - 1) = 4 * P - initial
            BY <2>4, <2>5
        <3> QED
            BY <3>2, <3>3, <2>5
    <2>8. sent[1] \in Nat /\ sent[n] \in Nat /\ n \in DOMAIN sent
        BY <2>2, <2>3
    <2>9. /\ timers["timeoutTimer"].on
          /\ timers["timeoutTimer"].at = sent[n] + P
          /\ timers["maxTransmitWaitTimer"].at = sent[1] + wait
          /\ timers["maxTransmitWaitTimer"].interval = wait
        BY <2>1, <2>4 DEF Running
    <2>10. sent[n] - sent[1] <= P - initial + c * MaxLate
        <3>1. n - 1 = c
            BY <2>2, <2>3
        <3>2. sent[n] - sent[1] <= initial * (Shifted[c] - 1) + c * MaxLate
            BY <3>1, <2>1, <2>8 DEF SentOnTime
        <3>3. initial * (Shifted[c] - 1) = P - initial
            BY <2>4, <2>5
        <3> QED
            BY <3>2, <3>3
    <2>11. now <= sent[n] + P + MaxLate
        BY <2>9 DEF Schedule, InTime, OnTime, TimerNames
    <2>12. now + wait \div Coarseness >= sent[1] + wait
        BY <1>1, <2>9 DEF Due
    <2>13. c * MaxLate \in Nat /\ n * MaxLate = c * MaxLate + MaxLate /\ wait \div Coarseness \in Nat
        <3>1. wait \div Coarseness \in Nat
            BY <2>7, TimeAssumption, Quotient
        <3> HIDE DEF wait, n, c
        <3>2. c * MaxLate \in Nat /\ n * MaxLate = c * MaxLate + MaxLate
            BY <2>2, <2>3, TimeAssumption
        <3> QED
            BY <3>1, <3>2
    <2> DEFINE late == c * MaxLate
               later == n * MaxLate
               early == wait \div Coarseness
    <2>14. /\ sent[n] - sent[1] <= P - initial + late
           /\ now + early >= sent[1] + wait
           /\ late \in Nat /\ later = late + MaxLate /\ early \in Nat
        BY <2>10, <2>12, <2>13
    <2> HIDE DEF c, n, P, wait, late, later, early
    <2>15. passed <= 2 * P - initial + later /\ passed + early >= wait /\ passed \in Int
        <3>1. /\ now \in Nat /\ initial \in Nat /\ P \in Nat /\ wait \in Nat /\ MaxLate \in Nat
              /\ sent[1] \in Nat /\ sent[n] \in Nat
            BY <2>2, <2>4, <2>6, <2>7, <2>8, TimeAssumption
        <3>2. /\ passed = now - sent[1]
              /\ now <= sent[n] + P + MaxLate
            BY <2>11 DEF passed
        <3> HIDE DEF passed
        <3> QED
            <4> DEFINE first == sent[1]
                       final == sent[n]
            <4>1. /\ first \in Nat /\ final \in Nat
                  /\ final - first <= P - initial + late /\ now + early >= first + wait
                  /\ passed = now - first /\ now <= final + P + MaxLate
                BY <3>1, <3>2, <2>14
            <4> HIDE DEF first, final
            <4>2. late \in Nat /\ later = late + MaxLate /\ early \in Nat
                BY <2>14
            <4>3. passed <= 2 * P - initial + later
                BY <4>1, <4>2, <3>1
            <4>4. passed + early >= wait /\ passed \in Int
                BY <4>1, <4>2, <3>1
            <4> QED
                BY <4>3, <4>4
    <2>16. 2 * MaxLate <= initial
        BY <2>2, <2>4, TimeAssumption
    <2> HIDE DEF passed
    <2> QED
        BY <2>4, <2>5, <2>6, <2>7, <2>16, <2>15, TimeAssumption, WaitOutlasts DEF later, early
<1> QED
    BY <1>1, <1>3, ForgetSchedule

LEMMA NextSchedule == TypeOK /\ Answered /\ Schedule /\ [Next]_vars => Schedule'
<1> SUFFICES ASSUME TypeOK, Answered, Schedule, [Next]_vars PROVE Schedule'
    OBVIOUS
<1>1. ASSUME UNCHANGED <<request, timers, sent, message, known, verdict>>, steady' => steady,
             stage' = stage \/ stage' = "posted", steady' => parameters' = parameters, InTime'
      PROVE  Schedule'
    BY <1>1, QuietKeeps, VerdictStays DEF Schedule
<1>2. ASSUME now' = now, timers' = timers PROVE InTime'
    BY <1>2 DEF Schedule, InTime, OnTime
<1>3. CASE PostSetting
    BY <1>1, <1>2, <1>3 DEF PostSetting, Posted
<1>4. CASE PostRequest
    BY <1>1, <1>2, <1>4 DEF PostRequest
<1>5. CASE ApplySetting
    BY <1>1, <1>2, <1>5 DEF ApplySetting
<1>6. CASE StartRequest
    BY <1>6, StartSchedule
<1>7. CASE ReceiveBlock
    BY <1>7, BlockSchedule
<1>8. CASE ReceivePartial
    BY <1>8, PartialSchedule
<1>9. CASE ReceiveLast
    BY <1>9, NoVerdict, ForgetSchedule DEF ReceiveLast, Forget
<1>10. CASE FireTimer
    <2>1. CASE OnMulticastRequestExpired
        BY <2>1, NoVerdict, ForgetSchedule DEF OnMulticastRequestExpired, Forget
    <2> QED
        BY <1>10, <2>1, AgainSchedule, TimeoutSchedule, SpanSchedule DEF FireTimer
<1>11. CASE Tick
    <2>1. InTime'
        <3> SUFFICES ASSUME NEW n \in TimerNames, timers[n].on
                     PROVE  now + 1 <= timers[n].at + MaxLate
            BY <1>11 DEF Tick, InTime, OnTime
        <3>1. now < timers[n].at + MaxLate
            BY <1>11 DEF Tick
        <3> QED
            BY <3>1, TimeAssumption DEF TypeOK, Timer
    <2> QED
        BY <1>1, <1>11, <2>1 DEF Tick
<1>12. CASE UNCHANGED vars
    BY <1>1, <1>2, <1>12 DEF vars
<1> QED
    BY <1>3, <1>4, <1>5, <1>6, <1>7, <1>8, <1>9, <1>10, <1>11, <1>12 DEF Next

LEMMA ScheduleHolds == Spec => [](TypeOK /\ Answered /\ Schedule)
<1>1. Init => TypeOK /\ Answered /\ Schedule
    BY InitType, InitAnswered, InitSchedule
<1>2. TypeOK /\ Answered /\ Schedule /\ [Next]_vars => (TypeOK /\ Answered /\ Schedule)'
    BY NextType, NextAnswered, NextSchedule
<1> QED
    BY <1>1, <1>2, PTL DEF Spec

\* maximumTransmitSpan and setAckTimeout: while the settings stay, every retransmission of the
\* first message comes within the doublings of ACK_TIMEOUT and MAX_TRANSMIT_SPAN, for all
\* parameters whose durations are in range, every coarseness and every lateness of the timers.
THEOREM RetransmissionsOnSchedule == Spec => []RetransmitsOnSchedule
<1>1. TypeOK /\ Schedule => RetransmitsOnSchedule
    <2> SUFFICES ASSUME TypeOK, Schedule, Steady, message = 1, NEW k \in DOMAIN sent
                 PROVE  LET passed == sent[k] - sent[1] IN
                        /\ Coarseness * passed
                              >= (Coarseness - 1) * known.ackTimeout * (Shifted[k - 1] - 1)
                        /\ \A span \in MaximumTransmitSpan(known) : passed <= span + (k - 1) * MaxLate
        BY DEF RetransmitsOnSchedule
    <2>1. PICK initial \in InitialTimeouts(request.con, known) : SentOnTime(initial)
        BY DEF Schedule, Scheduled
    <2> DEFINE passed == sent[k] - sent[1]
               m == Shifted[k - 1] - 1
               t == known.ackTimeout
               last == Shifted[known.maximumRetransmitCount] - 1
    <2>2. /\ Sound(known) /\ Representable(known) /\ request.con \in BOOLEAN /\ t \in Nat
          /\ known.maximumRetransmitCount \in Nat /\ k \in Nat /\ k - 1 \in Nat
          /\ k - 1 <= known.maximumRetransmitCount /\ passed \in Int
        <3>1. Sound(known) /\ Representable(known) /\ request.con \in BOOLEAN /\ t \in Nat
              /\ known.maximumRetransmitCount \in Nat
            BY RangeAssumption DEF TypeOK, Sound, Parameters, Request, Steady
        <3>2. sent \in Seq(Nat) /\ Len(sent) <= known.maximumRetransmitCount + 1
            BY <2>1 DEF TypeOK, SentOnTime
        <3> QED
            BY <3>1, <3>2
    <2>3. initial \in Nat /\ t <= initial /\ initial <= TimesFactor(t, known)
        BY <2>2, DrawnTimeout
    <2>4. m \in Nat /\ last \in Nat /\ m <= last
        <3>1. Shifted[k - 1] \in Nat \ {0} /\ Shifted[known.maximumRetransmitCount] \in Nat \ {0}
            BY <2>2, ShiftedType
        <3>2. Shifted[k - 1] <= Shifted[known.maximumRetransmitCount]
            BY <2>2, ShiftedMonotone
        <3> QED
            BY <3>1, <3>2
    <2>5. /\ Coarseness * passed >= (Coarseness - 1) * (initial * m)
          /\ passed <= initial * m + (k - 1) * MaxLate
        BY <2>1 DEF SentOnTime
    <2> HIDE DEF passed, m, t, last
    <2>6. (Coarseness - 1) * (initial * m) >= (Coarseness - 1) * t * m
        <3>1. t * m \in Nat /\ initial * m \in Nat /\ t * m <= initial * m
            BY <2>2, <2>3, <2>4, ProductType, ProductMonotone
        <3>2. Coarseness - 1 \in Nat
            BY TimeAssumption
        <3>3. (Coarseness - 1) * (t * m) <= (Coarseness - 1) * (initial * m)
            BY <3>1, <3>2, ProductMonotone
        <3>4. (Coarseness - 1) * t * m = (Coarseness - 1) * (t * m)
            BY <2>2, <2>4, <3>2
        <3> QED
            BY <3>1, <3>2, <3>3, <3>4, ProductType
    <2>7. initial * m <= TimesFactor(t * last, known)
        <3>1. initial * m <= initial * last /\ initial * last \in Nat /\ initial * m \in Nat
            BY <2>3, <2>4, ProductType, ProductMonotone
        <3>2. initial * last <= TimesFactor(t * last, known)
            BY <2>2, <2>3, <2>4, Within DEF t
        <3>3. TimesFactor(t * last, known) \in Nat
            BY <2>2, <2>4, ProductType, TimesFactorType
        <3> QED
            BY <3>1, <3>2, <3>3
    <2>8. MaximumTransmitSpan(known) = {TimesFactor(t * last, known)}
        BY <2>2, ExactDurations DEF t, last
    <2>9. Coarseness * passed >= (Coarseness - 1) * t * m
        <3>1. (Coarseness - 1) * t * m \in Int /\ (Coarseness - 1) * (initial * m) \in Int
              /\ Coarseness * passed \in Int
            BY <2>2, <2>3, <2>4, TimeAssumption
        <3> QED
            BY <3>1, <2>5, <2>6
    <2>10. \A span \in MaximumTransmitSpan(known) : passed <= span + (k - 1) * MaxLate
        <3>1. (k - 1) * MaxLate \in Nat /\ TimesFactor(t * last, known) \in Nat /\ initial * m \in Nat
            BY <2>2, <2>3, <2>4, TimeAssumption, ProductType, TimesFactorType
        <3> QED
            BY <3>1, <2>2, <2>5, <2>7, <2>8
    <2> QED
        BY <2>9, <2>10 DEF passed, t, m
<1> QED
    BY <1>1, ScheduleHolds, PTL

\* MAX_RETRANSMIT: while the settings stay, no confirmable message is given up before its last
\* retransmission, also not by MAX_TRANSMIT_WAIT when it is the first of its request.
THEOREM NoneGivenUpEarly == Spec => []NotGivenUpEarly
<1>1. Schedule => NotGivenUpEarly
    BY DEF Schedule
<1> QED
    BY <1>1, ScheduleHolds, PTL
=============================================================================
