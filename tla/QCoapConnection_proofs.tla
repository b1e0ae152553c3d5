----------------------- MODULE QCoapConnection_proofs -----------------------
(***************************************************************************)
(* The invariants of QCoapConnection, for any number of requests, servers  *)
(* and frames, and the configuration of a secure connection, for any       *)
(* number of configurations: a secure connection is a connection, so what  *)
(* is proved of Spec holds for SecureSpec.                                 *)
(***************************************************************************)
EXTENDS QCoapSecureConnection, SequenceTheorems, TLAPS

(***************************************************************************)
(* The two outcomes of passing a frame to the connection.                  *)
(***************************************************************************)

With(h) == Append(framesToSend, [n |-> calls + 1, host |-> h])

\* The frame waits: the transport is not bound, and perhaps starts to be.
Waited(h) ==
    /\ state = "Unconnected" /\ Wait(With(h))
    /\ \/ UNCHANGED <<socket, handshake, peer>>
       \/ secure /\ socket = "Unconnected" /\ StartHandshake(With(h), h)

\* The frame is written, with all that wait: the transport was bound, or is now.
Wrote(h) ==
    /\ StartToSendRequest(With(h), handshake)
    /\ state' = "Bound"
    /\ UNCHANGED <<handshake, peer>>
    /\ \/ state = "Bound" /\ UNCHANGED socket
       \/ ~secure /\ socket' = "Bound"
       \/ handshake = "Complete" /\ UNCHANGED socket

LEMMA SendRequestOutcomes ==
    ASSUME TypeOK, NEW h, SendRequest(h)
    PROVE  /\ calls < MaxFrames /\ calls' = calls + 1 /\ UNCHANGED <<secure, cleared>>
           /\ servers' = servers \cup {h}
           /\ Waited(h) \/ Wrote(h)
  <1>1. /\ calls < MaxFrames /\ calls' = calls + 1 /\ UNCHANGED <<secure, cleared>>
        /\ servers' = servers \cup {h}
    BY DEF SendRequest
  <1>2. CASE state = "Unconnected"
    <2>1. Bind(With(h), h)
      BY <1>2 DEF SendRequest, With
    <2>2. CASE ~secure
      <3>1. BindSocket(With(h))
        BY <2>1, <2>2 DEF Bind
      <3> QED
        BY <1>1, <1>2, <2>2, <3>1 DEF BindSocket, OnBound, Waited, Wrote
    <2>3. CASE secure /\ handshake # "Complete" /\ socket = "Unconnected"
      <3>1. StartHandshake(With(h), h)
        BY <2>1, <2>3 DEF Bind
      <3> QED
        BY <1>1, <1>2, <2>3, <3>1 DEF StartHandshake, Waited
    <2>4. CASE secure /\ handshake # "Complete" /\ socket # "Unconnected"
      BY <1>1, <1>2, <2>1, <2>4 DEF Bind, Waited
    <2>5. CASE secure /\ handshake = "Complete"
      BY <1>1, <2>1, <2>5 DEF Bind, OnBound, Wrote
    <2> QED
      BY <1>1, <2>2, <2>3, <2>4, <2>5
  <1>3. CASE state # "Unconnected"
    BY <1>1, <1>3 DEF SendRequest, Wrote, With, TypeOK
  <1> QED
    BY <1>1, <1>2, <1>3

(***************************************************************************)
(* Types.                                                                  *)
(***************************************************************************)

LEMMA WithType ==
    ASSUME TypeOK, NEW h \in Hosts, calls < MaxFrames
    PROVE  /\ With(h) \in Seq(Frame) /\ With(h) # <<>>
           /\ Len(With(h)) = Len(framesToSend) + 1
           /\ \A i \in 1..Len(framesToSend) : With(h)[i] = framesToSend[i]
           /\ With(h)[Len(framesToSend) + 1] = [n |-> calls + 1, host |-> h]
           /\ With(h)[Len(framesToSend) + 1].n = calls + 1
  <1>1. [n |-> calls + 1, host |-> h] \in Frame
    BY ConnectionBoundAssumption DEF TypeOK, Frame
  <1>2. /\ With(h) \in Seq(Frame) /\ With(h) # <<>>
        /\ Len(With(h)) = Len(framesToSend) + 1
        /\ \A i \in 1..Len(framesToSend) : With(h)[i] = framesToSend[i]
        /\ With(h)[Len(framesToSend) + 1] = [n |-> calls + 1, host |-> h]
    BY <1>1, AppendProperties DEF TypeOK, With
  <1> QED
    BY <1>2

LEMMA WrittenType ==
    ASSUME TypeOK, NEW frames \in Seq(Frame), NEW hs
    PROVE  /\ Written(frames, hs) \in Seq(Datagram)
           /\ Len(Written(frames, hs)) = Len(frames)
           /\ \A i \in 1..Len(frames) :
                 Written(frames, hs)[i] = [n |-> frames[i].n, host |-> frames[i].host,
                                           to |-> Target(frames[i], hs)]
           /\ \A i \in 1..Len(frames) : Written(frames, hs)[i].n = frames[i].n
  <1>1. DOMAIN frames = 1..Len(frames) /\ Len(frames) \in Nat
    BY LenProperties
  <1>2. \A i \in 1..Len(frames) : frames[i] \in Frame
    BY ElementOfSeq
  <1>3. \A i \in 1..Len(frames) :
           [n |-> frames[i].n, host |-> frames[i].host, to |-> Target(frames[i], hs)] \in Datagram
    BY <1>2 DEF Target, Frame, Datagram, TypeOK
  <1>4. Written(frames, hs) \in [1..Len(frames) -> Datagram]
    BY <1>1, <1>3 DEF Written
  <1>5. Written(frames, hs) \in Seq(Datagram) /\ Len(Written(frames, hs)) = Len(frames)
    BY <1>1, <1>4, IsASeq, LenProperties
  <1> QED
    BY <1>1, <1>5 DEF Written

LEMMA StartToSendType ==
    ASSUME TypeOK, NEW frames \in Seq(Frame), NEW hs, StartToSendRequest(frames, hs)
    PROVE  /\ framesToSend' \in Seq(Frame) /\ written' \in Seq(Datagram) /\ halted' \in BOOLEAN
           /\ framesToSend' = <<>> /\ written' = written \o Written(frames, hs)
  BY WrittenType, ConcatProperties DEF StartToSendRequest, TypeOK

LEMMA SendRequestType ==
    ASSUME TypeOK, NEW h \in Hosts, SendRequest(h), UNCHANGED target,
           posted' \in Seq(Event), phase' \in [Requests -> Phase], session' = session
    PROVE  TypeOK'
  <1>1. /\ calls < MaxFrames /\ calls' = calls + 1 /\ UNCHANGED <<secure, cleared>>
        /\ servers' = servers \cup {h} /\ (Waited(h) \/ Wrote(h))
    BY SendRequestOutcomes
  <1>2. calls' \in 0..MaxFrames /\ servers' \subseteq Hosts
    BY <1>1, ConnectionBoundAssumption DEF TypeOK
  <1>3. With(h) \in Seq(Frame)
    BY <1>1, WithType
  <1>4. CASE Waited(h)
    <2>1. framesToSend' \in Seq(Frame) /\ UNCHANGED <<written, state, halted>>
      BY <1>3, <1>4 DEF Waited, Wait
    <2>2. /\ socket' \in {"Unconnected", "Bound"} /\ handshake' \in HandshakeState
          /\ peer' \in Hosts \cup {NoHost}
      BY <1>4 DEF Waited, StartHandshake, TypeOK, HandshakeState
    <2> QED
      BY <1>1, <1>2, <2>1, <2>2 DEF TypeOK
  <1>5. CASE Wrote(h)
    <2>1. framesToSend' \in Seq(Frame) /\ written' \in Seq(Datagram) /\ halted' \in BOOLEAN
      BY <1>3, <1>5, StartToSendType DEF Wrote
    <2> QED
      BY <1>1, <1>2, <1>5, <2>1 DEF Wrote, TypeOK
  <1> QED
    BY <1>1, <1>4, <1>5

LEMMA NextEventType ==
    ASSUME TypeOK, NEW e, NextEvent(e)
    PROVE  /\ posted' \in Seq(Event) /\ UNCHANGED <<target, session>>
           /\ posted # <<>> /\ Head(posted) = e /\ posted' = Tail(posted)
  BY HeadTailProperties DEF NextEvent, TypeOK

LEMMA TypeStep == TypeOK /\ [Next]_vars => TypeOK'
  <1> SUFFICES ASSUME TypeOK, [Next]_vars PROVE TypeOK'
    OBVIOUS
  <1>1. ASSUME NEW r \in Requests, PostRequest(r) PROVE TypeOK'
    <2>1. posted' \in Seq(Event)
      BY <1>1, AppendProperties DEF PostRequest, TypeOK, Event
    <2> QED
      BY <1>1, <2>1 DEF PostRequest, TypeOK, Phase
  <1>2. ASSUME NEW r \in Requests, HandleSendRequest(r) PROVE TypeOK'
    <2>1. phase' \in [Requests -> Phase] /\ target[r] \in Hosts /\ SendRequest(target[r])
      BY <1>2 DEF HandleSendRequest, TypeOK, Phase
    <2> QED
      BY <1>2, <2>1, NextEventType, SendRequestType DEF HandleSendRequest
  <1>3. ASSUME NEW r \in Requests, SendAgain(r) PROVE TypeOK'
    <2>1. target[r] \in Hosts
      BY DEF TypeOK
    <2>2. /\ SendRequest(target[r]) /\ UNCHANGED <<target, session>>
          /\ posted' \in Seq(Event) /\ phase' \in [Requests -> Phase]
      BY <1>3 DEF SendAgain, TypeOK
    <2> QED
      BY <2>1, <2>2, SendRequestType
  <1>4. ASSUME NEW r \in Requests, EndRequest(r) PROVE TypeOK'
    BY <1>4 DEF EndRequest, TypeOK, Phase
  <1>5. CASE PostDisconnect
    <2>1. posted' \in Seq(Event)
      BY <1>5, AppendProperties DEF PostDisconnect, TypeOK, Event
    <2> QED
      BY <1>5, <2>1 DEF PostDisconnect, TypeOK
  <1>6. CASE HandleDisconnect
    <2>1. NumbersOf(framesToSend) \subseteq 1..MaxFrames
      <3>1. \A i \in DOMAIN framesToSend : framesToSend[i] \in Frame
        BY ElementOfSeq, LenProperties DEF TypeOK
      <3> QED
        BY <3>1 DEF NumbersOf, Frame
    <2>2. framesToSend' \in Seq(Frame) /\ cleared' \subseteq 1..MaxFrames /\ servers' \subseteq Hosts
      BY <1>6, <2>1, EmptySeq DEF HandleDisconnect, Disconnect, TypeOK
    <2>3. socket' = "Unconnected" /\ handshake' \in HandshakeState /\ state' = "Unconnected"
      BY <1>6 DEF HandleDisconnect, Disconnect, Close, TypeOK, HandshakeState
    <2>4. /\ posted' \in Seq(Event)
          /\ UNCHANGED <<secure, peer, written, calls, halted, phase, target, session>>
      BY <1>6, NextEventType DEF HandleDisconnect, Disconnect
    <2> QED
      BY <2>2, <2>3, <2>4 DEF TypeOK
  <1>7. CASE HandshakeDatagram
    BY <1>7 DEF HandshakeDatagram, TypeOK, HandshakeState
  <1>8. CASE HandshakeCompleted
    <2>1. framesToSend' \in Seq(Frame) /\ written' \in Seq(Datagram) /\ halted' \in BOOLEAN
      <3>1. framesToSend \in Seq(Frame) /\ StartToSendRequest(framesToSend, "Complete")
        BY <1>8 DEF HandshakeCompleted, OnBound, TypeOK
      <3> QED
        BY <3>1, StartToSendType
    <2> QED
      BY <1>8, <2>1 DEF HandshakeCompleted, OnBound, TypeOK, HandshakeState
  <1>9. CASE PeerShutdown
    BY <1>9 DEF PeerShutdown, TypeOK, HandshakeState
  <1>10. CASE UNCHANGED vars
    BY <1>10 DEF vars, TypeOK
  <1> QED
    BY <1>1, <1>2, <1>3, <1>4, <1>5, <1>6, <1>7, <1>8, <1>9, <1>10 DEF Next

LEMMA TypeInit == Init => TypeOK
  <1> SUFFICES ASSUME Init PROVE TypeOK
    OBVIOUS
  <1>1. framesToSend \in Seq(Frame) /\ written \in Seq(Datagram) /\ posted \in Seq(Event)
    BY DEF Init
  <1>2. /\ calls \in 0..MaxFrames /\ cleared \subseteq 1..MaxFrames
        /\ target \in [Requests -> Hosts] /\ phase \in [Requests -> Phase]
    BY ConnectionBoundAssumption DEF Init, Phase
  <1> QED
    BY <1>1, <1>2 DEF Init, TypeOK, HandshakeState

(***************************************************************************)
(* The state of the connection.                                            *)
(***************************************************************************)

LEMMA SendRequestConsistent ==
    ASSUME ConnectionConsistent, TypeOK', NEW h \in Hosts, SendRequest(h)
    PROVE  ConnectionConsistent'
  <1>1. UNCHANGED secure /\ (Waited(h) \/ Wrote(h))
    BY SendRequestOutcomes DEF ConnectionConsistent
  <1>2. CASE Waited(h)
    <2>1. state' = "Unconnected" /\ handshake # "Complete"
      BY <1>2 DEF Waited, Wait, ConnectionConsistent
    <2>2. CASE UNCHANGED <<socket, handshake, peer>>
      BY <1>1, <2>1, <2>2 DEF ConnectionConsistent
    <2>3. CASE secure /\ socket = "Unconnected" /\ StartHandshake(With(h), h)
      <3>1. handshake # "InProgress"
        BY <2>3 DEF ConnectionConsistent
      <3>2. CASE handshake = "NotStarted"
        <4>1. peer' = h /\ h # NoHost /\ handshake' \in {"NotStarted", "InProgress"}
          BY <2>3, <3>2, ConnectionHostAssumption DEF StartHandshake
        <4>2. handshake' = "InProgress" => socket' = "Bound"
          BY <2>3, <3>2 DEF StartHandshake
        <4> QED
          BY <1>1, <2>1, <2>3, <4>1, <4>2 DEF ConnectionConsistent
      <3>3. CASE handshake # "NotStarted"
        <4>1. UNCHANGED <<peer, handshake>>
          BY <2>3, <3>3 DEF StartHandshake
        <4> QED
          BY <1>1, <2>1, <2>3, <3>1, <3>3, <4>1 DEF ConnectionConsistent
      <3> QED
        BY <3>2, <3>3
    <2> QED
      BY <1>2, <2>2, <2>3 DEF Waited
  <1>3. CASE Wrote(h)
    <2>1. framesToSend' = <<>>
      BY <1>3 DEF Wrote, StartToSendRequest
    <2> QED
      BY <1>1, <1>3, <2>1 DEF Wrote, ConnectionConsistent
  <1> QED
    BY <1>1, <1>2, <1>3

LEMMA ConsistentStep == ConnectionConsistent /\ [Next]_vars => ConnectionConsistent'
  <1> SUFFICES ASSUME ConnectionConsistent, [Next]_vars PROVE ConnectionConsistent'
    OBVIOUS
  <1>1. TypeOK /\ TypeOK'
    BY TypeStep DEF ConnectionConsistent
  <1>2. ASSUME NEW r \in Requests, HandleSendRequest(r) \/ SendAgain(r)
        PROVE  ConnectionConsistent'
    <2>1. target[r] \in Hosts /\ SendRequest(target[r])
      BY <1>1, <1>2 DEF HandleSendRequest, SendAgain, TypeOK
    <2> QED
      BY <1>1, <2>1, SendRequestConsistent
  <1>3. CASE HandleDisconnect
    BY <1>1, <1>3 DEF HandleDisconnect, Disconnect, Close, ConnectionConsistent
  <1>4. CASE HandshakeDatagram
    BY <1>1, <1>4 DEF HandshakeDatagram, ConnectionConsistent
  <1>5. CASE HandshakeCompleted
    <2>1. framesToSend' = <<>>
      BY <1>5 DEF HandshakeCompleted, OnBound, StartToSendRequest
    <2> QED
      BY <1>1, <1>5, <2>1 DEF HandshakeCompleted, OnBound, ConnectionConsistent
  <1>6. CASE PeerShutdown
    BY <1>1, <1>6 DEF PeerShutdown, ConnectionConsistent
  <1>7. ASSUME UNCHANGED <<secure, state, framesToSend, socket, handshake, peer>>
        PROVE  ConnectionConsistent'
    BY <1>1, <1>7 DEF ConnectionConsistent
  <1> QED
    BY <1>2, <1>3, <1>4, <1>5, <1>6, <1>7
    DEF Next, PostRequest, EndRequest, PostDisconnect, vars

(***************************************************************************)
(* The order of frames.  InOrder states it of a sequence w of datagrams, a *)
(* queue f, a set c of dropped numbers and the number k of frames so far;  *)
(* appending, writing and dropping each keep it.                           *)
(***************************************************************************)

InOrder(w, f, c, k) ==
    /\ Increasing(w) /\ Increasing(f)
    /\ \A i \in DOMAIN f :
          /\ \A j \in DOMAIN w : w[j].n < f[i].n
          /\ \A n \in c : n < f[i].n
    /\ NumbersOf(w) \cap c = {}
    /\ NumbersOf(w) \cup c \cup NumbersOf(f) = 1..k

LEMMA InOrderMeaning ==
    InOrder(written, framesToSend, cleared, calls) <=> FramesInOrder /\ FramesAccounted
  BY DEF InOrder, FramesInOrder, FramesAccounted

LEMMA Numbers ==
    ASSUME NEW f \in Seq(Frame)
    PROVE  /\ Len(f) \in Nat /\ DOMAIN f = 1..Len(f)
           /\ \A i \in 1..Len(f) : f[i].n \in Nat
  <1>1. \A i \in 1..Len(f) : f[i] \in Frame
    BY ElementOfSeq
  <1> QED
    BY <1>1, LenProperties, ConnectionBoundAssumption DEF Frame

LEMMA DatagramNumbers ==
    ASSUME NEW w \in Seq(Datagram)
    PROVE  /\ Len(w) \in Nat /\ DOMAIN w = 1..Len(w)
           /\ \A i \in 1..Len(w) : w[i].n \in Nat
  <1>1. Len(w) \in Nat /\ DOMAIN w = 1..Len(w)
    BY LenProperties
  <1>2. \A i \in 1..Len(w) : w[i] \in Datagram
    BY ElementOfSeq
  <1>3. \A d \in Datagram : d.n \in Nat
    BY ConnectionBoundAssumption DEF Datagram
  <1> QED
    BY <1>1, <1>2, <1>3

LEMMA InOrderAppend ==
    ASSUME TypeOK, NEW h \in Hosts, calls < MaxFrames,
           InOrder(written, framesToSend, cleared, calls)
    PROVE  InOrder(written, With(h), cleared, calls + 1)
  <1> DEFINE f == framesToSend
             g == With(h)
             l == Len(framesToSend)
  <1>1. /\ l \in Nat /\ DOMAIN f = 1..l /\ \A i \in 1..l : f[i].n \in Nat
        /\ Len(written) \in Nat /\ DOMAIN written = 1..Len(written)
        /\ \A i \in 1..Len(written) : written[i].n \in Nat
        /\ calls \in Nat
    <2>1. framesToSend \in Seq(Frame) /\ written \in Seq(Datagram) /\ calls \in Nat
      BY DEF TypeOK
    <2>2. /\ Len(framesToSend) \in Nat /\ DOMAIN framesToSend = 1..Len(framesToSend)
          /\ \A i \in 1..Len(framesToSend) : framesToSend[i].n \in Nat
      BY <2>1, Numbers
    <2>3. /\ Len(written) \in Nat /\ DOMAIN written = 1..Len(written)
          /\ \A i \in 1..Len(written) : written[i].n \in Nat
      BY <2>1, DatagramNumbers
    <2> QED
      BY <2>1, <2>2, <2>3
  <1>2. /\ g \in Seq(Frame) /\ Len(g) = l + 1
        /\ \A i \in 1..l : g[i] = f[i]
        /\ g[l + 1].n = calls + 1
    <2>1. /\ With(h) \in Seq(Frame) /\ Len(With(h)) = Len(framesToSend) + 1
          /\ \A i \in 1..Len(framesToSend) : With(h)[i] = framesToSend[i]
          /\ With(h)[Len(framesToSend) + 1].n = calls + 1
      BY WithType
    <2> QED
      BY <2>1
  <1>3. DOMAIN g = 1..(l + 1)
    BY <1>2, Numbers
  <1> HIDE DEF f, g, l
  <1>4. NumbersOf(g) = NumbersOf(f) \cup {calls + 1}
    <2>1. \A i \in 1..l : i \in 1..(l + 1)
      BY <1>1
    <2>2. \A i \in 1..(l + 1) : i \in 1..l \/ i = l + 1
      BY <1>1
    <2> QED
      BY <1>1, <1>2, <1>3, <2>1, <2>2 DEF NumbersOf
  <1>5. 1..(calls + 1) = (1..calls) \cup {calls + 1}
    BY <1>1
  <1>6. /\ \A i \in 1..l : f[i].n \in 1..calls
        /\ \A j \in DOMAIN written : written[j].n \in 1..calls
        /\ \A n \in cleared : n \in 1..calls
    BY <1>1 DEF InOrder, NumbersOf, f
  <1>7. Increasing(g)
    <2>1. \A i, j \in 1..(l + 1) : i < j => i \in 1..l /\ (j \in 1..l \/ j = l + 1)
      BY <1>1
    <2>2. \A i, j \in 1..l : i < j => f[i].n < f[j].n
      BY <1>1 DEF InOrder, Increasing, f
    <2> QED
      BY <1>1, <1>2, <1>3, <1>6, <2>1, <2>2 DEF Increasing
  <1>8. ASSUME NEW i \in DOMAIN g
        PROVE  /\ \A j \in DOMAIN written : written[j].n < g[i].n
               /\ \A n \in cleared : n < g[i].n
    <2>1. CASE i \in 1..l
      BY <1>1, <1>2, <2>1 DEF InOrder, f
    <2>2. CASE i = l + 1
      BY <1>1, <1>2, <1>6, <2>2
    <2> QED
      BY <1>1, <1>3, <2>1, <2>2
  <1>9. Increasing(written) /\ NumbersOf(written) \cap cleared = {}
    BY DEF InOrder
  <1>10. NumbersOf(written) \cup cleared \cup NumbersOf(g) = 1..(calls + 1)
    BY <1>4, <1>5 DEF InOrder, f
  <1> QED
    BY <1>7, <1>8, <1>9, <1>10 DEF InOrder, g

LEMMA InOrderWrite ==
    ASSUME TypeOK, NEW f \in Seq(Frame), NEW k \in Nat, NEW hs, InOrder(written, f, cleared, k)
    PROVE  InOrder(written \o Written(f, hs), <<>>, cleared, k)
  <1> DEFINE v == Written(f, hs)
             w == written \o v
             l == Len(written)
             m == Len(f)
  <1>1. /\ l \in Nat /\ DOMAIN written = 1..l /\ \A i \in 1..l : written[i].n \in Nat
        /\ m \in Nat /\ DOMAIN f = 1..m /\ \A i \in 1..m : f[i].n \in Nat
    <2>1. written \in Seq(Datagram)
      BY DEF TypeOK
    <2>2. /\ Len(f) \in Nat /\ DOMAIN f = 1..Len(f)
          /\ \A i \in 1..Len(f) : f[i].n \in Nat
      BY Numbers
    <2>3. /\ Len(written) \in Nat /\ DOMAIN written = 1..Len(written)
          /\ \A i \in 1..Len(written) : written[i].n \in Nat
      BY <2>1, DatagramNumbers
    <2> QED
      BY <2>2, <2>3
  <1>2. v \in Seq(Datagram) /\ Len(v) = m /\ \A i \in 1..m : v[i].n = f[i].n
    <2>1. /\ Written(f, hs) \in Seq(Datagram) /\ Len(Written(f, hs)) = Len(f)
          /\ \A i \in 1..Len(f) : Written(f, hs)[i].n = f[i].n
      BY WrittenType
    <2> QED
      BY <2>1
  <1>3. w \in Seq(Datagram) /\ Len(w) = l + m
    <2>1. written \in Seq(Datagram)
      BY DEF TypeOK
    <2> HIDE DEF v
    <2>2. written \o v \in Seq(Datagram) /\ Len(written \o v) = Len(written) + Len(v)
      BY <1>2, <2>1, ConcatProperties
    <2> QED
      BY <1>2, <2>2
  <1>4. /\ \A i \in 1..l : w[i] = written[i]
        /\ \A i \in 1..m : w[l + i].n = f[i].n
    <2>1. \A i \in 1..(l + m) : w[i] = IF i <= l THEN written[i] ELSE v[i - l]
      BY <1>2, ConcatProperties DEF TypeOK
    <2> HIDE DEF v, w, l, m
    <2>2. \A i \in 1..l : i \in 1..(l + m) /\ i <= l
      BY <1>1
    <2>3. \A i \in 1..m : l + i \in 1..(l + m) /\ ~ (l + i <= l) /\ (l + i) - l = i
      BY <1>1
    <2>4. \A i \in 1..m : w[l + i] = v[i]
      <3> TAKE i \in 1..m
      <3>1. w[l + i] = v[(l + i) - l]
        BY <2>1, <2>3
      <3> QED
        BY <2>3, <3>1
    <2> QED
      BY <1>2, <2>1, <2>2, <2>4
  <1>5. DOMAIN w = 1..(l + m)
    BY <1>3, DatagramNumbers
  <1> HIDE DEF v, w, l, m
  <1>6. \A i \in 1..(l + m) : i \in 1..l \/ \E j \in 1..m : i = l + j
    <2> TAKE i \in 1..(l + m)
    <2>1. CASE i <= l
      BY <1>1, <2>1
    <2>2. CASE i > l
      <3>1. i - l \in 1..m /\ i = l + (i - l)
        BY <1>1, <2>2
      <3> QED
        BY <3>1
    <2> QED
      BY <1>1, <2>1, <2>2
  <1>7. NumbersOf(w) = NumbersOf(written) \cup NumbersOf(f)
    <2>1. \A i \in 1..l : i \in 1..(l + m)
      BY <1>1
    <2>2. \A i \in 1..m : l + i \in 1..(l + m)
      BY <1>1
    <2>3. NumbersOf(written) \subseteq NumbersOf(w)
      BY <1>1, <1>4, <1>5, <2>1 DEF NumbersOf
    <2>4. NumbersOf(f) \subseteq NumbersOf(w)
      BY <1>1, <1>4, <1>5, <2>2 DEF NumbersOf
    <2>5. \A i \in 1..(l + m) : w[i].n \in NumbersOf(written) \cup NumbersOf(f)
      <3> TAKE i \in 1..(l + m)
      <3>1. CASE i \in 1..l
        BY <1>1, <1>4, <3>1 DEF NumbersOf
      <3>2. CASE \E j \in 1..m : i = l + j
        BY <1>1, <1>4, <3>2 DEF NumbersOf
      <3> QED
        BY <1>6, <3>1, <3>2
    <2>6. NumbersOf(w) \subseteq NumbersOf(written) \cup NumbersOf(f)
      BY <1>5, <2>5 DEF NumbersOf
    <2> QED
      BY <2>3, <2>4, <2>6
  <1>8. /\ \A a, b \in 1..l : a < b => written[a].n < written[b].n
        /\ \A a, b \in 1..m : a < b => f[a].n < f[b].n
        /\ \A a \in 1..l, b \in 1..m : written[a].n < f[b].n
    <2>1. /\ Increasing(written) /\ Increasing(f)
          /\ \A b \in DOMAIN f : \A a \in DOMAIN written : written[a].n < f[b].n
      BY DEF InOrder
    <2> QED
      BY <1>1, <2>1 DEF Increasing
  <1>9. Increasing(w)
    <2> SUFFICES ASSUME NEW i \in 1..(l + m), NEW j \in 1..(l + m), i < j
                 PROVE  w[i].n < w[j].n
      BY <1>5 DEF Increasing
    <2>1. CASE i \in 1..l /\ j \in 1..l
      <3>1. w[i] = written[i] /\ w[j] = written[j]
        BY <1>4, <2>1
      <3>2. written[i].n < written[j].n
        BY <1>8, <2>1
      <3> QED
        BY <3>1, <3>2
    <2>2. CASE i \in 1..l /\ \E q \in 1..m : j = l + q
      <3>1. PICK q \in 1..m : j = l + q
        BY <2>2
      <3>2. w[i] = written[i]
        BY <1>4, <2>2
      <3>3. w[l + q].n = f[q].n
        BY <1>4
      <3>4. written[i].n < f[q].n
        BY <1>8, <2>2, <3>1
      <3> QED
        BY <3>1, <3>2, <3>3, <3>4
    <2>3. CASE \E p, q \in 1..m : i = l + p /\ j = l + q
      <3>1. PICK p \in 1..m, q \in 1..m : i = l + p /\ j = l + q
        BY <2>3
      <3>2. p < q
        BY <1>1, <3>1
      <3>3. w[l + p].n = f[p].n /\ w[l + q].n = f[q].n
        BY <1>4
      <3>4. f[p].n < f[q].n
        BY <1>8, <3>1, <3>2
      <3> QED
        BY <3>1, <3>3, <3>4
    <2>4. CASE j \in 1..l /\ \E p \in 1..m : i = l + p
      BY <1>1, <2>4
    <2> QED
      BY <1>6, <2>1, <2>2, <2>3, <2>4
  <1>10. NumbersOf(f) \cap cleared = {}
    <2>1. \A i \in 1..m : \A n \in cleared : n < f[i].n
      BY <1>1 DEF InOrder
    <2>2. \A n \in cleared : n \in Nat
      BY ConnectionBoundAssumption DEF TypeOK
    <2>3. \A i \in 1..m : f[i].n \notin cleared
      BY <1>1, <2>1, <2>2
    <2> QED
      BY <1>1, <2>3 DEF NumbersOf
  <1>11. DOMAIN <<>> = {} /\ NumbersOf(<<>>) = {}
    BY DEF NumbersOf
  <1>12. InOrder(w, <<>>, cleared, k)
    <2>1. NumbersOf(w) \cap cleared = {}
      BY <1>7, <1>10 DEF InOrder
    <2>2. NumbersOf(w) \cup cleared \cup NumbersOf(<<>>) = 1..k
      BY <1>7, <1>11 DEF InOrder
    <2> QED
      BY <1>9, <1>11, <2>1, <2>2 DEF InOrder, Increasing
  <1> QED
    BY <1>12 DEF w, v

LEMMA InOrderDrop ==
    ASSUME TypeOK, InOrder(written, framesToSend, cleared, calls)
    PROVE  InOrder(written, <<>>, cleared \cup NumbersOf(framesToSend), calls)
  <1>1. /\ DOMAIN written = 1..Len(written) /\ \A i \in 1..Len(written) : written[i].n \in Nat
        /\ DOMAIN framesToSend = 1..Len(framesToSend)
        /\ \A i \in 1..Len(framesToSend) : framesToSend[i].n \in Nat
    <2>1. framesToSend \in Seq(Frame) /\ written \in Seq(Datagram)
      BY DEF TypeOK
    <2> QED
      BY <2>1, Numbers, DatagramNumbers
  <1>2. NumbersOf(written) \cap NumbersOf(framesToSend) = {}
    <2>1. \A i \in DOMAIN framesToSend, j \in DOMAIN written : written[j].n # framesToSend[i].n
      BY <1>1 DEF InOrder
    <2> QED
      BY <2>1 DEF NumbersOf
  <1>3. DOMAIN <<>> = {} /\ NumbersOf(<<>>) = {}
    BY DEF NumbersOf
  <1> QED
    BY <1>2, <1>3 DEF InOrder, Increasing

LEMMA InOrderStep ==
    TypeOK /\ FramesInOrder /\ FramesAccounted /\ [Next]_vars => FramesInOrder' /\ FramesAccounted'
  <1> SUFFICES ASSUME TypeOK, InOrder(written, framesToSend, cleared, calls), [Next]_vars
               PROVE  InOrder(written', framesToSend', cleared', calls')
    BY InOrderMeaning DEF InOrder, FramesInOrder, FramesAccounted, Increasing, NumbersOf
  <1>1. ASSUME NEW r \in Requests, HandleSendRequest(r) \/ SendAgain(r)
        PROVE  InOrder(written', framesToSend', cleared', calls')
    <2> DEFINE h == target[r]
    <2>1. h \in Hosts /\ SendRequest(h)
      BY <1>1 DEF HandleSendRequest, SendAgain, TypeOK
    <2>2. /\ calls < MaxFrames /\ calls' = calls + 1 /\ cleared' = cleared
          /\ Waited(h) \/ Wrote(h)
      BY <2>1, SendRequestOutcomes
    <2> HIDE DEF h
    <2>3. InOrder(written, With(h), cleared, calls + 1) /\ With(h) \in Seq(Frame)
      BY <2>1, <2>2, InOrderAppend, WithType
    <2>4. CASE Waited(h)
      BY <2>2, <2>3, <2>4 DEF Waited, Wait
    <2>5. CASE Wrote(h)
      <3>1. framesToSend' = <<>> /\ written' = written \o Written(With(h), handshake)
        BY <2>5 DEF Wrote, StartToSendRequest
      <3>2. calls + 1 \in Nat
        BY DEF TypeOK
      <3> QED
        BY <2>2, <2>3, <3>1, <3>2, InOrderWrite
    <2> QED
      BY <2>2, <2>4, <2>5
  <1>2. CASE HandleDisconnect
    BY <1>2, InOrderDrop DEF HandleDisconnect, Disconnect
  <1>3. CASE HandshakeCompleted
    <2>1. /\ framesToSend' = <<>> /\ written' = written \o Written(framesToSend, "Complete")
          /\ UNCHANGED <<cleared, calls>>
      BY <1>3 DEF HandshakeCompleted, OnBound, StartToSendRequest
    <2>2. framesToSend \in Seq(Frame) /\ calls \in Nat
      BY DEF TypeOK
    <2> QED
      BY <2>1, <2>2, InOrderWrite
  <1>4. ASSUME UNCHANGED <<written, framesToSend, cleared, calls>>
        PROVE  InOrder(written', framesToSend', cleared', calls')
    BY <1>4
  <1> QED
    BY <1>1, <1>2, <1>3, <1>4
    DEF Next, PostRequest, EndRequest, PostDisconnect, HandshakeDatagram, PeerShutdown, vars

(***************************************************************************)
(* The server a frame goes to.  Between two disconnect() everything in the *)
(* worker, and the peer of DTLS, belongs to the servers that frames were   *)
(* passed for: what waits, and whom the handshake is or will be with.      *)
(***************************************************************************)

HostsAreServers == \A i \in DOMAIN framesToSend : framesToSend[i].host \in servers

PeerIsServer == secure /\ socket = "Bound" /\ handshake # "PeerVerificationFailed" => peer \in servers

ServersInv == HostsAreServers /\ PeerIsServer

OneServer == \A g, h \in servers : g = h

ReachNow == ~secure \/ OneServer' => \A frame \in WrittenNow : frame.to \in {frame.host, NoHost}

\* The frames a step writes: all that waited, each to its target.
LEMMA WrittenFrames ==
    ASSUME TypeOK, NEW frames \in Seq(Frame), NEW hs, written' = written \o Written(frames, hs),
           NEW frame \in WrittenNow
    PROVE  \E i \in DOMAIN frames :
              frame.host = frames[i].host /\ frame.to = Target(frames[i], hs)
  <1> DEFINE v == Written(frames, hs)
             l == Len(written)
             m == Len(frames)
  <1>1. /\ l \in Nat /\ DOMAIN written = 1..l /\ m \in Nat /\ DOMAIN frames = 1..m
        /\ written \in Seq(Datagram)
    BY LenProperties DEF TypeOK
  <1>2. /\ v \in Seq(Datagram) /\ Len(v) = m
        /\ \A i \in 1..m : v[i] = [n |-> frames[i].n, host |-> frames[i].host,
                                   to |-> Target(frames[i], hs)]
    <2>1. /\ Written(frames, hs) \in Seq(Datagram) /\ Len(Written(frames, hs)) = Len(frames)
          /\ \A i \in 1..Len(frames) :
                Written(frames, hs)[i] = [n |-> frames[i].n, host |-> frames[i].host,
                                          to |-> Target(frames[i], hs)]
      BY WrittenType
    <2> QED
      BY <2>1
  <1> HIDE DEF v
  <1>3. /\ written' \in Seq(Datagram) /\ Len(written') = l + m
        /\ \A i \in 1..(l + m) : written'[i] = IF i <= l THEN written[i] ELSE v[i - l]
    <2>1. written' = written \o v
      BY DEF v
    <2>2. written \in Seq(Datagram) /\ v \in Seq(Datagram)
      BY <1>1, <1>2
    <2>3. /\ written \o v \in Seq(Datagram) /\ Len(written \o v) = Len(written) + Len(v)
          /\ \A i \in 1..(Len(written) + Len(v)) :
                (written \o v)[i] = IF i <= Len(written) THEN written[i] ELSE v[i - Len(written)]
      BY <2>2, ConcatProperties
    <2> QED
      BY <1>2, <2>1, <2>3
  <1>4. DOMAIN written' = 1..(l + m)
    BY <1>3, LenProperties
  <1>5. PICK j \in DOMAIN written' \ DOMAIN written : frame = written'[j]
    BY DEF WrittenNow
  <1> HIDE DEF l, m
  <1>6. j \in 1..(l + m) /\ ~(j <= l) /\ j - l \in 1..m
    BY <1>1, <1>4, <1>5
  <1>7. frame = v[j - l]
    BY <1>3, <1>5, <1>6
  <1>8. frame.host = frames[j - l].host /\ frame.to = Target(frames[j - l], hs)
    <2>1. v[j - l] = [n |-> frames[j - l].n, host |-> frames[j - l].host,
                      to |-> Target(frames[j - l], hs)]
      BY <1>2, <1>6
    <2> QED
      BY <1>7, <2>1
  <1> QED
    BY <1>1, <1>6, <1>8

\* Over DTLS the frames go to the peer, which is the only server there is.
LEMMA WrittenReach ==
    ASSUME TypeOK, NEW frames \in Seq(Frame), NEW hs, written' = written \o Written(frames, hs),
           secure /\ hs = "Complete" => peer \in servers',
           secure => \A i \in DOMAIN frames : frames[i].host \in servers'
    PROVE  ReachNow
  <1> SUFFICES ASSUME ~secure \/ OneServer', NEW frame \in WrittenNow
               PROVE  frame.to \in {frame.host, NoHost}
    BY DEF ReachNow
  <1>1. PICK i \in DOMAIN frames : frame.host = frames[i].host /\ frame.to = Target(frames[i], hs)
    BY WrittenFrames
  <1>2. CASE ~secure
    BY <1>1, <1>2 DEF Target
  <1>3. CASE secure
    <2>1. hs = "Complete" => peer = frames[i].host
      BY <1>3 DEF OneServer
    <2> QED
      BY <1>1, <1>3, <2>1 DEF Target
  <1> QED
    BY <1>2, <1>3

LEMMA NothingWritten == ASSUME UNCHANGED written PROVE ReachNow
  BY DEF ReachNow, WrittenNow

LEMMA SendRequestReaches ==
    ASSUME ConnectionConsistent, ServersInv, NEW h \in Hosts, SendRequest(h)
    PROVE  ReachNow /\ ServersInv'
  <1>1. /\ calls < MaxFrames /\ UNCHANGED secure /\ servers' = servers \cup {h} /\ TypeOK
        /\ Waited(h) \/ Wrote(h)
    BY SendRequestOutcomes DEF ConnectionConsistent
  <1>2. /\ With(h) \in Seq(Frame)
        /\ \A i \in DOMAIN With(h) : With(h)[i].host \in servers'
    <2>1. /\ With(h) \in Seq(Frame) /\ Len(With(h)) = Len(framesToSend) + 1
          /\ \A i \in 1..Len(framesToSend) : With(h)[i] = framesToSend[i]
          /\ With(h)[Len(framesToSend) + 1].host = h
      <3>1. /\ With(h) \in Seq(Frame) /\ Len(With(h)) = Len(framesToSend) + 1
            /\ \A i \in 1..Len(framesToSend) : With(h)[i] = framesToSend[i]
            /\ With(h)[Len(framesToSend) + 1] = [n |-> calls + 1, host |-> h]
        BY <1>1, WithType
      <3> QED
        BY <3>1
    <2>2. /\ DOMAIN With(h) = 1..(Len(framesToSend) + 1)
          /\ Len(framesToSend) \in Nat /\ DOMAIN framesToSend = 1..Len(framesToSend)
      BY <1>1, <2>1, LenProperties DEF TypeOK
    <2>3. \A i \in DOMAIN With(h) : i \in DOMAIN framesToSend \/ i = Len(framesToSend) + 1
      BY <2>2
    <2>4. \A i \in DOMAIN framesToSend : framesToSend[i].host \in servers
      BY DEF ServersInv, HostsAreServers
    <2> QED
      BY <1>1, <2>1, <2>2, <2>3, <2>4
  <1>3. CASE Waited(h)
    <2>1. framesToSend' = With(h) /\ written' = written
      BY <1>3 DEF Waited, Wait
    <2>2. CASE UNCHANGED <<socket, handshake, peer>>
      BY <1>1, <1>2, <2>1, <2>2, NothingWritten DEF ServersInv, HostsAreServers, PeerIsServer
    <2>3. CASE secure /\ socket = "Unconnected" /\ StartHandshake(With(h), h)
      <3>1. handshake \in {"NotStarted", "PeerVerificationFailed"}
        BY <2>3 DEF ConnectionConsistent, TypeOK, HandshakeState
      <3>2. peer' = h \/ handshake' = "PeerVerificationFailed"
        BY <2>3, <3>1 DEF StartHandshake
      <3> QED
        BY <1>1, <1>2, <2>1, <3>2, NothingWritten DEF ServersInv, HostsAreServers, PeerIsServer
    <2> QED
      BY <1>3, <2>2, <2>3 DEF Waited
  <1>4. CASE Wrote(h)
    <2>1. /\ framesToSend' = <<>> /\ written' = written \o Written(With(h), handshake)
          /\ UNCHANGED <<handshake, peer>> /\ (secure => UNCHANGED socket)
      BY <1>4 DEF Wrote, StartToSendRequest, ConnectionConsistent
    <2>2. secure /\ handshake = "Complete" => peer \in servers'
      BY <1>1 DEF ServersInv, PeerIsServer, ConnectionConsistent
    <2>3. ReachNow
      BY <1>1, <1>2, <2>1, <2>2, WrittenReach
    <2>4. DOMAIN framesToSend' = {}
      BY <2>1
    <2> QED
      BY <1>1, <2>1, <2>3, <2>4 DEF ServersInv, HostsAreServers, PeerIsServer
  <1> QED
    BY <1>1, <1>3, <1>4

LEMMA ServersStep ==
    ASSUME ConnectionConsistent, ServersInv, [Next]_vars
    PROVE  ReachNow /\ ServersInv'
  <1>1. ASSUME NEW r \in Requests, HandleSendRequest(r) \/ SendAgain(r)
        PROVE  ReachNow /\ ServersInv'
    <2>1. target[r] \in Hosts /\ SendRequest(target[r])
      BY <1>1 DEF HandleSendRequest, SendAgain, ConnectionConsistent, TypeOK
    <2> QED
      BY <2>1, SendRequestReaches
  <1>2. CASE HandleDisconnect
    <2>1. framesToSend' = <<>> /\ socket' = "Unconnected" /\ UNCHANGED written
      BY <1>2 DEF HandleDisconnect, Disconnect, Close
    <2>2. DOMAIN framesToSend' = {}
      BY <2>1
    <2> QED
      BY <2>1, <2>2, NothingWritten DEF ServersInv, HostsAreServers, PeerIsServer
  <1>3. CASE HandshakeCompleted
    <2>1. /\ secure /\ socket = "Bound" /\ handshake = "InProgress" /\ framesToSend' = <<>>
          /\ written' = written \o Written(framesToSend, "Complete")
          /\ UNCHANGED <<secure, socket, peer, servers>>
      BY <1>3 DEF HandshakeCompleted, OnBound, StartToSendRequest
    <2>2. TypeOK /\ framesToSend \in Seq(Frame)
      BY DEF ConnectionConsistent, TypeOK
    <2>3. peer \in servers' /\ \A i \in DOMAIN framesToSend : framesToSend[i].host \in servers'
      BY <2>1 DEF ServersInv, PeerIsServer, HostsAreServers
    <2>4. ReachNow
      BY <2>1, <2>2, <2>3, WrittenReach
    <2>5. DOMAIN framesToSend' = {}
      BY <2>1
    <2> QED
      BY <2>1, <2>3, <2>4, <2>5 DEF ServersInv, HostsAreServers, PeerIsServer
  <1>4. CASE HandshakeDatagram \/ PeerShutdown
    <2>1. /\ UNCHANGED <<secure, framesToSend, socket, peer, written, servers>>
          /\ secure /\ handshake \in {"NotStarted", "InProgress", "Complete"}
      BY <1>4 DEF HandshakeDatagram, PeerShutdown
    <2> QED
      BY <2>1, NothingWritten DEF ServersInv, HostsAreServers, PeerIsServer
  <1>5. ASSUME UNCHANGED <<secure, framesToSend, socket, handshake, peer, written, servers>>
        PROVE  ReachNow /\ ServersInv'
    BY <1>5, NothingWritten DEF ServersInv, HostsAreServers, PeerIsServer
  <1> QED
    BY <1>1, <1>2, <1>3, <1>4, <1>5 DEF Next, PostRequest, EndRequest, PostDisconnect, vars

(***************************************************************************)
(* Theorems.                                                               *)
(***************************************************************************)

\* The queue, the socket and the handshake stay consistent: nothing waits on a bound
\* connection, whatever order requests, handshake datagrams and disconnect() come in.
THEOREM ConnectionStaysConsistent == Spec => []ConnectionConsistent
  <1>1. Init => ConnectionConsistent
    BY TypeInit DEF Init, ConnectionConsistent
  <1> QED
    BY <1>1, ConsistentStep, PTL DEF Spec

LEMMA QueueInvariant == Spec => [](FramesInOrder /\ FramesAccounted)
  <1>1. Init => FramesInOrder /\ FramesAccounted
    <2> SUFFICES ASSUME Init PROVE FramesInOrder /\ FramesAccounted
      OBVIOUS
    <2>1. DOMAIN framesToSend = {} /\ DOMAIN written = {} /\ cleared = {} /\ 1..calls = {}
      BY DEF Init
    <2> QED
      BY <2>1 DEF FramesInOrder, FramesAccounted, Increasing, NumbersOf
  <1>2. Init => TypeOK
    BY TypeInit
  <1> QED
    BY <1>1, <1>2, TypeStep, InOrderStep, PTL DEF Spec

\* Frames leave the queue of the connection in the order the protocol passed them, once: no
\* frame is written twice, or written after disconnect() dropped it, or overtaken.
THEOREM FramesStayInOrder == Spec => []FramesInOrder
  BY QueueInvariant, PTL

\* No frame is lost between the protocol and the socket: disconnect() alone drops frames.
THEOREM FramesStayAccounted == Spec => []FramesAccounted
  BY QueueInvariant, PTL

LEMMA ServersInvariant == Spec => [](ConnectionConsistent /\ ServersInv)
  <1>1. Init => ServersInv
    <2> SUFFICES ASSUME Init PROVE ServersInv
      OBVIOUS
    <2>1. DOMAIN framesToSend = {}
      BY DEF Init
    <2> QED
      BY <2>1 DEF Init, ServersInv, HostsAreServers, PeerIsServer
  <1>2. ConnectionConsistent /\ ServersInv /\ [Next]_vars => ServersInv'
    BY ServersStep
  <1> QED
    BY <1>1, <1>2, ConnectionStaysConsistent, PTL DEF Spec

\* Whatever the user does, and however handshakes stall, fail or are undone: as long as all
\* frames since the last disconnect() were for one server, none goes to another, neither one
\* that still waits from before nor by way of the peer of a former handshake.
THEOREM FramesKeepTheirServer == Spec => FramesReachTheirHost
  <1>1. ConnectionConsistent /\ ServersInv /\ [Next]_vars =>
           [~secure \/ (\A g, h \in servers' : g = h) =>
               \A frame \in WrittenNow : frame.to \in {frame.host, NoHost}]_vars
    BY ServersStep DEF ReachNow, OneServer
  <1> QED
    BY <1>1, ServersInvariant, PTL DEF Spec, FramesReachTheirHost

(***************************************************************************)
(* The security configuration.                                             *)
(***************************************************************************)

LEMMA SecureStep == SecureNext => [Next]_vars
  BY DEF SecureNext, Connecting, PskRequired, PostConfiguration, HandleConfiguration

\* The security configuration adds no behaviour to the transport: with it, frames are queued,
\* written and dropped as QCoapConnection specifies.
THEOREM SecureIsConnection == SecureSpec => Spec
  <1>1. SecureInit => Init
    BY DEF SecureInit
  <1>2. [SecureNext]_<<vars, secureVars>> => [Next]_vars
    BY SecureStep
  <1> QED
    BY <1>1, <1>2, PTL DEF SecureSpec, Spec

\* What QDtls has is what was handled last, field by field, when it was handled in time, unless
\* QDtls is beyond a handshake.
ConfigurationIsCurrent ==
    inTime /\ handshake # "PeerVerificationFailed" =>
        \A field \in {"chain", "key"} :
            securityConfiguration[field] # Empty =>
                dtlsConfiguration[field] = securityConfiguration[field]

SecureType ==
    /\ dtlsConfiguration \in Configuration /\ presented \in Configuration
    /\ securityConfiguration \in Configuration
    /\ secure = (securityMode # "NoSecurity")

SecureInv == SecureType /\ ConfigurationIsCurrent /\ CredentialsAreCurrent

LEMMA ConnectingKeepsSecurity ==
    ASSUME Connecting
    PROVE  UNCHANGED <<secure, securityMode, securityConfiguration, dtlsConfiguration, inTime>>
  BY DEF Connecting, Next, PostRequest, HandleSendRequest, SendAgain, EndRequest, PostDisconnect,
         HandleDisconnect, HandshakeDatagram, HandshakeCompleted, PeerShutdown, SendRequest,
         Disconnect

\* A peer that could not be verified ends every handshake of the connection.
LEMMA HandshakeSteps ==
    ASSUME TypeOK, Next
    PROVE  /\ handshake = "PeerVerificationFailed" => handshake' = "PeerVerificationFailed"
           /\ handshake' \in {"InProgress", "Complete"} /\ handshake' # handshake =>
                 \/ handshake = "NotStarted" /\ handshake' = "InProgress"
                 \/ handshake = "InProgress"
  <1>1. ASSUME NEW r \in Requests, HandleSendRequest(r) \/ SendAgain(r)
        PROVE  \/ handshake' = handshake
               \/ handshake = "NotStarted" /\ handshake' \in {"NotStarted", "InProgress"}
    <2>1. SendRequest(target[r])
      BY <1>1 DEF HandleSendRequest, SendAgain
    <2>2. Waited(target[r]) \/ Wrote(target[r])
      BY <2>1, SendRequestOutcomes
    <2>3. CASE Wrote(target[r])
      BY <2>3 DEF Wrote
    <2>4. CASE Waited(target[r])
      <3>1. \/ UNCHANGED <<socket, handshake, peer>>
            \/ StartHandshake(With(target[r]), target[r])
        BY <2>4 DEF Waited
      <3>2. CASE StartHandshake(With(target[r]), target[r])
        BY <3>2 DEF StartHandshake
      <3> QED
        BY <3>1, <3>2
    <2> QED
      BY <2>2, <2>3, <2>4
  <1> QED
    BY <1>1
    DEF Next, PostRequest, EndRequest, PostDisconnect, HandleDisconnect, Disconnect, Close,
        HandshakeDatagram, HandshakeCompleted, PeerShutdown

LEMMA CurrentConnecting ==
    ASSUME TypeOK, SecureInv, Connecting
    PROVE  SecureType' /\ ConfigurationIsCurrent' /\ CredentialsAreCurrent'
  <1>1. UNCHANGED <<secure, securityMode, securityConfiguration, dtlsConfiguration, inTime>>
    BY ConnectingKeepsSecurity
  <1>2. /\ handshake = "PeerVerificationFailed" => handshake' = "PeerVerificationFailed"
        /\ handshake' \in {"InProgress", "Complete"} /\ handshake' # handshake =>
              \/ handshake = "NotStarted" /\ handshake' = "InProgress"
              \/ handshake = "InProgress"
    BY HandshakeSteps DEF Connecting
  <1>3. presented' = IF handshake = "NotStarted" /\ handshake' = "InProgress"
                     THEN [dtlsConfiguration EXCEPT !.psk = Empty] ELSE presented
    BY DEF Connecting, Presented
  <1>4. presented' \in Configuration
    BY <1>3 DEF SecureInv, SecureType, Configuration, Field
  <1>5. SecureType' /\ ConfigurationIsCurrent'
    BY <1>1, <1>2, <1>4 DEF SecureInv, SecureType, ConfigurationIsCurrent
  <1>6. CASE handshake = "NotStarted" /\ handshake' = "InProgress"
    <2>1. presented' = [dtlsConfiguration EXCEPT !.psk = Empty]
      BY <1>3, <1>6
    <2>2. /\ presented'.chain = dtlsConfiguration.chain /\ presented'.key = dtlsConfiguration.key
          /\ presented'.psk = Empty
      BY <2>1 DEF SecureInv, SecureType, Configuration
    <2> QED
      BY <1>1, <1>5, <1>6, <2>2 DEF SecureInv, ConfigurationIsCurrent, CredentialsAreCurrent, IsPresented, Secured
  <1>7. CASE ~(handshake = "NotStarted" /\ handshake' = "InProgress")
    <2>1. presented' = presented
      BY <1>3, <1>7
    <2>2. handshake' \in {"InProgress", "Complete"} => handshake \in {"InProgress", "Complete"}
      BY <1>2, <1>7
    <2> QED
      BY <1>1, <1>5, <2>1, <2>2 DEF SecureInv, CredentialsAreCurrent, IsPresented, Secured
  <1> QED
    BY <1>5, <1>6, <1>7

\* A configuration that is handled before the first frame finds no handshake under way.
LEMMA Handled ==
    ASSUME ConnectionConsistent, ServersInv, SecureInv, NEW c \in Configurations,
           HandleConfiguration(c)
    PROVE  SecureInv'
  <1>1. /\ UNCHANGED <<handshake, secure, securityMode, presented>> /\ SetSecurityConfiguration(c)
    BY DEF HandleConfiguration, vars
  <1>2. c \in Configuration
    BY SecurityAssumption
  <1>3. CASE ~secure
    BY <1>1, <1>3
    DEF SetSecurityConfiguration, SecureInv, SecureType, ConfigurationIsCurrent,
        CredentialsAreCurrent, IsPresented, Secured
  <1>4. CASE secure
    <2>1. /\ securityConfiguration' = c /\ inTime' = (servers = {})
          /\ dtlsConfiguration' = IF handshake = "NotStarted" THEN Merged(c, dtlsConfiguration)
                                                              ELSE dtlsConfiguration
      BY <1>1, <1>4 DEF SetSecurityConfiguration
    <2>2. /\ Merged(c, dtlsConfiguration) \in Configuration
          /\ Merged(c, dtlsConfiguration).chain = Set(c.chain, dtlsConfiguration.chain)
          /\ Merged(c, dtlsConfiguration).key = Set(c.key, dtlsConfiguration.key)
      BY <1>2 DEF Merged, Set, SecureInv, SecureType, Configuration
    <2>3. SecureType'
      BY <1>1, <1>2, <2>1, <2>2 DEF SecureInv, SecureType
    <2>4. servers = {} => handshake \in {"NotStarted", "PeerVerificationFailed"}
      BY <1>4 DEF ConnectionConsistent, TypeOK, HandshakeState, ServersInv, PeerIsServer
    <2>5. ConfigurationIsCurrent'
      BY <1>1, <2>1, <2>2, <2>4 DEF ConfigurationIsCurrent, Set
    <2>6. CredentialsAreCurrent'
      BY <1>1, <2>1, <2>4 DEF CredentialsAreCurrent, Secured
    <2> QED
      BY <2>3, <2>5, <2>6 DEF SecureInv
  <1> QED
    BY <1>3, <1>4

LEMMA PskKeeps ==
    ASSUME SecureInv, PskRequired
    PROVE  SecureInv'
  <1>1. /\ handshake = "InProgress" /\ UNCHANGED <<vars, securityMode>>
        /\ UNCHANGED <<securityConfiguration, dtlsConfiguration, inTime>>
        /\ presented' = [presented EXCEPT !.psk = securityConfiguration.psk]
    BY DEF PskRequired
  <1>2. UNCHANGED <<secure, handshake>>
    BY <1>1 DEF vars
  <1>3. /\ presented' \in Configuration /\ presented'.chain = presented.chain
        /\ presented'.key = presented.key /\ presented'.psk = securityConfiguration.psk
    BY <1>1 DEF SecureInv, SecureType, Configuration
  <1> QED
    BY <1>1, <1>2, <1>3
    DEF SecureInv, SecureType, ConfigurationIsCurrent, CredentialsAreCurrent, IsPresented, Secured

LEMMA SecureInvStep ==
    ConnectionConsistent /\ ServersInv /\ SecureInv /\ [SecureNext]_<<vars, secureVars>> => SecureInv'
  <1> SUFFICES ASSUME ConnectionConsistent, ServersInv, SecureInv,
                      [SecureNext]_<<vars, secureVars>>
               PROVE  SecureInv'
    OBVIOUS
  <1>1. CASE Connecting
    BY <1>1, CurrentConnecting DEF ConnectionConsistent, SecureInv
  <1>2. CASE PskRequired
    BY <1>2, PskKeeps
  <1>3. ASSUME NEW c \in Configurations, PostConfiguration(c) PROVE SecureInv'
    BY <1>3
    DEF PostConfiguration, vars, SecureInv, SecureType, ConfigurationIsCurrent,
        CredentialsAreCurrent, IsPresented, Secured
  <1>4. ASSUME NEW c \in Configurations, HandleConfiguration(c) PROVE SecureInv'
    BY <1>4, Handled
  <1>5. CASE UNCHANGED <<vars, secureVars>>
    BY <1>5
    DEF vars, secureVars, SecureInv, SecureType, ConfigurationIsCurrent, CredentialsAreCurrent,
        IsPresented, Secured
  <1> QED
    BY <1>1, <1>2, <1>3, <1>4, <1>5 DEF SecureNext

\* Whatever the user does, in whatever order handshakes fail, complete and are shut down: a
\* configuration that is handled before the first frame that follows disconnect() is the one
\* that every handshake presents, until the next is handled.
THEOREM CredentialsStayCurrent == SecureSpec => []CredentialsAreCurrent
  <1>1. SecureInit => SecureInv
    BY DEF SecureInit, Init, SecureInv, SecureType, ConfigurationIsCurrent,
           CredentialsAreCurrent, IsPresented, Secured, NoConfiguration, Configuration, Field
  <1>2. ConnectionConsistent /\ ServersInv /\ SecureInv /\ [SecureNext]_<<vars, secureVars>>
           => SecureInv'
    BY SecureInvStep
  <1>3. SecureInv => CredentialsAreCurrent
    BY DEF SecureInv
  <1> QED
    BY <1>1, <1>2, <1>3, SecureIsConnection, ServersInvariant, PTL DEF SecureSpec

\* The properties of the queue hold for a secure connection as well.
THEOREM SecureFramesInOrder == SecureSpec => [](FramesInOrder /\ FramesAccounted)
  BY SecureIsConnection, QueueInvariant, PTL
=============================================================================
