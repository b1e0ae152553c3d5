-------------------------- MODULE QCoapConnection --------------------------
(***************************************************************************)
(* The transport of a client: QCoapConnection with its queue of frames,    *)
(* and QCoapQUdpConnection with the UDP socket and, in a secure mode, the  *)
(* DTLS handshake.  All of it lives in the worker thread.                  *)
(*                                                                         *)
(* Frames come from the requests the protocol has in progress: the first   *)
(* transmission from the event the user posted, later ones from timers and *)
(* received frames, at any time until the request is over.  The user also  *)
(* posts disconnect(); with UserDisconnects, always before sending to      *)
(* another server, as its documentation asks in a secure mode.             *)
(*                                                                         *)
(* QDtls is the class of the Qt Network module; its handshake may proceed, *)
(* fail, or end with a peer that could not be verified.                    *)
(***************************************************************************)
EXTENDS Naturals, Sequences

CONSTANTS
    Requests,       \* the requests of the user
    Hosts,          \* the servers
    NoHost,         \* no server: DTLS has no peer yet, or a datagram could not be written
    MaxFrames,      \* bound on the frames the protocol passes to the connection
    UserDisconnects \* whether the user calls disconnect() where its documentation asks for it

VARIABLES
    secure,         \* isSecure()
    state,          \* QCoapConnectionPrivate::state
    framesToSend,   \* QCoapConnectionPrivate::framesToSend, numbered in the order they came
    socket,         \* whether the UDP socket is bound
    handshake,      \* QDtls::handshakeState()
    peer,           \* the peer of QDtls
    written,        \* history: the frames given to writeData, and the server they went to
    cleared,        \* history: the numbers of the frames that disconnect() dropped
    calls,          \* history: the number of frames passed to sendRequest
    servers,        \* history: the servers these were for, since the last disconnect()
    posted,         \* events posted to the worker thread
    target,         \* the server every request is for
    phase,          \* whether a request is not sent yet, posted, running, or over
    session,        \* the server the user sent to last, unless disconnect() was called since
    halted          \* an assertion of the code failed: the program stopped

vars == <<secure, state, framesToSend, socket, handshake, peer, written, cleared, calls, servers,
          posted, target, phase, session, halted>>

Frame == [n : 1..MaxFrames, host : Hosts]
Datagram == [n : 1..MaxFrames, host : Hosts, to : Hosts \cup {NoHost}]
HandshakeState == {"NotStarted", "InProgress", "PeerVerificationFailed", "Complete"}
Event == {<<"disconnect">>} \cup ({"sendRequest"} \X Requests)
Phase == {"new", "posted", "running", "over"}

ASSUME ConnectionHostAssumption == NoHost \notin Hosts
ASSUME ConnectionBoundAssumption == MaxFrames \in Nat /\ UserDisconnects \in BOOLEAN

TypeOK ==
    /\ secure \in BOOLEAN
    /\ state \in {"Unconnected", "Bound"}
    /\ framesToSend \in Seq(Frame)
    /\ socket \in {"Unconnected", "Bound"}
    /\ handshake \in HandshakeState
    /\ peer \in Hosts \cup {NoHost}
    /\ written \in Seq(Datagram)
    /\ cleared \subseteq 1..MaxFrames
    /\ calls \in 0..MaxFrames
    /\ servers \subseteq Hosts
    /\ posted \in Seq(Event)
    /\ target \in [Requests -> Hosts]
    /\ phase \in [Requests -> Phase]
    /\ session \in Hosts \cup {NoHost}
    /\ halted \in BOOLEAN

Init ==
    /\ secure \in BOOLEAN
    /\ state = "Unconnected"
    /\ framesToSend = <<>>
    /\ socket = "Unconnected"
    /\ handshake = "NotStarted"
    /\ peer = NoHost
    /\ written = <<>>
    /\ cleared = {}
    /\ calls = 0
    /\ servers = {}
    /\ posted = <<>>
    /\ target \in [Requests -> Hosts]
    /\ phase = [r \in Requests |-> "new"]
    /\ session = NoHost
    /\ halted = FALSE

(***************************************************************************)
(* Writing frames.                                                         *)
(***************************************************************************)

\* writeToSocket: over DTLS the datagram goes to the peer, whatever the host of the frame,
\* and cannot be written while the connection is not encrypted.
Target(frame, hs) ==
    IF ~secure THEN frame.host ELSE IF hs = "Complete" THEN peer ELSE NoHost

Written(frames, hs) ==
    [i \in DOMAIN frames |->
        [n |-> frames[i].n, host |-> frames[i].host, to |-> Target(frames[i], hs)]]

\* Fault: the frame that came last is written first.
FaultyStartToSendRequest(frames, hs) ==
    /\ framesToSend' = <<>>
    /\ written' = written \o [i \in DOMAIN frames |-> Written(frames, hs)[Len(frames) + 1 - i]]
    /\ halted' = (frames = <<>>)

\* All frames that wait, in their order; the code asserts that there is one.
StartToSendRequest(frames, hs) ==
    /\ framesToSend' = <<>>
    /\ written' = written \o Written(frames, hs)
    /\ halted' = (frames = <<>>)

\* The slot of bound().
OnBound(frames, hs) == state' = "Bound" /\ StartToSendRequest(frames, hs)

\* Fault: a frame that cannot be sent yet takes the place of those that wait.
FaultyWait(frames) ==
    framesToSend' = <<frames[Len(frames)]>> /\ UNCHANGED <<state, written, halted>>

Wait(frames) == framesToSend' = frames /\ UNCHANGED <<state, written, halted>>

(***************************************************************************)
(* Binding the transport.                                                  *)
(***************************************************************************)

\* bindSocket() without security: binding the socket may fail.
BindSocket(frames) ==
    /\ UNCHANGED <<handshake, peer>>
    /\ \/ socket' = "Bound" /\ OnBound(frames, handshake)
       \/ UNCHANGED socket /\ Wait(frames)

\* setPeer() and doHandshake() only work on a handshake that has not started.  The result
\* of socket()->bind() is not looked at, that of doHandshake() is only logged.
StartHandshake(frames, h) ==
    /\ socket' \in {"Unconnected", "Bound"}
    /\ IF handshake = "NotStarted"
       THEN /\ peer' = h
            /\ handshake' \in {"NotStarted"} \cup IF socket' = "Bound" THEN {"InProgress"} ELSE {}
       ELSE UNCHANGED <<peer, handshake>>
    /\ Wait(frames)

Bind(frames, h) ==
    \/ ~secure /\ BindSocket(frames)
    \/ /\ secure /\ handshake = "Complete"
       /\ OnBound(frames, handshake)
       /\ UNCHANGED <<socket, handshake, peer>>
    \/ /\ secure /\ handshake # "Complete" /\ socket = "Unconnected"
       /\ StartHandshake(frames, h)
    \/ /\ secure /\ handshake # "Complete" /\ socket # "Unconnected"
       /\ Wait(frames)
       /\ UNCHANGED <<socket, handshake, peer>>

\* QCoapConnectionPrivate::sendRequest for a frame to host h.
SendRequest(h) ==
    /\ calls < MaxFrames
    /\ calls' = calls + 1
    /\ servers' = servers \cup {h}
    /\ LET frames == Append(framesToSend, [n |-> calls + 1, host |-> h])
       IN IF state = "Unconnected"
          THEN Bind(frames, h)
          ELSE /\ StartToSendRequest(frames, handshake)
               /\ UNCHANGED <<state, socket, handshake, peer>>
    /\ UNCHANGED <<secure, cleared>>

(***************************************************************************)
(* Datagrams of a DTLS peer.                                               *)
(***************************************************************************)

\* handleEncryptedDatagram while the connection is not encrypted: the handshake starts,
\* continues, or fails.
HandshakeDatagram ==
    /\ ~halted /\ secure /\ socket = "Bound"
    /\ \/ handshake = "NotStarted" /\ handshake' = "InProgress"
       \/ handshake = "InProgress" /\ handshake' \in {"NotStarted", "PeerVerificationFailed"}
    /\ UNCHANGED <<secure, state, framesToSend, socket, peer, written, cleared, calls, servers,
                   posted, target, phase, session, halted>>

\* The datagram that completes the handshake.
HandshakeCompleted ==
    /\ ~halted /\ secure /\ socket = "Bound" /\ handshake = "InProgress"
    /\ handshake' = "Complete"
    /\ OnBound(framesToSend, "Complete")
    /\ UNCHANGED <<secure, socket, peer, cleared, calls, servers, posted, target, phase, session>>

\* The peer shuts its side down: QDtls notices when it decrypts the datagram.
PeerShutdown ==
    /\ ~halted /\ secure /\ handshake = "Complete"
    /\ handshake' = "NotStarted"
    /\ UNCHANGED <<secure, state, framesToSend, socket, peer, written, cleared, calls, servers,
                   posted, target, phase, session, halted>>

(***************************************************************************)
(* Closing.                                                                *)
(***************************************************************************)

\* Fault: the handshake that is in progress is not aborted.
FaultyClose ==
    /\ socket' = "Unconnected"
    /\ handshake' = IF handshake = "Complete" THEN "NotStarted" ELSE handshake

\* close(): the handshake is aborted when it is in progress, and a connection shut down.
Close ==
    /\ socket' = "Unconnected"
    /\ handshake' = IF handshake \in {"InProgress", "Complete"} THEN "NotStarted" ELSE handshake

NumbersOf(frames) == {frames[i].n : i \in DOMAIN frames}

\* Fault: the frames that wait stay queued.
FaultyDisconnect ==
    /\ Close
    /\ state' = "Unconnected"
    /\ servers' = {}
    /\ UNCHANGED <<secure, framesToSend, peer, written, cleared, calls, halted>>

Disconnect ==
    /\ Close
    /\ state' = "Unconnected"
    /\ framesToSend' = <<>>
    /\ cleared' = cleared \cup NumbersOf(framesToSend)
    /\ servers' = {}
    /\ UNCHANGED <<secure, peer, written, calls, halted>>

(***************************************************************************)
(* The user and the protocol.                                              *)
(***************************************************************************)

\* A user of a secure mode may send to one server until the next disconnect().
PostRequest(r) ==
    /\ ~halted /\ phase[r] = "new"
    /\ secure /\ UserDisconnects => session \in {NoHost, target[r]}
    /\ session' = target[r]
    /\ phase' = [phase EXCEPT ![r] = "posted"]
    /\ posted' = Append(posted, <<"sendRequest", r>>)
    /\ UNCHANGED <<secure, state, framesToSend, socket, handshake, peer, written, cleared, calls,
                   servers, target, halted>>

\* The user has no reason to disconnect twice without sending in between.
PostDisconnect ==
    /\ ~halted /\ session # NoHost
    /\ session' = NoHost
    /\ posted' = Append(posted, <<"disconnect">>)
    /\ UNCHANGED <<secure, state, framesToSend, socket, handshake, peer, written, cleared, calls,
                   servers, target, phase, halted>>

\* The worker takes its next posted event.
NextEvent(e) ==
    /\ ~halted /\ posted # <<>>
    /\ Head(posted) = e
    /\ posted' = Tail(posted)
    /\ UNCHANGED <<target, session>>

HandleSendRequest(r) ==
    /\ NextEvent(<<"sendRequest", r>>)
    /\ phase' = [phase EXCEPT ![r] = "running"]
    /\ SendRequest(target[r])

HandleDisconnect ==
    /\ NextEvent(<<"disconnect">>)
    /\ Disconnect
    /\ UNCHANGED phase

\* A retransmission, the next block, or an acknowledgement.
SendAgain(r) ==
    /\ ~halted /\ phase[r] = "running"
    /\ SendRequest(target[r])
    /\ UNCHANGED <<posted, target, phase, session>>

\* A response, a timeout or an abort.
EndRequest(r) ==
    /\ ~halted /\ phase[r] = "running"
    /\ phase' = [phase EXCEPT ![r] = "over"]
    /\ UNCHANGED <<secure, state, framesToSend, socket, handshake, peer, written, cleared, calls,
                   servers, posted, target, session, halted>>

Next ==
    \/ \E r \in Requests : PostRequest(r) \/ HandleSendRequest(r) \/ SendAgain(r) \/ EndRequest(r)
    \/ PostDisconnect \/ HandleDisconnect
    \/ HandshakeDatagram \/ HandshakeCompleted \/ PeerShutdown

Spec == Init /\ [][Next]_vars

(***************************************************************************)
(* Properties.                                                             *)
(***************************************************************************)

\* sendRequest, bound() and disconnect(): a frame waits only while the transport is not
\* bound, a bound connection has its socket, and an encrypted one is bound to a peer and
\* is never left half open by close().
ConnectionConsistent ==
    /\ TypeOK
    /\ state = "Bound" => framesToSend = <<>> /\ socket = "Bound"
    /\ handshake = "Complete" => state = "Bound"
    /\ handshake = "InProgress" => socket = "Bound"
    /\ handshake # "NotStarted" \/ (secure /\ socket = "Bound") => peer # NoHost
    /\ ~secure => handshake = "NotStarted"

Increasing(frames) ==
    \A i, j \in DOMAIN frames : i < j => frames[i].n < frames[j].n

\* Frames leave the queue in the order they came, each once: written, or dropped by
\* disconnect(); those that wait are younger than all of these.
FramesInOrder ==
    /\ Increasing(written) /\ Increasing(framesToSend)
    /\ \A i \in DOMAIN framesToSend :
          /\ \A j \in DOMAIN written : written[j].n < framesToSend[i].n
          /\ \A n \in cleared : n < framesToSend[i].n
    /\ NumbersOf(written) \cap cleared = {}

\* Every frame the protocol passed was written, was dropped by disconnect(), or waits.
FramesAccounted ==
    NumbersOf(written) \cup cleared \cup NumbersOf(framesToSend) = 1..calls

\* The datagrams the step writes.
WrittenNow == {written'[i] : i \in DOMAIN written' \ DOMAIN written}

\* writeToSocket() and disconnect(): without security, and as long as all frames since the
\* last disconnect() were for one server, each frame reaches the server it is for, or none:
\* nothing that is left of another server, neither a frame nor a peer, is used.
FramesReachTheirHost ==
    [][~secure \/ (\A g, h \in servers' : g = h) =>
          \A frame \in WrittenNow : frame.to \in {frame.host, NoHost}]_vars

\* What the note on disconnect() promises (qcoapclient.cpp:496): with UserDisconnects, the
\* user may connect to another server after it.
FramesReachTheNextServer ==
    [][\A frame \in WrittenNow : frame.to \in {frame.host, NoHost}]_vars
=============================================================================
