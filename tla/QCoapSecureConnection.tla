----------------------- MODULE QCoapSecureConnection -----------------------
(***************************************************************************)
(* QCoapConnection together with its security configuration: the mode the  *)
(* user constructed the client with, setSecurityConfiguration() and its    *)
(* way to QDtls, and the credentials a handshake presents.                 *)
(*                                                                         *)
(* A configuration reaches the handshake on two ways.  The certificates    *)
(* and the private key are merged into the configuration of QDtls when the *)
(* event is handled, and QDtls takes a configuration only before its       *)
(* handshake starts; the pre-shared key is read from the connection in the *)
(* middle of the handshake.  With UserDisconnects the user calls           *)
(* disconnect() before changing the configuration.                         *)
(*                                                                         *)
(* `chain' stands for the cipher string, the CA certificates and the local *)
(* certificate chain, which are merged alike, and `psk' for the identity   *)
(* and the pre-shared key.  An opaque private key without a handle is null *)
(* (qcoapsecurityconfiguration.cpp:130), an empty field: the warning about *)
(* an invalid key at qcoapqudpconnection.cpp:366 is never reached.         *)
(***************************************************************************)
EXTENDS QCoapConnection

CONSTANTS
    Credentials,    \* values of the fields of a configuration
    Empty,          \* an empty field
    Configurations  \* the configurations the user sets

VARIABLES
    securityMode,           \* QCoapConnectionPrivate::securityMode
    configuring,            \* the posted event of setSecurityConfiguration(), if there is one
    securityConfiguration,  \* QCoapConnectionPrivate::securityConfiguration
    dtlsConfiguration,      \* QDtls::dtlsConfiguration()
    presented,              \* the credentials of the last handshake
    inTime                  \* history: no frame came between disconnect() and the configuration

secureVars == <<securityMode, configuring, securityConfiguration, dtlsConfiguration, presented,
                inTime>>

Field == Credentials \cup {Empty}
Configuration == [chain : Field, key : Field, psk : Field]
NoConfiguration == [chain |-> Empty, key |-> Empty, psk |-> Empty]

ASSUME SecurityAssumption == Empty \notin Credentials /\ Configurations \subseteq Configuration

\* The constructor: RawPublicKey is not supported and falls back to no security.
ConnectionMode(mode) == IF mode = "RawPublicKey" THEN "NoSecurity" ELSE mode

SecureInit ==
    /\ Init
    /\ securityMode \in {ConnectionMode(mode) :
                            mode \in {"NoSecurity", "PreSharedKey", "Certificate", "RawPublicKey"}}
    /\ secure = (securityMode # "NoSecurity")
    /\ configuring = {}
    /\ securityConfiguration = NoConfiguration
    /\ dtlsConfiguration = NoConfiguration
    /\ presented = NoConfiguration
    /\ inTime = TRUE

(***************************************************************************)
(* The configuration.                                                      *)
(***************************************************************************)

Set(value, former) == IF value = Empty THEN former ELSE value

\* Empty fields of a configuration leave what QDtls has.
Merged(c, former) == [former EXCEPT !.chain = Set(c.chain, @), !.key = Set(c.key, @)]

\* QDtls refuses a configuration once its handshake has started; the result is not looked at.
SetSecurityConfiguration(c) ==
    IF secure
    THEN /\ securityConfiguration' = c
         /\ dtlsConfiguration' = IF handshake = "NotStarted" THEN Merged(c, dtlsConfiguration)
                                                             ELSE dtlsConfiguration
         /\ inTime' = (servers = {})
    ELSE UNCHANGED <<securityConfiguration, dtlsConfiguration, inTime>>

\* The event is in one queue with those of `posted': it remembers how many precede it.
PostConfiguration(c) ==
    /\ ~halted /\ (UserDisconnects => session = NoHost)
    /\ configuring = {}     \* a bound: one configuration waits for the worker
    /\ configuring' = {[configuration |-> c, ahead |-> Len(posted)]}
    /\ UNCHANGED <<vars, securityMode, securityConfiguration, dtlsConfiguration, presented, inTime>>

HandleConfiguration(c) ==
    /\ ~halted /\ [configuration |-> c, ahead |-> 0] \in configuring
    /\ configuring' = {}
    /\ SetSecurityConfiguration(c)
    /\ UNCHANGED <<vars, securityMode, presented>>

\* A step of the connection takes the events in their order, and a handshake that starts
\* takes the certificates and the key.
InTurn ==
    IF posted # <<>> /\ posted' = Tail(posted)
    THEN /\ \A e \in configuring : e.ahead > 0
         /\ configuring' = {[e EXCEPT !.ahead = @ - 1] : e \in configuring}
    ELSE UNCHANGED configuring

Presented ==
    presented' = IF handshake = "NotStarted" /\ handshake' = "InProgress"
                 THEN [dtlsConfiguration EXCEPT !.psk = Empty]
                 ELSE presented

\* pskRequired(), a signal of QDtls in the middle of the handshake.
PskRequired ==
    /\ ~halted /\ securityMode = "PreSharedKey" /\ handshake = "InProgress"
    /\ presented' = [presented EXCEPT !.psk = securityConfiguration.psk]
    /\ UNCHANGED <<vars, securityMode, configuring, securityConfiguration, dtlsConfiguration, inTime>>

\* A handshake with pre-shared keys needs one.
Connecting ==
    /\ Next /\ InTurn /\ Presented
    /\ securityMode = "PreSharedKey" /\ handshake = "InProgress" /\ handshake' = "Complete"
          => presented.psk # Empty
    /\ UNCHANGED <<securityMode, securityConfiguration, dtlsConfiguration, inTime>>

SecureNext ==
    \/ Connecting
    \/ PskRequired
    \/ \E c \in Configurations : PostConfiguration(c) \/ HandleConfiguration(c)

SecureSpec == SecureInit /\ [][SecureNext]_<<vars, secureVars>>

(***************************************************************************)
(* Properties.                                                             *)
(***************************************************************************)

\* A field of the configuration, unless it was empty, is the one the handshake presents.
IsPresented(field) ==
    securityConfiguration[field] # Empty => presented[field] = securityConfiguration[field]

Secured == handshake \in {"InProgress", "Complete"}

\* setSecurityConfiguration() and pskRequired(): a configuration that is handled before the
\* first frame that follows disconnect() is the one of every later handshake, and of the
\* connection it leads to, although its fields reach the handshake on two ways, and whatever
\* handshakes fail, are aborted or are undone by the peer before.
CredentialsAreCurrent ==
    Secured /\ inTime =>
        /\ IsPresented("chain") /\ IsPresented("key")
        /\ presented.psk \in {Empty, securityConfiguration.psk}
=============================================================================
