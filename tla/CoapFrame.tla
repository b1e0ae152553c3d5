------------------------------ MODULE CoapFrame ------------------------------
(***************************************************************************)
(* Messages and the bytes that carry them: QCoapInternalRequest writes     *)
(* frames (toQByteArray), QCoapInternalReply reads them (createFromFrame). *)
(* The other end of the wire, which writes and reads by the book (RFC 7252 *)
(* section 3), is ServerFrame and Reads.                                   *)
(***************************************************************************)
EXTENDS CoapOption

Types == [Confirmable |-> 0, NonConfirmable |-> 1, Acknowledgment |-> 2, Reset |-> 3]

Messages == [version : Byte, type : 0..3, code : Byte, messageId : UInt16,
             token : Seq(Byte), options : Seq(CoapOptions), payload : Seq(Byte)]

\* initEmptyMessage: an ACK or a reset carries the id of the message it answers and nothing else.
EmptyMessage(type, messageId) ==
    [version |-> 1, type |-> Types[type], code |-> 0, messageId |-> messageId,
     token |-> <<>>, options |-> <<>>, payload |-> <<>>]

(***************************************************************************)
(* QCoapInternalRequest::toQByteArray.                                     *)
(***************************************************************************)

\* A difference of option numbers, or a length, in four bits; what does not fit follows in a byte.
Nibble(n) == IF n > 268 THEN 14 ELSE IF n > 12 THEN 13 ELSE n

\* Fault: 13 goes without its byte.
FaultyExtension(n) == IF n > 268 THEN <<(n - 269) % 256>> ELSE IF n > 13 THEN <<n - 13>> ELSE <<>>

Extension(n) == IF n > 268 THEN <<(n - 269) % 256>> ELSE IF n > 12 THEN <<n - 13>> ELSE <<>>

\* The difference is a quint16.
EncodedOption(previous, option) ==
    LET delta == (option.name - previous) % 65536
        length == Len(option.value)
    IN <<16 * Nibble(delta) + Nibble(length)>> \o Extension(delta) \o Extension(length) \o option.value

EncodedOptions(options) ==
    FlattenSeq([i \in DOMAIN options |->
                    EncodedOption(IF i = 1 THEN 0 ELSE options[i - 1].name, options[i])])

\* The first byte keeps two bits of the version.
ToQByteArray(m) ==
    <<64 * (m.version % 4) + 16 * m.type + Len(m.token), m.code, m.messageId \div 256, m.messageId % 256>>
    \o m.token \o EncodedOptions(m.options)
    \o (IF m.payload = <<>> THEN <<>> ELSE <<255>> \o m.payload)

(***************************************************************************)
(* QCoapInternalReply::createFromFrame.                                    *)
(***************************************************************************)

Extended(nibble, byte) == CASE nibble = 13 -> byte + 13 [] nibble = 14 -> byte + 269 [] OTHER -> nibble

\* The option that starts at byte i, and the place after it.
OptionAt(bytes, i, previous) ==
    LET delta == bytes[i] \div 16
        length == bytes[i] % 16
        afterDelta == IF delta \in {13, 14} THEN i + 1 ELSE i
        afterLength == IF length \in {13, 14} THEN afterDelta + 1 ELSE afterDelta
        size == Extended(length, bytes[afterLength])
    IN [option |-> [name |-> previous + Extended(delta, bytes[afterDelta]),
                    value |-> SubSeq(bytes, afterLength + 1, afterLength + size)],
        next |-> afterLength + size + 1]

\* The loop over the options from byte "start" on: at the end of the frame or at the mark of
\* the payload it is over, and it reads no more options than there are bytes.
DecodedFrom(bytes, start) ==
    LET Read[k \in 0..Len(bytes)] ==
          IF k = 0 THEN [at |-> start, previous |-> 0, options |-> <<>>]
          ELSE LET s == Read[k - 1] IN
               IF s.at > Len(bytes) \/ bytes[s.at] = 255 THEN s
               ELSE LET read == OptionAt(bytes, s.at, s.previous)
                    IN [at |-> read.next, previous |-> read.option.name,
                        options |-> AddOption(s.options, read.option)]
        end == Read[Len(bytes)]
    IN [options |-> end.options, payload |-> SubSeq(bytes, end.at + 1, Len(bytes))]

\* Fault: the two bytes of the message id are swapped.
FaultyCreateFromFrame(bytes) ==
    LET tokenLength == bytes[1] % 16
        body == DecodedFrom(bytes, 5 + tokenLength)
    IN [version |-> bytes[1] \div 64, type |-> (bytes[1] \div 16) % 4, code |-> bytes[2],
        messageId |-> 256 * bytes[4] + bytes[3], token |-> SubSeq(bytes, 5, 4 + tokenLength),
        options |-> body.options, payload |-> body.payload]

CreateFromFrame(bytes) ==
    LET tokenLength == bytes[1] % 16
        body == DecodedFrom(bytes, 5 + tokenLength)
    IN [version |-> bytes[1] \div 64, type |-> (bytes[1] \div 16) % 4, code |-> bytes[2],
        messageId |-> 256 * bytes[3] + bytes[4], token |-> SubSeq(bytes, 5, 4 + tokenLength),
        options |-> body.options, payload |-> body.payload]

(***************************************************************************)
(* The other end.                                                          *)
(***************************************************************************)

\* The bytes of a number of option or a length of RFC 7252, section 3.1.
ServerExtension(n) ==
    IF n < 13 THEN <<>> ELSE IF n < 269 THEN <<n - 13>> ELSE <<(n - 269) \div 256, (n - 269) % 256>>

ServerFrame(m) ==
    LET Delta(i) == m.options[i].name - (IF i = 1 THEN 0 ELSE m.options[i - 1].name)
        Part(i) == <<16 * Nibble(Delta(i)) + Nibble(Len(m.options[i].value))>>
                   \o ServerExtension(Delta(i)) \o ServerExtension(Len(m.options[i].value))
                   \o m.options[i].value
    IN <<64 * m.version + 16 * m.type + Len(m.token), m.code, m.messageId \div 256, m.messageId % 256>>
       \o m.token \o FlattenSeq([i \in DOMAIN m.options |-> Part(i)])
       \o (IF m.payload = <<>> THEN <<>> ELSE <<255>> \o m.payload)

\* A frame has one reading: the message whose frame it is.
Reads(bytes, m) == ServerFrame(m) = bytes
=============================================================================
