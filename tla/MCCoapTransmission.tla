------------------------- MODULE MCCoapTransmission -------------------------
(***************************************************************************)
(* Small instances of CoapTransmission for TLC: durations are a few ticks, *)
(* and the range of uint is such that the greatest retransmission count    *)
(* takes MAX_TRANSMIT_WAIT out of the range of an int.                     *)
(***************************************************************************)
EXTENDS CoapTransmission

MCDefaults == [ackTimeout |-> 4, ackRandomFactor |-> 3, maximumRetransmitCount |-> 1,
               maximumServerResponseDelay |-> 5, minimumTokenSize |-> 4]
=============================================================================
