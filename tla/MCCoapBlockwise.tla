-------------------------- MODULE MCCoapBlockwise --------------------------
EXTENDS CoapBlockwise

\* 48 bytes are three blocks of 16, or one of 32 and a half.
MCTransfers ==
    [mode : {"plain"}, upload : {0, 1, 3}, length : {1, 3}]
    \cup [mode : {"observe"}, upload : {0}, length : {1, 3}]
    \cup [mode : {"multicast"}, upload : {0}, length : {2}]

MCNotified == [mode : {"observe"}, upload : {0}, length : {2}]

MCSizeArguments == {16, 24, 32}
=============================================================================
