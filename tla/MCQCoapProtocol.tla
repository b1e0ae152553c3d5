-------------------------- MODULE MCQCoapProtocol --------------------------
(***************************************************************************)
(* Small instances of QCoapProtocol for TLC.                               *)
(***************************************************************************)
EXTENDS QCoapProtocol

CONSTANTS r1, r2, t1, t2, h1, h2

TwoIds == 1..2
Symmetry == Permutations({r1, r2}) \cup Permutations({t1, t2})
OnlyOne == {1}
NoToken == {EmptyToken}
NoObserve == {FALSE}
MayObserve == BOOLEAN
MayConfirm == BOOLEAN
OnlyConfirm == {TRUE}
AllCodes == {"Content", "Error"}
OnlyContent == {"Content"}
\* No upload: for a unicast request, sending the next block and asking for it are the same step.
NoUpload == {"none", "receive"}
LastOnly == {"none"}
=============================================================================
