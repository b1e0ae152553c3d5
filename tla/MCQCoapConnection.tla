------------------------- MODULE MCQCoapConnection -------------------------
(***************************************************************************)
(* Small instances of QCoapConnection for TLC.                             *)
(***************************************************************************)
EXTENDS QCoapConnection, TLC

CONSTANTS q1, q2, q3, h1, h2

Symmetry == Permutations({q1, q2, q3}) \cup Permutations({h1, h2})
=============================================================================
