---------------------- MODULE MCQCoapSecureConnection ----------------------
(***************************************************************************)
(* Small instances of QCoapSecureConnection for TLC.                       *)
(***************************************************************************)
EXTENDS QCoapSecureConnection, TLC

CONSTANTS q1, q2, h1, h2

\* A complete configuration, and one without a certificate chain.
SomeConfigurations ==
    {[chain |-> "a", key |-> "a", psk |-> "a"], [chain |-> "", key |-> "b", psk |-> "b"]}

Symmetry == Permutations({q1, q2}) \cup Permutations({h1, h2})
=============================================================================
