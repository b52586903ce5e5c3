------------------------------ MODULE MCMessage ------------------------------
(* Small instances of Message.                                               *)
EXTENDS Message, TLC

CONSTANTS u1, u2, a1, g1

\* Names are only compared for equality, and what is checked is safety.
MCSymmetry == Permutations(Users)
=============================================================================
