------------------------------- MODULE MCPost -------------------------------
(* A small instance of Post: two posts, two users, two texts, two masks.     *)
EXTENDS Post, TLC

CONSTANTS u1, u2, a1, c1, c2

\* Names are only compared for equality, and what is checked is safety.
MCSymmetry == Permutations({u1, u2}) \cup Permutations({c1, c2})

\* The last response is never read by a handler; a property about a step reads it
\* in its next state, which the run evaluates before it applies this view.
MCView == <<sessionVars, postVars>>
=============================================================================
