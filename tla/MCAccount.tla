------------------------------ MODULE MCAccount ------------------------------
(* A small instance of Account: two users, each with a session, or one of   *)
(* them with two.                                                            *)
EXTENDS Account, TLC

CONSTANTS u1, u2, p1, p2, empty, a1, n1, b1, q1

\* Searching for q1 finds whoever calls himself n1.
MCContains == {<<n1, q1>>}

\* The code only compares names and passwords for equality, and every property
\* checked with a symmetry is a safety property that treats them alike.
MCSymmetry == Permutations({p1, p2}) \cup Permutations({u1, u2})

\* The last response is never read by a handler, nor by the properties of the runs.
MCView == <<sessionVars, accountVars>>
=============================================================================
