------------------------------ MODULE MCSocial ------------------------------
(* Two users, one of whom may post; a password each, no profiles.            *)
EXTENDS Social, TLC

CONSTANTS u1, u2

MCUserSymmetry == Permutations({u1, u2})

\* The last responses are never read by a handler; a property about a step reads
\* them in its next state, which the run evaluates before it applies this view.
MCView == <<sessionVars, A!accountVars, Posts, lastPostId, postFile, named, halfSaved>>
=============================================================================
