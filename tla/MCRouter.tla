------------------------------ MODULE MCRouter ------------------------------
(* A root router and a sub-router, as main builds them.                      *)
EXTENDS Router
=============================================================================
