----------------------------- MODULE MCLifecycle -----------------------------
(* Small instance of Lifecycle. A request number is taken in order, so there is *)
(* no symmetry but that of the two signals, which a liveness run cannot use.    *)
EXTENDS Lifecycle
=============================================================================
