---------------------------- MODULE MCTransport ----------------------------
(* Small instance of Transport: three calls, so that an answer can be late by  *)
(* more than one call.                                                         *)
EXTENDS Transport
=============================================================================
