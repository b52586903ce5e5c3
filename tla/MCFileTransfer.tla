--------------------------- MODULE MCFileTransfer ---------------------------
(* Two senders and one reader of a channel.                                  *)
EXTENDS FileTransfer
=============================================================================
