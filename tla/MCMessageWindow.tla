--------------------------- MODULE MCMessageWindow ---------------------------
(* Small instances of MessageWindow: one channel with a faulty network, and two *)
(* channels with a window that is left and entered again.                       *)
EXTENDS MessageWindow
=============================================================================
