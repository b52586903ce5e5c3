----------------------------- MODULE MCScreens -----------------------------
(* The client's screens: two users of one client, small boards and lists.    *)
EXTENDS Screens
=============================================================================
