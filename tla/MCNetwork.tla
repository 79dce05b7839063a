----------------------------- MODULE MCNetwork ------------------------------
(* Network on small instances; the constants are plain numbers. *)
EXTENDS Network
=============================================================================
