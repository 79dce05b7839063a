------------------------------- MODULE MCDisk -------------------------------
(* Disk on small instances; the constants are plain numbers. *)
EXTENDS Disk
=============================================================================
