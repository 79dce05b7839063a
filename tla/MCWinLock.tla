------------------------------ MODULE MCWinLock ------------------------------
(* WinLock with a few processes; Procs is given in the configuration. *)
EXTENDS WinLock

\* Readers do not starve a writer that got as far as PENDING (winLock keeps new
\* readers out with the pending byte).  The processes are alike: what holds of
\* one of them holds of each.
PendingWins == PendingWinsOf(CHOOSE p \in Procs : TRUE)
=============================================================================
