------------------------------- MODULE MCCrum -------------------------------
(* Values for the constants of Crum. *)
EXTENDS Crum

\* What an earlier version may have left: nothing, or rows whose round and time
\* stamp also occur in this run and ones that do not.
MCLeftovers == {{}, {[round |-> 1, ts |-> 2], [round |-> 5, ts |-> 1]}}

LimitAll == [tick |-> 1, stepBack |-> 2, fault |-> 1, start |-> 1]
LimitCalm == [tick |-> 0, stepBack |-> 0, fault |-> 0, start |-> 0]
LimitFault == [tick |-> 0, stepBack |-> 0, fault |-> 1, start |-> 0]
=============================================================================
