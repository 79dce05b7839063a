------------------------------ MODULE MCPager ------------------------------
(* Pager with a few processes, pages and transactions. *)
EXTENDS PagerInv, TLC

Symmetry == Permutations(Procs)
=============================================================================
