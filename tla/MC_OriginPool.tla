--------------------------- MODULE MC_OriginPool ---------------------------
(* OriginPool with two requests, which share, retry and outlive connections. *)
EXTENDS OriginPool, TLC

Symmetry == Permutations(Reqs)
=============================================================================
