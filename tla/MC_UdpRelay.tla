---------------------------- MODULE MC_UdpRelay ----------------------------
(* UdpRelay with few sessions, whose sids wrap within the bound. *)
EXTENDS UdpRelay

Symmetry == Permutations(Targets)
=============================================================================
