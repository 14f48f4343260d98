------------------------------ MODULE MCStats -------------------------------
(* Instances of Stats for TLC.                                             *)
EXTENDS Stats, TLC
MCSymmetry == Permutations(Conns) \cup Permutations(Ips)
=============================================================================
