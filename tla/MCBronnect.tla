----------------------------- MODULE MCBronnect -----------------------------
(* Bronnect on a small instance for TLC. *)
EXTENDS Bronnect, TLC

\* Connections are interchangeable, and so are flows.
Symmetry == Permutations(Conns) \cup Permutations(Flows)

=============================================================================
