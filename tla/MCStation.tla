----------------------------- MODULE MCStation ------------------------------
(* Instances of Station for TLC.                                           *)
EXTENDS Station
=============================================================================
