----------------------------- MODULE MCDetector -----------------------------
(* Instances of Detector for TLC.                                          *)
EXTENDS Detector

CONSTANTS f1, c1, c2

=============================================================================
