--------------------------- MODULE MCForgedSocket ---------------------------
(* Instances of ForgedSocket for TLC.                                      *)
EXTENDS ForgedSocket
=============================================================================
