--------------------------- MODULE MCFlowBlocker ---------------------------
(* Instances of FlowBlocker for TLC.                                       *)
EXTENDS FlowBlocker

CONSTANTS client, server, p1, https, alt, c1, c2, s1, s2

\* Two flows that share an element of OURSET: they differ only in the port
\* of the server.
MCFlows ==
  { [sip |-> client, sport |-> p1, dip |-> server, dport |-> https],
    [sip |-> client, sport |-> p1, dip |-> server, dport |-> alt] }

=============================================================================
