------------------------------ MODULE Brotocol ------------------------------
(***************************************************************************)
(* What Bro promises bronnect on the unix sockets between them (the        *)
(* "brotocol", as telex-ssl.bro calls it).  On every connection comes at   *)
(* most one INIT record, after it at most one RAW_PKT record, and nothing  *)
(* after the end; the end may come early.  The module Bronnect assumes     *)
(* this of its peer, the module Detector is shown to implement it.         *)
(***************************************************************************)
EXTENDS Sequences

CONSTANT Conns   \* connections from Bro to bronnect

VARIABLES
  phase,   \* of each connection: "none", "open" or "closed"
  sent     \* the records Bro has sent on it

Init ==
  /\ phase = [c \in Conns |-> "none"]
  /\ sent = [c \in Conns |-> <<>>]

Connect(c) ==
  /\ phase[c] = "none"
  /\ phase' = [phase EXCEPT ![c] = "open"]
  /\ UNCHANGED sent

SendInit(c) ==
  /\ phase[c] = "open" /\ sent[c] = <<>>
  /\ sent' = [sent EXCEPT ![c] = <<"INIT">>]
  /\ UNCHANGED phase

\* Bro hands over: it sends the packet, and its part is over.
HandOver(c) ==
  /\ phase[c] = "open" /\ sent[c] = <<"INIT">>
  /\ sent' = [sent EXCEPT ![c] = <<"INIT", "RAW_PKT">>]
  /\ phase' = [phase EXCEPT ![c] = "closed"]

Close(c) ==
  /\ phase[c] = "open"
  /\ phase' = [phase EXCEPT ![c] = "closed"]
  /\ UNCHANGED sent

\* The end of the Bro process.
Exit ==
  /\ phase' = [c \in Conns |-> IF phase[c] = "open" THEN "closed" ELSE phase[c]]
  /\ UNCHANGED sent

Next ==
  \/ \E c \in Conns : Connect(c) \/ SendInit(c) \/ HandOver(c) \/ Close(c)
  \/ Exit

Spec == Init /\ [][Next]_<<phase, sent>>

=============================================================================
