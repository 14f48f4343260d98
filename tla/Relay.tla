------------------------------- MODULE Relay -------------------------------
(***************************************************************************)
(* What a tunnel of telex-client promises the two programs it stands       *)
(* between, the browser (local) and the server (remote).  The bytes of     *)
(* either reach the other in order, none of them twice.  A tunnel ends     *)
(* because something failed, or because one side has ended its stream and  *)
(* all of it has been handed on.  The module Tunnel implements this.       *)
(***************************************************************************)
EXTENDS Naturals, Sequences

Sides      == {"local", "remote"}
Partner(s) == IF s = "local" THEN "remote" ELSE "local"

VARIABLES
  sent,  \* the bytes a side has sent so far, numbered from 1
  fin,   \* the side has ended its stream
  got,   \* the bytes handed on to a side
  end    \* how the tunnel ended: "no", "clean" or "failed"

Init ==
  /\ sent = [s \in Sides |-> <<>>]
  /\ fin = [s \in Sides |-> FALSE]
  /\ got = [s \in Sides |-> <<>>]
  /\ end = "no"

Send(s) ==
  /\ ~fin[s]
  /\ sent' = [sent EXCEPT ![s] = Append(@, Len(@) + 1)]
  /\ UNCHANGED <<fin, got, end>>

EndStream(s) ==
  /\ ~fin[s]
  /\ fin' = [fin EXCEPT ![s] = TRUE]
  /\ UNCHANGED <<sent, got, end>>

HandOn(s) ==
  /\ end = "no"
  /\ \E n \in Len(got[Partner(s)])..Len(sent[s]) :
       got' = [got EXCEPT ![Partner(s)] = SubSeq(sent[s], 1, n)]
  /\ UNCHANGED <<sent, fin, end>>

\* One side has ended its stream, and the last of it is handed on.
Close ==
  /\ end = "no"
  /\ \E s \in Sides : fin[s] /\ got' = [got EXCEPT ![Partner(s)] = sent[s]]
  /\ end' = "clean"
  /\ UNCHANGED <<sent, fin>>

Fail ==
  /\ end = "no"
  /\ end' = "failed"
  /\ UNCHANGED <<sent, fin, got>>

Next == (\E s \in Sides : Send(s) \/ EndStream(s) \/ HandOn(s)) \/ Close \/ Fail

Spec == Init /\ [][Next]_<<sent, fin, got, end>>

=============================================================================
