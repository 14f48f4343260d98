------------------------------ MODULE HandOver ------------------------------
(***************************************************************************)
(* The hand-over of a TCP connection, seen from the two byte streams.  Bro *)
(* notes the sequence numbers of both sides when it sees the client's      *)
(* Finished message; the packet that completes the server's handshake is   *)
(* not forwarded but given to bronnect, which sends its payload through a  *)
(* socket forged from these numbers and goes on from there in the server's *)
(* place.  Packets may be lost, delayed and reordered and are sent again   *)
(* by the TCP stack of their sender.                                       *)
(*                                                                         *)
(* Sequence numbers count bytes, from the first that either side sends     *)
(* after the tagged ClientHello.  The n-th byte of the server's stream is  *)
(* n, and bronnect goes on from there: the stream is right where byte and  *)
(* position agree.  Bro gets a copy of every packet that reaches the       *)
(* router.  Detector has Bro with the rest of its behaviour, and with      *)
(* packets missing from the copy; Bronnect has what may fail in bronnect   *)
(* before the socket is there.                                             *)
(***************************************************************************)
EXTENDS Integers, Sequences

CONSTANTS
  ClientEnds,      \* where the records of the client end: key, ccs and fin
  ServerEnds,      \* the same of the server
  ClientSegments,  \* ways the client cuts its stream: pairs <<first, next>>
  ServerSegments   \* the same of the server

\* Either side sends the key exchange with all before it, then its last two
\* messages.  The server waits for the client's Finished before those.
ASSUME EndsAssumption ==
  \A e \in {ClientEnds, ServerEnds} :
    e \in [key : Nat, ccs : Nat, fin : Nat] /\ 0 < e.key /\ e.key < e.ccs /\ e.ccs < e.fin

ClientEnd == ClientEnds.fin
ServerEnd == ServerEnds.fin
Positions == 0..(2 * ServerEnd)

Segments(end) == {p \in (0..end) \X (0..end) : p[1] < p[2]}
ASSUME SegmentsAssumption ==
  ClientSegments \subseteq Segments(ClientEnd) /\ ServerSegments \subseteq Segments(ServerEnd)

VARIABLES
  client,   \* the stream the client has received, of each position a byte
  server,   \* positions of the client's stream that the server has
  up,       \* the server has the connection, no RST has reached it
  net,      \* packets on the way to the client: position and payload
  seen,     \* positions of either stream that Bro has a copy of
  entry,    \* the entry of telex_table: its state, 0 for none, and numbers
  late,     \* network_time() > te$fwd_time
  cmds,     \* commands on the way to the router: TRUE blocks
  blocked,  \* the router drops the flow
  sock      \* the forged socket: next number to send and to get, raw packet

vars == <<client, server, up, net, seen, entry, late, cmds, blocked, sock>>

Nothing == -1
NoSocket == [seq |-> 0, ack |-> 0, raw |-> <<0, 0>>]
Untracked == [state |-> 0, seq |-> 0, ack |-> 0]

\* ssl_conn_attempt has just been through with a tagged ClientHello.
Init ==
  /\ client = [p \in Positions |-> Nothing]
  /\ server = {} /\ up = TRUE /\ net = {}
  /\ seen = [orig |-> {}, resp |-> {}]
  /\ entry = [state |-> 1, seq |-> 0, ack |-> 0]
  /\ late = FALSE /\ cmds = <<TRUE>> /\ blocked = FALSE
  /\ sock = NoSocket

-----------------------------------------------------------------------------
(* Streams.                                                                *)

Covers(seg) == seg[1]..(seg[2] - 1)
ServerPacket(seg) == [at |-> seg[1], data |-> seg]

\* The number after the highest that Bro has seen of a stream.
last_seq(have) ==
  CHOOSE n \in {0} \cup {p + 1 : p \in have} : \A p \in have : p < n

\* Bro's reassembler has delivered all bytes before n.
Delivered(n, have) == 0..(n - 1) \subseteq have

Received(stream) == {p \in Positions : stream[p] # Nothing}
ClientHas(n) == 0..(n - 1) \subseteq Received(client)

-----------------------------------------------------------------------------
(* Bro.  The handlers of one packet's records, on the entry; `s' is what   *)
(* Bro has seen with this packet.                                          *)

\* State 0 is also what is left of an entry that a handler gives up.
ssl_change_cipher_ByOne(e, is_orig) ==
  CASE e.state = 0 -> e
    [] e.state = 1 /\ is_orig -> [e EXCEPT !.state = 2]
    [] e.state = 2 /\ ~is_orig -> [e EXCEPT !.state = 3]
    [] OTHER -> Untracked
ssl_change_cipher(e, is_orig) ==
  CASE e.state = 0 -> e
    [] e.state = 1 /\ is_orig -> [e EXCEPT !.state = 2]
    [] e.state = 2 /\ ~is_orig -> [e EXCEPT !.state = 4]
    [] OTHER -> Untracked

WithNumbers_Swapped(e, s) == [e EXCEPT !.ack = last_seq(s.resp), !.seq = last_seq(s.resp)]
WithNumbers(e, s) == [e EXCEPT !.ack = last_seq(s.orig), !.seq = last_seq(s.resp)]

\* The numbers are noted at the client's Finished.  INIT may fail (`ok').
ssl_handshake_AtServers(e, is_orig, s, ok) ==
  LET f == IF e.state >= 2 THEN WithNumbers(e, s) ELSE e
  IN CASE f.state # 4 -> f
       [] f.state = 4 /\ ok -> [f EXCEPT !.state = 5]
       [] f.state = 4 /\ ~ok -> Untracked
ssl_handshake(e, is_orig, s, ok) ==
  LET f == IF e.state >= 2 /\ is_orig THEN WithNumbers(e, s) ELSE e
  IN CASE f.state # 4 -> f
       [] f.state = 4 /\ ok -> [f EXCEPT !.state = 5]
       [] f.state = 4 /\ ~ok -> Untracked

\* A record goes to its handler when this packet completes it.
ssl_record(e, typ, is_orig, s, ok) ==
  LET end   == IF is_orig THEN ClientEnds[typ] ELSE ServerEnds[typ]
      fresh == /\ ~Delivered(end, IF is_orig THEN seen.orig ELSE seen.resp)
               /\ Delivered(end, IF is_orig THEN s.orig ELSE s.resp)
  IN CASE ~fresh -> e
       [] fresh /\ typ = "ccs" -> ssl_change_cipher(e, is_orig)
       [] fresh /\ typ # "ccs" -> ssl_handshake(e, is_orig, s, ok)

\* The entry after the records that this packet completes, in their order.
BlockInserted(is_orig, s, ok) ==
  LET key == ssl_record(entry, "key", is_orig, s, ok)
      ccs == ssl_record(key, "ccs", is_orig, s, ok)
  IN ssl_record(ccs, "fin", is_orig, s, ok)

\* new_packet_final: whether it forwards the packet, hands it over, or gives
\* the flow up since the packet was caught before the block.
Forwards_FromState2(e) == late /\ e.state \in 2..4
Forwards(e) == late /\ e.state \in 1..4
HandsOver(e) == late /\ e.state = 5
MissedTheBoat(e) == ~late /\ e.state = 5

\* The router sends the packet on or not, and Bro gets its copy.
AtTheStation(is_orig, seg, s, ok) ==
  LET e == BlockInserted(is_orig, s, ok)
  IN /\ seen' = s
     /\ entry' = IF HandsOver(e) \/ MissedTheBoat(e) THEN Untracked ELSE e
     /\ cmds' = IF entry.state # 0 /\ (e.state = 0 \/ MissedTheBoat(e))
                THEN Append(cmds, FALSE) ELSE cmds
     /\ sock' = IF HandsOver(e)
                THEN [seq |-> e.seq, ack |-> e.ack, raw |-> seg] ELSE sock
     /\ UNCHANGED <<late, blocked>>

\* Whether the packet gets past: the router lets it through, or Bro sends it.
Past(is_orig, s, ok) == ~blocked \/ Forwards(BlockInserted(is_orig, s, ok))

\* A packet of the client, sent anew until the server has it.
ClientSends(seg, lost) ==
  /\ ClientHas(ServerEnds.key) /\ ~Delivered(ClientEnd, server)
  /\ LET s == [seen EXCEPT !.orig = @ \cup Covers(seg)]
     IN \E ok \in BOOLEAN :
          /\ AtTheStation(TRUE, seg, s, ok)
          /\ server' = IF Past(TRUE, s, ok) /\ ~lost THEN server \cup Covers(seg) ELSE server
  /\ UNCHANGED <<client, up, net>>

\* A packet of the server, sent anew until the client has it.  With the
\* hand-over goes an RST to the server, which may or may not reach it.
ServerSends(seg) ==
  /\ up /\ ~ClientHas(seg[2])
  /\ seg[2] > ServerEnds.key => Delivered(ClientEnd, server)
  /\ LET s == [seen EXCEPT !.resp = @ \cup Covers(seg)]
     IN \E ok \in BOOLEAN :
          /\ AtTheStation(FALSE, seg, s, ok)
          /\ net' = IF Past(FALSE, s, ok)
                    THEN net \cup {ServerPacket(seg)} ELSE net
          /\ \/ up' = TRUE
             \/ sock' # sock /\ up' = FALSE
  /\ UNCHANGED <<client, server>>

-----------------------------------------------------------------------------
(* bronnect: setup_fake_socket and the send of the raw packet; the forged  *)
(* socket sends again what the client has not acknowledged.                *)

\* The numbers of the entry become snd_nxt and rcv_nxt.
setup_fake_socket(s) == s.seq

RawPacket == [at |-> setup_fake_socket(sock), data |-> sock.raw]
AfterRaw == setup_fake_socket(sock) + (sock.raw[2] - sock.raw[1])
Answer == [at |-> AfterRaw, data |-> <<ServerEnd, ServerEnd + 1>>]

BronnectSendsRaw ==
  /\ sock # NoSocket /\ ~ClientHas(AfterRaw)
  /\ net' = net \cup {RawPacket}
  /\ UNCHANGED <<client, server, up, seen, entry, late, cmds, blocked, sock>>

\* The answer to the client's first request, which the client sends at the
\* end of its stream once its handshake is complete.
BronnectAnswers ==
  /\ sock # NoSocket /\ ClientHas(ServerEnd) /\ sock.ack = ClientEnd
  /\ AfterRaw \in Positions /\ client[AfterRaw] = Nothing
  /\ net' = net \cup {Answer}
  /\ UNCHANGED <<client, server, up, seen, entry, late, cmds, blocked, sock>>

-----------------------------------------------------------------------------
(* The router, the clock, the network.                                     *)

RouterApplies ==
  /\ cmds # <<>>
  /\ blocked' = Head(cmds) /\ cmds' = Tail(cmds)
  /\ UNCHANGED <<client, server, up, net, seen, entry, late, sock>>

TimePasses ==
  /\ ~late /\ late' = TRUE
  /\ UNCHANGED <<client, server, up, net, seen, entry, cmds, blocked, sock>>

\* The client keeps what came first for a position.
Deliver(m) ==
  /\ m \in net
  /\ net' \in {net, net \ {m}}
  /\ client' = [p \in Positions |->
                 IF client[p] = Nothing /\ m.data[1] + (p - m.at) \in Covers(m.data)
                 THEN m.data[1] + (p - m.at) ELSE client[p]]
  /\ UNCHANGED <<server, up, seen, entry, late, cmds, blocked, sock>>

Lose(m) ==
  /\ m \in net /\ net' = net \ {m}
  /\ UNCHANGED <<client, server, up, seen, entry, late, cmds, blocked, sock>>

Next ==
  \/ \E seg \in ClientSegments, lost \in BOOLEAN : ClientSends(seg, lost)
  \/ \E seg \in ServerSegments : ServerSends(seg)
  \/ BronnectSendsRaw \/ BronnectAnswers
  \/ RouterApplies \/ TimePasses
  \/ \E m \in net : Deliver(m) \/ Lose(m)

\* TCP sends again until a packet is through, the network does not lose every
\* copy of a packet, and the flow blocker carries out its commands.
Fairness ==
  /\ \A seg \in ClientSegments : SF_vars(ClientSends(seg, FALSE))
  /\ \A seg \in ServerSegments : WF_vars(ServerSends(seg)) /\ SF_vars(Deliver(ServerPacket(seg)))
  /\ WF_vars(BronnectSendsRaw) /\ SF_vars(Deliver(RawPacket))
  /\ WF_vars(BronnectAnswers) /\ SF_vars(Deliver(Answer))
  /\ WF_vars(RouterApplies) /\ WF_vars(TimePasses)

Spec == Init /\ [][Next]_vars
FairSpec == Spec /\ Fairness

-----------------------------------------------------------------------------
(* Properties.                                                             *)

TypeOK ==
  /\ client \in [Positions -> 0..ServerEnd \cup {Nothing}]
  /\ server \subseteq 0..(ClientEnd - 1) /\ up \in BOOLEAN
  /\ net \subseteq [at : Positions, data : Segments(ServerEnd + 1)]
  /\ seen \in [orig : SUBSET (0..(ClientEnd - 1)), resp : SUBSET (0..(ServerEnd - 1))]
  /\ entry \in [state : {0, 1, 2, 4}, seq : 0..ServerEnd, ack : 0..ClientEnd]
  /\ late \in BOOLEAN /\ blocked \in BOOLEAN /\ cmds \in {<<>>, <<TRUE>>, <<FALSE>>, <<TRUE, FALSE>>}
  /\ sock = NoSocket \/ sock \in [seq : 0..ServerEnd, ack : 0..ClientEnd, raw : Segments(ServerEnd)]

\* The client's TCP stream is what the server sent and then what bronnect
\* sends, whichever of the router, Bro (telex_fwd) and bronnect's forged socket
\* carried a packet, in whatever order and how often.
StreamIntact == \A p \in Received(client) : client[p] = p

\* bronnect's forged socket sends the raw packet at the sequence number at
\* which the server sent it (telex-ssl.bro notes the number "so that bronnect
\* can call a send on the server's finished message").
RawPacketInPlace == sock # NoSocket => sock.seq = sock.raw[1]

\* The client gets the server's last message: from the server when Bro gives
\* the flow up, else from bronnect's TCP stack, which sends it again when it is
\* lost on the way.
FlightArrives == <>ClientHas(ServerEnd)

\* After the hand-over bronnect's answers reach the client: the client's and
\* bronnect's numbers agree in both directions.
HandOverCompletes == (sock # NoSocket) ~> (client[ServerEnd] = ServerEnd)
=============================================================================
