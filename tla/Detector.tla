------------------------------ MODULE Detector ------------------------------
(***************************************************************************)
(* The detector: Bro with telex-ssl.bro and the telex functions of         *)
(* bro.bif.  It watches a copy of the packets of TLS connections, blocks a *)
(* flow at the router when its ClientHello is tagged, forwards the packets *)
(* the router now drops, and once both sides have finished the handshake   *)
(* hands the connection over to bronnect.                                  *)
(*                                                                         *)
(* Bro handles one packet at a time.  A packet raises the events of the    *)
(* TLS records in it and at last new_packet_final; `queue' holds those     *)
(* that are not handled yet.  The two directions of a connection are       *)
(* reassembled on their own, and the copy may lack packets: Bro then skips *)
(* the records in them and goes on with the next.                          *)
(***************************************************************************)
EXTENDS Naturals, Sequences

CONSTANTS
  Flows,         \* conn_ids: the two ends of a TCP connection
  Conns,         \* sockets from Bro to bronnect, each used once
  None,          \* no entry, no socket
  MaxPackets,    \* bound: packets without a new record, per connection
  MaxSessions    \* bound: TCP connections with one conn_id, one after another

ASSUME NoneAssumption == None \notin Conns \cup Flows
ASSUME BoundsAssumption == MaxPackets \in Nat /\ MaxSessions \in Nat

\* The records a TLS client and server send, in order.
ClientRecords == <<"hello", "cke", "ccs", "fin", "app">>
ServerRecords == <<"hello", "ske", "ccs", "fin", "app">>

VARIABLES
  bro,      \* the Bro process: "up", "exited", or "crashed" on a null pointer
  table,    \* telex_table
  queue,    \* events of the packet at hand
  phase,    \* sockets to bronnect, as Bro sees them: "none", "open", "closed",
            \* or "leaked": open, never connected and named by nobody
  sent,     \* records sent on each socket
  flowOf,   \* the flow a socket is for
  gone,     \* sockets whose bronnect end is closed
  blocked,  \* flows blocked at the router
  peers,    \* of each flow: what its two ends have sent, and its copies
  gap,      \* history: flows of which records have passed that their entry lacks
  orphans   \* history: blocked flows that ssl_conn_alert, or a bronnect that
            \* could not reach its service, has given up

detector == <<bro, table, queue>>
pipes    == <<phase, sent, flowOf>>
vars     == <<bro, table, queue, phase, sent, flowOf, gone, blocked, peers, gap, orphans>>

\* telex_info.  `past' says that packets caught after the block was in place
\* (network_time() > fwd_time) have been reached; p, srand, civ and siv say
\* whether those fields of dh are set.
Entry ==
  [state : 1..7, do_fwd : BOOLEAN, past : BOOLEAN, sock : Conns \cup {None},
   p : BOOLEAN, srand : BOOLEAN, civ : BOOLEAN, siv : BOOLEAN]

ASSUME EntryAssumption == None \notin Entry

Tracked(f) == table[f] # None

Init ==
  /\ bro = "up"
  /\ table = [f \in Flows |-> None]
  /\ queue = <<>>
  /\ phase = [c \in Conns |-> "none"]
  /\ sent = [c \in Conns |-> <<>>]
  /\ flowOf = [c \in Conns |-> None]
  /\ gone = {}
  /\ blocked = {}
  /\ peers = [f \in Flows |-> [session |-> 1, client |-> 0, server |-> 0, extra |-> 0, skip |-> FALSE]]
  /\ gap = {}
  /\ orphans = {}

-----------------------------------------------------------------------------
(* Functions of bro.bif that the script calls.                             *)

\* telex_mod_block, when the flow blocker takes the command.
telex_mod_block(f, block) ==
  /\ blocked' = IF block THEN blocked \cup {f} ELSE blocked \ {f}
  /\ orphans' = orphans \ {f}

\* cleanup_telex_obj: the socket, if there is one, is closed.
cleanup_telex_obj(te) ==
  /\ phase' = IF te.sock = None THEN phase ELSE [phase EXCEPT ![te.sock] = "closed"]
  /\ UNCHANGED flowOf

\* telex_init_bronnect: connect a fresh socket.  When that fails the field
\* stays at -1 and the socket is not closed.
telex_init_bronnect(f, te) ==
  \E c \in Conns :
    /\ phase[c] = "none"
    /\ \/ /\ phase' = [phase EXCEPT ![c] = "open"]
          /\ flowOf' = [flowOf EXCEPT ![c] = f]
          /\ table' = [table EXCEPT ![f] = [te EXCEPT !.sock = c]]
       \/ /\ phase' = [phase EXCEPT ![c] = "leaked"]
          /\ table' = [table EXCEPT ![f] = te]
          /\ UNCHANGED flowOf

\* telex_send_init_data: what it needs of dh.  p is looked at before it is
\* used; the others are used as they are.
Dereferences(te) == te.sock # None /\ te.p /\ ~(te.srand /\ te.civ /\ te.siv)

\* It can succeed: there is a socket with bronnect at the other end, and
\* every field.  (It may fail all the same, when a field is too long.)
CanSendInit(te) ==
  te.sock # None /\ te.sock \notin gone /\ te.p /\ te.srand /\ te.civ /\ te.siv

-----------------------------------------------------------------------------
(* Functions of the script.                                                *)

\* do_expire, cleanup_and_unblock_connection: unblock, close, forget.
do_expire_NotInState5(f) ==
  /\ Tracked(f) => table[f].state # 5
  /\ telex_mod_block(f, FALSE)
  /\ cleanup_telex_obj(table[f])
  /\ table' = [table EXCEPT ![f] = None]
  /\ UNCHANGED <<bro, sent>>
do_expire_NoUnblock(f) ==
  /\ cleanup_telex_obj(table[f])
  /\ table' = [table EXCEPT ![f] = None]
  /\ UNCHANGED <<bro, sent, blocked, orphans>>
do_expire(f) ==
  /\ telex_mod_block(f, FALSE)
  /\ cleanup_telex_obj(table[f])
  /\ table' = [table EXCEPT ![f] = None]
  /\ UNCHANGED <<bro, sent>>

Store(f, te) ==
  /\ table' = [table EXCEPT ![f] = te]
  /\ UNCHANGED <<bro, phase, sent, flowOf, blocked, orphans>>

Ignore == UNCHANGED <<bro, table, phase, sent, flowOf, blocked, orphans>>

-----------------------------------------------------------------------------
(* Event handlers.  f is the connection; orig says that its client sent    *)
(* the record.                                                             *)

\* ssl_conn_attempt, with a ClientHello that is tagged and fresh or is not.
ssl_conn_attempt_Again(f, tagged) ==
  /\ IF ~tagged THEN Ignore
     ELSE /\ telex_mod_block(f, TRUE)
          /\ telex_init_bronnect(f, [state |-> 1, do_fwd |-> TRUE, past |-> FALSE, sock |-> None,
                                     p |-> FALSE, srand |-> FALSE, civ |-> FALSE, siv |-> FALSE])
          /\ UNCHANGED <<bro, sent>>
  /\ peers' = [peers EXCEPT ![f].skip = @ \/ (~tagged /\ ~Tracked(f))]
ssl_conn_attempt(f, tagged) ==
  /\ IF Tracked(f) \/ ~tagged THEN Ignore
     ELSE /\ telex_mod_block(f, TRUE)
          /\ telex_init_bronnect(f, [state |-> 1, do_fwd |-> TRUE, past |-> FALSE, sock |-> None,
                                     p |-> FALSE, srand |-> FALSE, civ |-> FALSE, siv |-> FALSE])
          /\ UNCHANGED <<bro, sent>>
  /\ peers' = [peers EXCEPT ![f].skip = @ \/ (~tagged /\ ~Tracked(f))]

ssl_conn_server_reply(f) ==
  IF Tracked(f) THEN Store(f, [table[f] EXCEPT !.srand = TRUE]) ELSE Ignore

ssl_server_key_exchange(f) ==
  IF Tracked(f) THEN Store(f, [table[f] EXCEPT !.p = TRUE]) ELSE Ignore

\* ssl_conn_alert: an alert of the client ends the tracking, in any state,
\* and leaves the flow blocked.
ssl_conn_alert(f, orig) ==
  IF ~orig \/ ~Tracked(f) THEN Ignore
  ELSE /\ cleanup_telex_obj(table[f])
       /\ table' = [table EXCEPT ![f] = None]
       /\ orphans' = IF f \in blocked THEN orphans \cup {f} ELSE orphans
       /\ UNCHANGED <<bro, sent, blocked>>

ssl_app_data(f) ==
  IF Tracked(f) /\ table[f].sock # None THEN do_expire(f) ELSE Ignore

ssl_change_cipher(f, orig) ==
  CASE ~Tracked(f) -> Ignore
    [] Tracked(f) /\ table[f].state = 1 /\ orig -> Store(f, [table[f] EXCEPT !.state = 2])
    [] Tracked(f) /\ table[f].state = 2 /\ ~orig -> Store(f, [table[f] EXCEPT !.state = 4])
    [] OTHER -> do_expire(f)

\* ssl_handshake: the entry with the IV of the side whose message this is.
WithIV_BothAtThree(te, orig) ==
  CASE te.state >= 3 /\ orig  -> [te EXCEPT !.civ = TRUE]
    [] te.state >= 3 /\ ~orig -> [te EXCEPT !.siv = TRUE]
    [] OTHER -> te
WithIV(te, orig) ==
  CASE te.state >= 2 /\ orig  -> [te EXCEPT !.civ = TRUE]
    [] te.state >= 3 /\ ~orig -> [te EXCEPT !.siv = TRUE]
    [] OTHER -> te

\* The process dies: its memory and its sockets go, the router's set stays.
Dies(how) ==
  /\ bro' = how
  /\ table' = [f \in Flows |-> None]
  /\ phase' = [c \in Conns |-> IF phase[c] = "open" THEN "closed" ELSE phase[c]]
  /\ UNCHANGED <<sent, flowOf, blocked, orphans>>

ssl_handshake(f, orig) ==
  IF ~Tracked(f) THEN Ignore
  ELSE LET te == WithIV(table[f], orig) IN
    \/ te.state # 4 /\ Store(f, te)
    \/ te.state = 4 /\ Dereferences(te) /\ Dies("crashed")
    \/ te.state = 4 /\ ~Dereferences(te) /\ do_expire(f)
    \/ /\ te.state = 4 /\ CanSendInit(te)
       /\ sent' = [sent EXCEPT ![te.sock] = Append(@, "INIT")]
       /\ table' = [table EXCEPT ![f] = [te EXCEPT !.state = 5]]
       /\ UNCHANGED <<bro, phase, flowOf, blocked, orphans>>

\* new_packet_final.  A packet caught after the block never reached its
\* receiver: forward it or, once INIT is sent, let bronnect send it; the
\* result of that is not looked at.  A packet caught before the block did.
new_packet_final_EveryPacket(f, past) ==
  IF ~Tracked(f) THEN Ignore
  ELSE LET te == [table[f] EXCEPT !.past = past] IN
    CASE past /\ te.state \in {4, 5} /\ te.sock # None ->
           /\ sent' = IF te.sock \in gone THEN sent
                      ELSE [sent EXCEPT ![te.sock] = Append(@, "RAW_PKT")]
           /\ cleanup_telex_obj(te)
           /\ table' = [table EXCEPT ![f] = None]
           /\ UNCHANGED <<bro, blocked, orphans>>
      [] ~past /\ te.state = 5 -> do_expire(f)
      [] OTHER -> Store(f, te)
new_packet_final(f, past) ==
  IF ~Tracked(f) THEN Ignore
  ELSE LET te == [table[f] EXCEPT !.past = past] IN
    CASE past /\ te.state = 5 ->
           /\ sent' = IF te.sock \in gone THEN sent
                      ELSE [sent EXCEPT ![te.sock] = Append(@, "RAW_PKT")]
           /\ cleanup_telex_obj(te)
           /\ table' = [table EXCEPT ![f] = None]
           /\ UNCHANGED <<bro, blocked, orphans>>
      [] ~past /\ te.state = 5 -> do_expire(f)
      [] OTHER -> Store(f, te)

connection_state_remove(f) ==
  IF Tracked(f) THEN do_expire(f) ELSE Ignore

-----------------------------------------------------------------------------
(* Bro's event loop.                                                       *)

\* The next event of the packet at hand is handled.
Handle ==
  /\ bro = "up" /\ queue # <<>>
  /\ LET e == Head(queue) IN
       \/ /\ e.ev = "ssl_conn_attempt"
          /\ \E tagged \in BOOLEAN : ssl_conn_attempt(e.flow, tagged)
       \/ /\ \/ e.ev = "ssl_conn_server_reply" /\ ssl_conn_server_reply(e.flow)
             \/ e.ev = "ssl_server_key_exchange" /\ ssl_server_key_exchange(e.flow)
             \/ e.ev = "ssl_conn_alert" /\ ssl_conn_alert(e.flow, e.is)
             \/ e.ev = "handshake" /\ ssl_handshake(e.flow, e.is)
             \/ e.ev = "change_cipher" /\ ssl_change_cipher(e.flow, e.is)
             \/ e.ev = "app_data" /\ ssl_app_data(e.flow)
             \/ e.ev = "new_packet_final" /\ new_packet_final(e.flow, e.is)
             \/ e.ev = "connection_state_remove" /\ connection_state_remove(e.flow)
          /\ UNCHANGED peers
  /\ queue' = IF bro' = "up" THEN Tail(queue) ELSE <<>>
  /\ UNCHANGED <<gone, gap>>

\* The expiry of an entry of telex_table: no packet for 23 seconds.
Expire(f) ==
  /\ bro = "up" /\ queue = <<>> /\ Tracked(f)
  /\ do_expire(f)
  /\ UNCHANGED <<queue, gone, peers, gap>>

\* exit(1), when telex_mod_block cannot reach the flow blocker, or a signal.
Exit ==
  /\ bro = "up"
  /\ Dies("exited")
  /\ queue' = <<>>
  /\ UNCHANGED <<gone, peers, gap>>

-----------------------------------------------------------------------------
(* The packets Bro gets to see.                                            *)

Event(ev, f, is) == [ev |-> ev, flow |-> f, is |-> is]

\* ssl_record comes first, then what the record's content raises.
RecordEvents(f, orig, r) ==
  CASE r = "app" -> <<Event("app_data", f, orig)>>
    [] r = "ccs" -> <<Event("change_cipher", f, orig)>>
    [] r = "ske" -> <<Event("handshake", f, orig), Event("ssl_server_key_exchange", f, orig)>>
    [] r = "hello" -> <<Event("handshake", f, orig),
                        Event(IF orig THEN "ssl_conn_attempt" ELSE "ssl_conn_server_reply", f, orig)>>
    [] OTHER -> <<Event("handshake", f, orig)>>

\* The events of n = 1 or 2 records of one side in a packet, from the i-th on.
RecordsEvents(f, orig, records, i, n) ==
  RecordEvents(f, orig, records[i])
    \o (IF n = 2 THEN RecordEvents(f, orig, records[i + 1]) ELSE <<>>)

\* Whether packets are caught after the block: first no, from some point yes.
Caught(f) ==
  CASE ~Tracked(f) -> {FALSE}
    [] Tracked(f) /\ table[f].past -> {TRUE}
    [] OTHER -> BOOLEAN

\* A packet of f raises these events, and new_packet_final.
Arrives(f, events) ==
  /\ bro = "up" /\ queue = <<>>
  /\ \E past \in Caught(f) :
       queue' = IF peers[f].skip THEN <<>> ELSE Append(events, Event("new_packet_final", f, past))
  /\ UNCHANGED <<bro, table, pipes, gone, blocked, orphans>>

\* How far a side may be: it answers what the other side has sent.
ClientMay(q) == CASE q.server < 2 -> 1 [] q.server \in 2..3 -> 4 [] OTHER -> 5
ServerMay(q) == CASE q.client = 0 -> 0 [] q.client \in 1..3 -> 2 [] q.client = 4 -> 4 [] OTHER -> 5

\* The client or the server sends its next records, up to two, in a packet.
ClientPacket(f) ==
  \E n \in 1..2 :
    /\ peers[f].session <= MaxSessions
    /\ peers[f].client + n <= ClientMay(peers[f])
    /\ Arrives(f, RecordsEvents(f, TRUE, ClientRecords, peers[f].client + 1, n))
    /\ peers' = [peers EXCEPT ![f].client = @ + n]
    /\ UNCHANGED gap

ServerPacket(f) ==
  \E n \in 1..2 :
    /\ peers[f].server + n <= ServerMay(peers[f])
    /\ Arrives(f, RecordsEvents(f, FALSE, ServerRecords, peers[f].server + 1, n))
    /\ peers' = [peers EXCEPT ![f].server = @ + n]
    /\ UNCHANGED gap

\* A packet with the next record of one side is missing from the copy.
Missed(f) ==
  /\ bro = "up" /\ queue = <<>>
  /\ \/ /\ peers[f].client \in 1..ClientMay(peers[f]) - 1
        /\ peers' = [peers EXCEPT ![f].client = @ + 1]
     \/ /\ peers[f].server < ServerMay(peers[f])
        /\ peers' = [peers EXCEPT ![f].server = @ + 1]
  /\ gap' = gap \cup {f}
  /\ UNCHANGED <<bro, table, queue, pipes, gone, blocked, orphans>>

\* A packet with no new record, with an alert of either side, or with another
\* ClientHello.
OtherPacket(f) ==
  /\ peers[f].client > 0 /\ peers[f].extra < MaxPackets
  /\ \/ Arrives(f, <<>>) /\ UNCHANGED gap
     \/ \E orig \in BOOLEAN : Arrives(f, <<Event("ssl_conn_alert", f, orig)>>) /\ UNCHANGED gap
     \/ /\ peers[f].client = 1
        /\ Arrives(f, RecordEvents(f, TRUE, "hello"))
        /\ gap' = IF peers[f].server > 0 THEN gap \cup {f} ELSE gap
  /\ peers' = [peers EXCEPT ![f].extra = @ + 1]

\* Bro forgets the TCP connection; its conn_id may be used again.
ConnectionEnds(f) ==
  /\ bro = "up" /\ queue = <<>> /\ peers[f].client > 0
  /\ queue' = <<Event("connection_state_remove", f, FALSE)>>
  /\ peers' = [peers EXCEPT ![f] = [session |-> @.session + 1, client |-> 0, server |-> 0,
                                    extra |-> 0, skip |-> FALSE]]
  /\ gap' = gap \ {f}
  /\ UNCHANGED <<bro, table, pipes, gone, blocked, orphans>>

-----------------------------------------------------------------------------
(* bronnect, as the module Bronnect has it: when it ends a connection on   *)
(* which it was told the flow it unblocks that flow, unless it ends it     *)
(* because the connection to the service failed at once.                   *)

BronnectEnds(c) ==
  /\ phase[c] \in {"open", "closed"} /\ c \notin gone
  /\ gone' = gone \cup {c}
  /\ \/ sent[c] = <<>> /\ UNCHANGED <<blocked, orphans>>
     \/ sent[c] # <<>> /\ telex_mod_block(flowOf[c], FALSE)
     \/ /\ sent[c] # <<>>
        /\ orphans' = orphans \cup (blocked \cap {flowOf[c]})
        /\ UNCHANGED blocked
  /\ UNCHANGED <<detector, pipes, peers, gap>>

Next ==
  \/ Handle \/ Exit
  \/ \E f \in Flows : \/ Expire(f) \/ ConnectionEnds(f) \/ Missed(f)
                      \/ ClientPacket(f) \/ ServerPacket(f) \/ OtherPacket(f)
  \/ \E c \in Conns : BronnectEnds(c)

Spec == Init /\ [][Next]_vars

\* Bro drains its queue, and expires entries that nothing refers to any more
\* (the peers send a bounded number of packets).
FairSpec == Spec /\ WF_vars(Handle) /\ \A f \in Flows : WF_vars(Expire(f))

-----------------------------------------------------------------------------
(* Properties.                                                             *)

\* Every variable has its type.  Of the states bro.init names only 1, 2, 4
\* and 5 are ever found in telex_table between two events: 6 and 7 end the
\* entry in the event that sets them.
TypeOK ==
  /\ bro \in {"up", "exited", "crashed"}
  /\ table \in [Flows -> {te \in Entry : te.state \in {1, 2, 4, 5} /\ te.do_fwd} \cup {None}]
  /\ phase \in [Conns -> {"none", "open", "closed", "leaked"}]
  /\ sent \in [Conns -> Seq({"INIT", "RAW_PKT"})]
  /\ flowOf \in [Conns -> Flows \cup {None}]
  /\ gone \subseteq Conns
  /\ blocked \subseteq Flows
  /\ orphans \subseteq blocked

\* No connected socket is forgotten: as long as Bro has one open, the entry of
\* its flow names it, so that the next cleanup closes it (cleanup_telex_obj),
\* whatever way a connection leaves telex_table and however often its id is
\* reused.  (The sockets that could not be connected are forgotten.)
SocketsTracked ==
  \A c \in Conns : phase[c] = "open" =>
    /\ flowOf[c] # None /\ Tracked(flowOf[c])
    /\ table[flowOf[c]].sock = c

\* The state of an entry says what bronnect has been told: state 5 goes with
\* one INIT record on an open socket, a lower state with none (ssl_handshake,
\* telex_send_init_data).
StateFollowsRecords ==
  \A f \in Flows : Tracked(f) =>
    LET te == table[f] IN
      IF te.state = 5 THEN te.sock # None /\ sent[te.sock] = <<"INIT">>
                      ELSE te.sock # None => sent[te.sock] = <<>>

\* A flow that is blocked has someone to unblock it: Bro, which still tracks
\* it, or a bronnect that has been told which flow it is; Bro's part ends only
\* in a step that unblocks or that follows INIT.  The ways out are
\* ssl_conn_alert, which gives a flow up without unblocking it, and a bronnect
\* whose connection to the service fails (the result of sending it the raw
\* packet is not looked at).
BlockOwned ==
  bro = "up" =>
    \A f \in blocked \ orphans :
      Tracked(f) \/ \E c \in Conns \ gone : flowOf[c] = f /\ sent[c] # <<>>

\* What makes the three inductive.  An entry's socket is open and its own; a
\* socket that is not connected has no flow and no records; and when bronnect
\* has ended a connection that Bro is about to hand over (state 5), the flow
\* is no longer blocked or is given up, so that nobody is owed anything when
\* new_packet_final then forgets it.
OwnSocket ==
  \A f \in Flows : Tracked(f) /\ table[f].sock # None =>
    phase[table[f].sock] = "open" /\ flowOf[table[f].sock] = f
FreshSockets ==
  \A c \in Conns : phase[c] \in {"none", "leaked"} => sent[c] = <<>> /\ c \notin gone
EndedBeforeHandOver ==
  \A f \in Flows : Tracked(f) /\ table[f].state = 5 /\ table[f].sock \in gone =>
    f \notin blocked \ orphans
IInv ==
  /\ TypeOK /\ SocketsTracked /\ StateFollowsRecords /\ BlockOwned
  /\ OwnSocket /\ FreshSockets /\ EndedBeforeHandOver

\* The records Bro sends on each socket follow the protocol that bronnect
\* relies on: INIT, RAW_PKT, end.  bronnect never sees a leaked socket.
PeerPhase == [c \in Conns |-> IF phase[c] = "leaked" THEN "none" ELSE phase[c]]
Peer == INSTANCE Brotocol WITH phase <- PeerPhase
BrotocolFollowed == Peer!Spec

\* Once its packets stop a flow is not tracked for ever, whatever the peers
\* have sent and the copy lacks: do_expire, and with it the unblocking, comes
\* in the end.  (Every packet puts read_expire off; the peers here send
\* finitely many.)
TrackingEnds == \A f \in Flows : Tracked(f) ~> ~Tracked(f)

\* With a complete copy of a connection's packets, INIT is never built from a
\* field that is not set ("Once we get both iv's", telex-ssl.bro:244): however
\* its records are put into packets, both IVs and the server's random are
\* there when ssl_handshake finds state 4.  telex_send_init_data itself does
\* not look, so a packet missing from the copy may end Bro, and so may a
\* ClientHello that starts an entry after the server has answered one.
CrashNeedsGap == bro = "crashed" => gap # {}

\* What makes it inductive.  An event of the packet at hand is still to come:
Pending(ev, f, is) == \E k \in 1..Len(queue) : queue[k] = Event(ev, f, is)

\* Neither side of a connection is ahead of what it answers to.
PeersOK ==
  /\ peers \in [Flows -> [session : Nat, client : 0..5, server : 0..5, extra : Nat, skip : BOOLEAN]]
  /\ \A f \in Flows :
       LET c == peers[f].client  s == peers[f].server IN
       (c = 0 => s = 0) /\ (c < 4 => s <= 2) /\ (c >= 2 => s >= 2) /\ (c = 5 => s >= 4)

\* The events at hand are those of records that their side has sent; a
\* ClientHello is alone in its packet, and comes before the server's answer.
QueueShape ==
  \A k \in 1..Len(queue) :
    /\ queue[k].ev = "connection_state_remove" => Len(queue) = 1
    /\ queue[k].ev = "ssl_conn_attempt" => queue[k].is /\ k = Len(queue) - 1
QueueFollowsPeers ==
  \A f \in Flows :
    LET c == peers[f].client  s == peers[f].server IN
    /\ Pending("handshake", f, TRUE) => s <= 2
    /\ Pending("change_cipher", f, FALSE) => s >= 3
    /\ Pending("ssl_conn_attempt", f, TRUE) /\ f \notin gap => c = 1 /\ s = 0
    /\ peers[f].skip => ~Tracked(f) /\ ~Pending("ssl_conn_attempt", f, TRUE)

\* The entry of a connection whose copy is complete has what its records say,
\* but for those whose events are still to come: the server's random, the
\* client's change of cipher and the client's IV before the server's last
\* messages.
EntryFollowsPeers ==
  \A f \in Flows \ gap : Tracked(f) /\ ~Pending("connection_state_remove", f, FALSE) =>
    LET te == table[f]  c == peers[f].client  s == peers[f].server IN
    /\ s >= 1 => te.srand \/ Pending("ssl_conn_server_reply", f, FALSE)
    /\ c >= 2 => te.srand
    /\ c = 3 => te.state >= 2 \/ Pending("change_cipher", f, TRUE)
    /\ c >= 4 => te.state >= 2 \/ (queue # <<>> /\ Head(queue) = Event("change_cipher", f, TRUE))
    /\ c >= 4 => te.civ \/ Pending("handshake", f, TRUE)
    /\ s >= 3 => te.civ
    /\ te.state = 4 => s >= 3
CopyInv == PeersOK /\ QueueShape /\ QueueFollowsPeers /\ EntryFollowsPeers /\ CrashNeedsGap

=============================================================================
