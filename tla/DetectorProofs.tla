--------------------------- MODULE DetectorProofs ---------------------------
(***************************************************************************)
(* Theorems about Detector: its invariants, and that it implements         *)
(* Brotocol, for any number of flows, sockets, sessions and packets.       *)
(*                                                                         *)
(* A handler of telex-ssl.bro does one of seven things to the entry of its *)
(* flow (Effect), or the process ends (Dies).  The handlers are shown to   *)
(* do no more; the invariants and the simulation are then proved of the    *)
(* effects.                                                                *)
(*                                                                         *)
(* The last part is about what the entry knows: as long as no packet is    *)
(* missing from Bro's copy, the fields that telex_send_init_data uses are  *)
(* set when it uses them.                                                  *)
(***************************************************************************)
EXTENDS Detector, TLAPS

\* An entry as telex_table has it between two events.
StoredEntry == {te \in Entry : te.state \in {1, 2, 4, 5} /\ te.do_fwd}

NewEntry ==
  [state |-> 1, do_fwd |-> TRUE, past |-> FALSE, sock |-> None,
   p |-> FALSE, srand |-> FALSE, civ |-> FALSE, siv |-> FALSE]

-----------------------------------------------------------------------------
(* The effects.                                                            *)

\* A field of the entry is set; neither its socket nor whether it is in
\* state 5 changes.
Kept(f) ==
  \E te \in StoredEntry :
    /\ te.sock = table[f].sock /\ (te.state = 5 <=> table[f].state = 5)
    /\ Store(f, te)

Expired(f) == do_expire(f)

GivenUp(f) ==
  /\ cleanup_telex_obj(table[f])
  /\ table' = [table EXCEPT ![f] = None]
  /\ orphans' = IF f \in blocked THEN orphans \cup {f} ELSE orphans
  /\ UNCHANGED <<bro, sent, blocked>>

Told(f) ==
  \E te \in StoredEntry :
    /\ te.sock = table[f].sock /\ te.sock \in Conns \ gone
    /\ te.state = 5 /\ table[f].state # 5
    /\ sent' = [sent EXCEPT ![te.sock] = Append(@, "INIT")]
    /\ table' = [table EXCEPT ![f] = te]
    /\ UNCHANGED <<bro, phase, flowOf, blocked, orphans>>

HandedOver(f) ==
  /\ table[f].state = 5
  /\ sent' = IF table[f].sock \in gone THEN sent
             ELSE [sent EXCEPT ![table[f].sock] = Append(@, "RAW_PKT")]
  /\ cleanup_telex_obj(table[f])
  /\ table' = [table EXCEPT ![f] = None]
  /\ UNCHANGED <<bro, blocked, orphans>>

Started(f) ==
  /\ telex_mod_block(f, TRUE)
  /\ telex_init_bronnect(f, NewEntry)
  /\ UNCHANGED <<bro, sent>>

Effect(f) ==
  \/ Tracked(f) /\ (Kept(f) \/ Expired(f) \/ GivenUp(f) \/ Told(f) \/ HandedOver(f))
  \/ ~Tracked(f) /\ Started(f)

-----------------------------------------------------------------------------
(* Types of events.                                                        *)

EventNames ==
  {"ssl_conn_attempt", "ssl_conn_server_reply", "ssl_server_key_exchange", "ssl_conn_alert",
   "handshake", "change_cipher", "app_data", "new_packet_final", "connection_state_remove"}
EventType == [ev : EventNames, flow : Flows, is : BOOLEAN]

QueueOK == queue \in Seq(EventType)

\* An event as the packets raise it (Event) is of that type.
LEMMA EventOfType ==
  ASSUME NEW s \in EventNames, NEW f \in Flows, NEW is \in BOOLEAN
  PROVE  Event(s, f, is) \in EventType
BY Zenon DEF Event, EventType

\* What a record raises are events of its flow (RecordEvents, after
\* next_record of Bro's TLS parser).
LEMMA RecordEventsType ==
  ASSUME NEW f \in Flows, NEW orig \in BOOLEAN, NEW r
  PROVE  RecordEvents(f, orig, r) \in Seq(EventType)
<1>1. /\ "app_data" \in EventNames /\ "change_cipher" \in EventNames
      /\ "handshake" \in EventNames /\ "ssl_server_key_exchange" \in EventNames
      /\ (IF orig THEN "ssl_conn_attempt" ELSE "ssl_conn_server_reply") \in EventNames
  BY DEF EventNames
<1>2. /\ Event("app_data", f, orig) \in EventType
      /\ Event("change_cipher", f, orig) \in EventType
      /\ Event("handshake", f, orig) \in EventType
      /\ Event("ssl_server_key_exchange", f, orig) \in EventType
      /\ Event(IF orig THEN "ssl_conn_attempt" ELSE "ssl_conn_server_reply", f, orig) \in EventType
  BY <1>1, EventOfType, Zenon
<1>. QED  BY <1>2 DEF RecordEvents

\* The queue holds events of known flows only, whatever packet arrives
\* (Arrives) and whatever part of it has been handled (Handle).
LEMMA QueueStep ==
  ASSUME QueueOK, [Next]_vars
  PROVE  QueueOK'
<1>. USE DEF QueueOK
<1>1. ASSUME NEW f \in Flows, NEW events \in Seq(EventType), Arrives(f, events)
      PROVE  QueueOK'
  <2>1. PICK past \in Caught(f) :
          queue' = IF peers[f].skip THEN <<>> ELSE Append(events, Event("new_packet_final", f, past))
    BY <1>1 DEF Arrives
  <2>2. past \in BOOLEAN
    BY Zenon DEF Caught
  <2>3. Event("new_packet_final", f, past) \in EventType
    BY <2>2, EventOfType DEF EventNames
  <2>4. <<>> \in Seq(EventType) /\ Append(events, Event("new_packet_final", f, past)) \in Seq(EventType)
    BY <2>3
  <2>. QED  BY <2>1, <2>4, Zenon
<1>2. CASE Handle
  <2>1. queue' = Tail(queue) \/ queue' = <<>>
    BY <1>2 DEF Handle
  <2>2. queue # <<>>
    BY <1>2 DEF Handle
  <2>3. Tail(queue) \in Seq(EventType) /\ <<>> \in Seq(EventType)
    BY <2>2
  <2>. QED  BY <2>1, <2>3, Zenon
<1>3. CASE Exit
  BY <1>3 DEF Exit
<1>4. ASSUME NEW f \in Flows, Expire(f) \/ Missed(f)
      PROVE  QueueOK'
  BY <1>4 DEF Expire, Missed
<1>5. ASSUME NEW f \in Flows, ConnectionEnds(f)
      PROVE  QueueOK'
  <2>1. Event("connection_state_remove", f, FALSE) \in EventType
    BY EventOfType, Zenon DEF EventNames
  <2>2. <<Event("connection_state_remove", f, FALSE)>> \in Seq(EventType)
    <3>1. \A e \in EventType : <<e>> \in Seq(EventType)
      OBVIOUS
    <3>. QED  BY <2>1, <3>1, Zenon
  <2>. QED  BY <1>5, <2>2, Zenon DEF ConnectionEnds
<1>6. ASSUME NEW f \in Flows, NEW orig \in BOOLEAN, NEW rs, NEW i, NEW n
      PROVE  RecordsEvents(f, orig, rs, i, n) \in Seq(EventType)
  <2>1. /\ RecordEvents(f, orig, rs[i]) \in Seq(EventType)
        /\ RecordEvents(f, orig, rs[i + 1]) \in Seq(EventType)
    BY RecordEventsType
  <2>. QED  BY <2>1 DEF RecordsEvents
<1>7. ASSUME NEW f \in Flows, ClientPacket(f) \/ ServerPacket(f)
      PROVE  QueueOK'
  <2>1. PICK events \in Seq(EventType) : Arrives(f, events)
    BY <1>6, <1>7, Zenon DEF ClientPacket, ServerPacket
  <2>. QED  BY <1>1, <2>1
<1>8. ASSUME NEW f \in Flows, OtherPacket(f)
      PROVE  QueueOK'
  <2>1. \A orig \in BOOLEAN : <<Event("ssl_conn_alert", f, orig)>> \in Seq(EventType)
    <3>1. \A orig \in BOOLEAN : Event("ssl_conn_alert", f, orig) \in EventType
      BY EventOfType DEF EventNames
    <3>. QED  BY <3>1
  <2>2. <<>> \in Seq(EventType)
    OBVIOUS
  <2>3. RecordEvents(f, TRUE, "hello") \in Seq(EventType)
    BY RecordEventsType, Zenon
  <2>4. PICK events \in Seq(EventType) : Arrives(f, events)
    BY <1>8, <2>1, <2>2, <2>3, Zenon DEF OtherPacket
  <2>. QED  BY <1>1, <2>4
<1>9. CASE \E c \in Conns : BronnectEnds(c)
  BY <1>9 DEF BronnectEnds, detector
<1>10. CASE UNCHANGED vars
  BY <1>10 DEF vars
<1>. QED  BY <1>2, <1>3, <1>4, <1>5, <1>7, <1>8, <1>9, <1>10 DEF Next

-----------------------------------------------------------------------------
(* The handlers have effects.                                              *)

\* Setting fields of an entry, one at a time, as the handlers do.
LEMMA EntryUpdates ==
  ASSUME NEW te \in StoredEntry, NEW b \in BOOLEAN, NEW n \in {1, 2, 4, 5}
  PROVE  /\ [te EXCEPT !.srand = TRUE] \in StoredEntry
         /\ [te EXCEPT !.p = TRUE] \in StoredEntry
         /\ [te EXCEPT !.civ = TRUE] \in StoredEntry
         /\ [te EXCEPT !.siv = TRUE] \in StoredEntry
         /\ [te EXCEPT !.past = b] \in StoredEntry
         /\ [te EXCEPT !.state = n] \in StoredEntry
<1>. n \in 1..7
  OBVIOUS
<1>. QED  BY Zenon DEF StoredEntry, Entry

\* ... and what this leaves alone.
LEMMA EntryUntouched ==
  ASSUME NEW te \in StoredEntry, NEW b, NEW n
  PROVE  /\ [te EXCEPT !.srand = TRUE].sock = te.sock /\ [te EXCEPT !.srand = TRUE].state = te.state
         /\ [te EXCEPT !.p = TRUE].sock = te.sock /\ [te EXCEPT !.p = TRUE].state = te.state
         /\ [te EXCEPT !.civ = TRUE].sock = te.sock /\ [te EXCEPT !.civ = TRUE].state = te.state
         /\ [te EXCEPT !.siv = TRUE].sock = te.sock /\ [te EXCEPT !.siv = TRUE].state = te.state
         /\ [te EXCEPT !.past = b].sock = te.sock /\ [te EXCEPT !.past = b].state = te.state
         /\ [te EXCEPT !.state = n].sock = te.sock /\ [te EXCEPT !.state = n].state = n
BY Zenon DEF StoredEntry, Entry

\* Every handler ignores its event, has one of the effects on the entry of
\* the event's flow, or ends the process (the functions and events of
\* telex-ssl.bro).
LEMMA HandlerEffect ==
  ASSUME IInv, QueueOK, Handle
  PROVE  /\ UNCHANGED gone
         /\ \/ Ignore
            \/ \E f \in Flows : Effect(f)
            \/ Dies("crashed")
<1>. DEFINE e == Head(queue)
            f == e.flow
            Goal == Ignore \/ Effect(f) \/ Dies("crashed")
<1>1. e \in EventType
  BY DEF Handle, QueueOK
<1>2. f \in Flows /\ e.is \in BOOLEAN
  <2>1. \A x \in EventType : x.flow \in Flows /\ x.is \in BOOLEAN
    BY Zenon DEF EventType
  <2>. QED  BY <1>1, <2>1, Zenon
<1>. HIDE DEF e
<1>3. Tracked(f) => table[f] \in StoredEntry
  BY <1>2 DEF IInv, TypeOK, StoredEntry, Tracked
<1>4. ASSUME NEW tagged \in BOOLEAN, ssl_conn_attempt(f, tagged)
      PROVE  Goal
  BY <1>4, Zenon DEF ssl_conn_attempt, Effect, Started, NewEntry
<1>5. ASSUME ssl_conn_server_reply(f)
      PROVE  Goal
  BY <1>3, <1>5, EntryUpdates, EntryUntouched, Zenon DEF ssl_conn_server_reply, Effect,
     Kept
<1>6. ASSUME ssl_server_key_exchange(f)
      PROVE  Goal
  BY <1>3, <1>6, EntryUpdates, EntryUntouched, Zenon DEF ssl_server_key_exchange,
     Effect, Kept
<1>7. ASSUME ssl_conn_alert(f, e.is)
      PROVE  Goal
  BY <1>7 DEF ssl_conn_alert, Effect, GivenUp
<1>8. ASSUME ssl_app_data(f) \/ connection_state_remove(f)
      PROVE  Goal
  BY <1>8 DEF ssl_app_data, connection_state_remove, Effect, Expired
<1>9. ASSUME ssl_change_cipher(f, e.is)
      PROVE  Goal
  <2>1. CASE ~Tracked(f)
    BY <1>9, <2>1 DEF ssl_change_cipher
  <2>2. ASSUME Tracked(f), NEW n \in {2, 4}, table[f].state # 5,
               Store(f, [table[f] EXCEPT !.state = n])
        PROVE  Goal
    <3>1. n \in {1, 2, 4, 5} /\ n # 5
      OBVIOUS
    <3>2. PICK new \in StoredEntry : new = [table[f] EXCEPT !.state = n]
      BY <1>3, <2>2, <3>1, EntryUpdates, Zenon
    <3>3. new.sock = table[f].sock /\ new.state = n
      BY <1>3, <2>2, <3>2, EntryUntouched
    <3>. QED  BY <2>2, <3>1, <3>2, <3>3, Zenon DEF Effect, Kept
  <2>3. CASE Tracked(f) /\ do_expire(f)
    BY <2>3 DEF Effect, Expired
  <2>. QED  BY <1>9, <2>1, <2>2, <2>3 DEF ssl_change_cipher
<1>10. ASSUME ssl_handshake(f, e.is)
       PROVE  Goal
  <2>1. CASE ~Tracked(f)
    BY <1>10, <2>1 DEF ssl_handshake
  <2>2. CASE Tracked(f)
    <3>1. PICK te : te = WithIV(table[f], e.is)
      OBVIOUS
    <3>2. te \in StoredEntry /\ te.sock = table[f].sock /\ te.state = table[f].state
      <4>1. te \in {table[f], [table[f] EXCEPT !.civ = TRUE], [table[f] EXCEPT !.siv = TRUE]}
        BY <3>1 DEF WithIV
      <4>. QED  BY <1>3, <2>2, <4>1, EntryUpdates, EntryUntouched, ZenonT(40)
    <3>3. CASE te.state # 4 /\ Store(f, te)
      BY <2>2, <3>2, <3>3 DEF Effect, Kept
    <3>4. CASE do_expire(f)
      BY <2>2, <3>4 DEF Effect, Expired
    <3>5. CASE /\ te.state = 4 /\ CanSendInit(te)
               /\ sent' = [sent EXCEPT ![te.sock] = Append(@, "INIT")]
               /\ table' = [table EXCEPT ![f] = [te EXCEPT !.state = 5]]
               /\ UNCHANGED <<bro, phase, flowOf, blocked, orphans>>
      <4>1. PICK new \in StoredEntry : new = [te EXCEPT !.state = 5]
        BY <3>2, EntryUpdates, Zenon
      <4>2. new.sock = te.sock /\ new.state = 5
        BY <3>2, <4>1, EntryUntouched
      <4>3. te.sock \in Conns \ gone
        BY <3>2, <3>5 DEF CanSendInit, StoredEntry, Entry
      <4>4. sent' = [sent EXCEPT ![new.sock] = Append(@, "INIT")] /\ table' = [table EXCEPT ![f] = new]
        BY <3>5, <4>1, <4>2, Zenon
      <4>5. table[f].state # 5
        BY <3>2, <3>5
      <4>6. Told(f)
        BY <3>2, <3>5, <4>2, <4>3, <4>4, <4>5, Zenon DEF Told
      <4>. QED  BY <2>2, <4>6 DEF Effect
    <3>. QED  BY <1>10, <2>2, <3>1, <3>3, <3>4, <3>5, Zenon DEF ssl_handshake
  <2>. QED  BY <2>1, <2>2
<1>11. ASSUME new_packet_final(f, e.is)
       PROVE  Goal
  <2>1. CASE ~Tracked(f)
    BY <1>11, <2>1 DEF new_packet_final
  <2>2. CASE Tracked(f)
    <3>1. PICK te \in StoredEntry : te = [table[f] EXCEPT !.past = e.is]
      BY <1>2, <1>3, <2>2, EntryUpdates, Zenon
    <3>2. te.sock = table[f].sock /\ te.state = table[f].state
      BY <1>3, <2>2, <3>1, EntryUntouched
    <3>3. CASE e.is /\ te.state = 5
      <4>1. /\ sent' = IF te.sock \in gone THEN sent
                       ELSE [sent EXCEPT ![te.sock] = Append(@, "RAW_PKT")]
            /\ cleanup_telex_obj(te)
            /\ table' = [table EXCEPT ![f] = None]
            /\ UNCHANGED <<bro, blocked, orphans>>
        BY <1>11, <2>2, <3>1, <3>3 DEF new_packet_final
      <4>2. cleanup_telex_obj(table[f])
        BY <3>2, <4>1 DEF cleanup_telex_obj
      <4>. QED  BY <2>2, <3>2, <3>3, <4>1, <4>2 DEF Effect, HandedOver
    <3>4. CASE ~e.is /\ te.state = 5
      <4>1. do_expire(f)
        BY <1>11, <2>2, <3>1, <3>4 DEF new_packet_final
      <4>. QED  BY <2>2, <4>1 DEF Effect, Expired
    <3>5. CASE te.state # 5
      <4>1. Store(f, te)
        BY <1>11, <2>2, <3>1, <3>5 DEF new_packet_final
      <4>. QED  BY <2>2, <3>2, <4>1 DEF Effect, Kept
    <3>. QED  BY <3>3, <3>4, <3>5
  <2>. QED  BY <2>1, <2>2
<1>12. Goal /\ UNCHANGED gone
  BY <1>4, <1>5, <1>6, <1>7, <1>8, <1>9, <1>10, <1>11 DEF Handle, e
<1>. QED  BY <1>2, <1>12

-----------------------------------------------------------------------------
(* The effects keep the invariant.                                         *)

\* A field of an entry is set (ssl_change_cipher, ssl_handshake, ...).
LEMMA KeptInv ==
  ASSUME IInv, NEW f \in Flows, Tracked(f), Kept(f), UNCHANGED gone
  PROVE  IInv'
<1>. USE NoneAssumption, EntryAssumption DEF IInv
<1>1. PICK te \in StoredEntry :
        /\ te.sock = table[f].sock /\ (te.state = 5 <=> table[f].state = 5)
        /\ Store(f, te)
  BY DEF Kept
<1>2. te # None
  BY DEF StoredEntry
<1>3. table[f] \in StoredEntry
  BY DEF TypeOK, StoredEntry, Tracked
<1>4. \A g \in Flows : /\ Tracked(g)' <=> Tracked(g)
                       /\ Tracked(g) => /\ table'[g].sock = table[g].sock
                                        /\ table'[g].state = 5 <=> table[g].state = 5
  BY <1>1, <1>2 DEF Store, Tracked, TypeOK
<1>5. TypeOK'
  BY <1>1 DEF Store, TypeOK, StoredEntry
<1>6. SocketsTracked'
  BY <1>1, <1>4 DEF Store, SocketsTracked, TypeOK
<1>7. StateFollowsRecords'
  BY <1>1, <1>4, ZenonT(60) DEF Store, StateFollowsRecords
<1>8. BlockOwned'
  BY <1>1, <1>4 DEF Store, BlockOwned, TypeOK
<1>9. OwnSocket'
  BY <1>1, <1>4 DEF Store, OwnSocket
<1>10. FreshSockets'
  BY <1>1 DEF Store, FreshSockets
<1>11. EndedBeforeHandOver'
  BY <1>1, <1>4 DEF Store, EndedBeforeHandOver
<1>. QED  BY <1>5, <1>6, <1>7, <1>8, <1>9, <1>10, <1>11

\* An entry goes with its socket: what do_expire, ssl_conn_alert and the
\* hand-over have in common.  At most its own socket is sent anything.
LEMMA RemovedInv ==
  ASSUME IInv, NEW f \in Flows, Tracked(f), UNCHANGED <<gone, bro>>,
         cleanup_telex_obj(table[f]), table' = [table EXCEPT ![f] = None],
         sent' \in [Conns -> Seq({"INIT", "RAW_PKT"})],
         \A c \in Conns : c # table[f].sock => sent'[c] = sent[c],
         blocked' \subseteq Flows, orphans' \subseteq blocked',
         \A g \in Flows : g # f => (g \in blocked' \ orphans' <=> g \in blocked \ orphans)
  PROVE  /\ TypeOK' /\ SocketsTracked' /\ StateFollowsRecords'
         /\ OwnSocket' /\ FreshSockets' /\ EndedBeforeHandOver'
<1>. USE NoneAssumption, EntryAssumption DEF IInv
<1>1. table[f] \in StoredEntry /\ table[f].sock \in Conns \cup {None}
  BY DEF TypeOK, StoredEntry, Tracked, Entry
<1>2. ~Tracked(f)' /\ \A g \in Flows : g # f => table'[g] = table[g] /\ (Tracked(g)' <=> Tracked(g))
  BY DEF Tracked, TypeOK
<1>3. /\ flowOf' = flowOf
      /\ \A c \in Conns : phase'[c] = IF c = table[f].sock THEN "closed" ELSE phase[c]
  BY <1>1 DEF cleanup_telex_obj, TypeOK
<1>4. \A g \in Flows : g # f /\ Tracked(g) /\ table[g].sock # None => table[g].sock # table[f].sock
  BY DEF OwnSocket
<1>5. \A g \in Flows : Tracked(g) => table[g].sock \in Conns \cup {None}
  BY DEF TypeOK, Tracked, Entry
<1>6. TypeOK'
  <2>1. phase' \in [Conns -> {"none", "open", "closed", "leaked"}]
    BY <1>1 DEF cleanup_telex_obj, TypeOK
  <2>2. table' \in [Flows -> {te \in Entry : te.state \in {1, 2, 4, 5} /\ te.do_fwd} \cup {None}]
    BY DEF TypeOK
  <2>. QED  BY <1>3, <2>1, <2>2 DEF TypeOK
<1>7. SocketsTracked'
  BY <1>1, <1>2, <1>3 DEF SocketsTracked, TypeOK
<1>8. StateFollowsRecords'
  <2>1. SUFFICES ASSUME NEW g \in Flows, Tracked(g)'
                 PROVE  IF table'[g].state = 5 THEN table'[g].sock # None /\ sent'[table'[g].sock] = <<"INIT">>
                        ELSE table'[g].sock # None => sent'[table'[g].sock] = <<>>
    BY DEF StateFollowsRecords
  <2>2. g # f /\ Tracked(g) /\ table'[g] = table[g]
    BY <1>2, <2>1
  <2>3. table[g].sock # None => sent'[table[g].sock] = sent[table[g].sock]
    BY <1>4, <1>5, <2>2
  <2>4. IF table[g].state = 5 THEN table[g].sock # None /\ sent[table[g].sock] = <<"INIT">>
        ELSE table[g].sock # None => sent[table[g].sock] = <<>>
    BY <2>2, Zenon DEF StateFollowsRecords
  <2>. QED  BY <2>2, <2>3, <2>4
<1>9. OwnSocket'
  BY <1>2, <1>3, <1>4, <1>5 DEF OwnSocket
<1>10. FreshSockets'
  BY <1>3 DEF FreshSockets
<1>11. EndedBeforeHandOver'
  BY <1>2 DEF EndedBeforeHandOver
<1>. QED  BY <1>6, <1>7, <1>8, <1>9, <1>10, <1>11

\* do_expire keeps the invariant: the flow is unblocked when it is forgotten.
LEMMA ExpiredInv ==
  ASSUME IInv, NEW f \in Flows, Tracked(f), Expired(f), UNCHANGED gone
  PROVE  IInv'
<1>. USE DEF Expired, do_expire, telex_mod_block
<1>1. blocked' = blocked \ {f} /\ orphans' = orphans \ {f} /\ UNCHANGED <<bro, sent, flowOf>>
  BY DEF cleanup_telex_obj
<1>2. /\ TypeOK' /\ SocketsTracked' /\ StateFollowsRecords'
      /\ OwnSocket' /\ FreshSockets' /\ EndedBeforeHandOver'
  BY <1>1, RemovedInv, Zenon DEF IInv, TypeOK
<1>3. BlockOwned'
  <2>1. \A g \in Flows : g # f => (Tracked(g)' <=> Tracked(g))
    BY DEF IInv, TypeOK, Tracked
  <2>. QED  BY <1>1, <2>1 DEF IInv, TypeOK, BlockOwned
<1>. QED  BY <1>2, <1>3 DEF IInv

\* ssl_conn_alert keeps the invariant: the flow is counted as given up.
LEMMA GivenUpInv ==
  ASSUME IInv, NEW f \in Flows, Tracked(f), GivenUp(f), UNCHANGED gone
  PROVE  IInv'
<1>. USE DEF GivenUp
<1>1. blocked' = blocked /\ UNCHANGED <<bro, sent, flowOf>>
  BY DEF cleanup_telex_obj
<1>2. orphans' \subseteq blocked /\ f \notin blocked' \ orphans'
  BY <1>1 DEF IInv, TypeOK
<1>3. \A g \in Flows : g # f => (g \in blocked' \ orphans' <=> g \in blocked \ orphans)
  BY <1>1
<1>4. /\ TypeOK' /\ SocketsTracked' /\ StateFollowsRecords'
      /\ OwnSocket' /\ FreshSockets' /\ EndedBeforeHandOver'
  BY <1>1, <1>2, <1>3, RemovedInv, Zenon DEF IInv, TypeOK
<1>5. BlockOwned'
  <2>1. \A g \in Flows : g # f => (Tracked(g)' <=> Tracked(g))
    BY DEF IInv, TypeOK, Tracked
  <2>. QED  BY <1>1, <1>2, <1>3, <2>1 DEF IInv, TypeOK, BlockOwned
<1>. QED  BY <1>4, <1>5 DEF IInv

\* The hand-over keeps the invariant: bronnect has been told the flow and is
\* there to unblock it, or has ended and is owed nothing.
LEMMA HandedOverInv ==
  ASSUME IInv, NEW f \in Flows, Tracked(f), HandedOver(f), UNCHANGED gone
  PROVE  IInv'
<1>. USE NoneAssumption, EntryAssumption DEF IInv
<1>1. PICK c \in Conns : c = table[f].sock /\ sent[c] = <<"INIT">> /\ flowOf[c] = f
  BY DEF HandedOver, StateFollowsRecords, OwnSocket, TypeOK, Tracked, Entry
<1>2. UNCHANGED <<bro, blocked, orphans, flowOf>>
  BY DEF HandedOver, cleanup_telex_obj
<1>3. /\ sent' \in [Conns -> Seq({"INIT", "RAW_PKT"})]
      /\ \A d \in Conns : d # c => sent'[d] = sent[d]
      /\ sent'[c] # <<>>
  <2>1. PICK new \in Seq({"INIT", "RAW_PKT"}) : new = Append(<<"INIT">>, "RAW_PKT") /\ new # <<>>
    <3>1. Append(<<"INIT">>, "RAW_PKT") \in Seq({"INIT", "RAW_PKT"}) /\ Append(<<"INIT">>, "RAW_PKT") # <<>>
      OBVIOUS
    <3>. QED  BY <3>1, Zenon
  <2>2. sent' = sent \/ sent' = [sent EXCEPT ![c] = new]
    BY <1>1, <2>1 DEF HandedOver
  <2>3. sent[c] # <<>>
    BY <1>1
  <2>4. CASE sent' = sent
    BY <2>3, <2>4 DEF TypeOK
  <2>5. CASE sent' = [sent EXCEPT ![c] = new]
    BY <2>1, <2>5, SMTT(30) DEF TypeOK
  <2>. QED  BY <2>2, <2>4, <2>5
<1>4. /\ TypeOK' /\ SocketsTracked' /\ StateFollowsRecords'
      /\ OwnSocket' /\ FreshSockets' /\ EndedBeforeHandOver'
  BY <1>1, <1>2, <1>3, RemovedInv, Zenon DEF TypeOK, HandedOver
<1>5. BlockOwned'
  <2>1. \A g \in Flows : g # f => (Tracked(g)' <=> Tracked(g))
    BY DEF TypeOK, Tracked, HandedOver
  <2>2. SUFFICES ASSUME bro' = "up", NEW g \in blocked' \ orphans', ~Tracked(g)'
                 PROVE  \E d \in Conns \ gone' : flowOf'[d] = g /\ sent'[d] # <<>>
    BY DEF BlockOwned
  <2>3. CASE g = f
    <3>1. c \notin gone
      BY <1>1, <1>2, <2>2, <2>3 DEF EndedBeforeHandOver, HandedOver, TypeOK
    <3>. QED  BY <1>1, <1>2, <1>3, <2>3, <3>1
  <2>4. CASE g # f
    <3>1. PICK d \in Conns \ gone : flowOf[d] = g /\ sent[d] # <<>>
      BY <1>2, <2>1, <2>2, <2>4 DEF BlockOwned, TypeOK
    <3>. QED  BY <1>1, <1>2, <1>3, <2>4, <3>1
  <2>. QED  BY <2>3, <2>4
<1>. QED  BY <1>4, <1>5

\* telex_send_init_data keeps the invariant: state 5 and the one INIT record
\* come together.
LEMMA ToldInv ==
  ASSUME IInv, NEW f \in Flows, Tracked(f), Told(f), UNCHANGED gone
  PROVE  IInv'
<1>. USE NoneAssumption, EntryAssumption DEF IInv
<1>1. PICK te \in StoredEntry :
        /\ te.sock = table[f].sock /\ te.sock \in Conns \ gone
        /\ te.state = 5 /\ table[f].state # 5
        /\ sent' = [sent EXCEPT ![te.sock] = Append(@, "INIT")]
        /\ table' = [table EXCEPT ![f] = te]
        /\ UNCHANGED <<bro, phase, flowOf, blocked, orphans>>
  BY Zenon DEF Told
<1>2. PICK c \in Conns : c = te.sock /\ c # None /\ c \notin gone /\ phase[c] = "open" /\ flowOf[c] = f
  BY <1>1 DEF OwnSocket
<1>3. te # None
  BY DEF StoredEntry
<1>4. sent' = [sent EXCEPT ![c] = <<"INIT">>]
  <2>1. sent[c] = <<>>
    BY <1>1, <1>2 DEF StateFollowsRecords
  <2>2. Append(<<>>, "INIT") = <<"INIT">>
    OBVIOUS
  <2>. QED  BY <1>1, <1>2, <2>1, <2>2, Zenon
<1>5. <<"INIT">> \in Seq({"INIT", "RAW_PKT"}) /\ <<"INIT">> # <<>>
  OBVIOUS
<1>6. /\ sent' \in [Conns -> Seq({"INIT", "RAW_PKT"})]
      /\ sent'[c] = <<"INIT">>
      /\ \A d \in Conns : d # c => sent'[d] = sent[d]
  BY <1>4, <1>5, Zenon DEF TypeOK
<1>7. /\ table'[f] = te /\ Tracked(f)'
      /\ \A g \in Flows : g # f => table'[g] = table[g] /\ (Tracked(g)' <=> Tracked(g))
  BY <1>1, <1>3 DEF Tracked, TypeOK
<1>8. TypeOK'
  BY <1>1, <1>6, SMTT(30) DEF TypeOK, StoredEntry
<1>9. SocketsTracked'
  BY <1>1, <1>2, <1>7 DEF SocketsTracked, TypeOK
<1>10. StateFollowsRecords'
  <2>1. \A g \in Flows : g # f /\ Tracked(g) /\ table[g].sock # None =>
          table[g].sock \in Conns /\ table[g].sock # c
    BY <1>2 DEF OwnSocket, TypeOK, Tracked, Entry
  <2>2. SUFFICES ASSUME NEW g \in Flows, Tracked(g)'
                 PROVE  IF table'[g].state = 5 THEN table'[g].sock # None /\ sent'[table'[g].sock] = <<"INIT">>
                        ELSE table'[g].sock # None => sent'[table'[g].sock] = <<>>
    BY SMTT(30) DEF StateFollowsRecords
  <2>3. CASE g = f
    BY <1>1, <1>2, <1>6, <1>7, <2>3
  <2>4. CASE g # f
    <3>1. Tracked(g) /\ table'[g] = table[g]
      BY <1>7, <2>2, <2>4
    <3>2. table[g].sock # None => sent'[table[g].sock] = sent[table[g].sock]
      BY <1>6, <2>1, <2>4, <3>1
    <3>3. IF table[g].state = 5 THEN table[g].sock # None /\ sent[table[g].sock] = <<"INIT">>
          ELSE table[g].sock # None => sent[table[g].sock] = <<>>
      BY <3>1, SMTT(30) DEF StateFollowsRecords
    <3>. QED  BY <3>1, <3>2, <3>3
  <2>. QED  BY <2>3, <2>4
<1>11. BlockOwned'
  <2>1. \A d \in Conns : sent[d] # <<>> => sent'[d] # <<>>
    BY <1>5, <1>6, Zenon
  <2>2. SUFFICES ASSUME bro' = "up", NEW g \in blocked' \ orphans', ~Tracked(g)'
                 PROVE  \E d \in Conns \ gone' : flowOf'[d] = g /\ sent'[d] # <<>>
    BY DEF BlockOwned
  <2>3. bro = "up" /\ g \in blocked \ orphans /\ ~Tracked(g)
    BY <1>1, <1>7, <2>2 DEF TypeOK
  <2>4. PICK d \in Conns \ gone : flowOf[d] = g /\ sent[d] # <<>>
    BY <2>3 DEF BlockOwned
  <2>. QED  BY <1>1, <2>1, <2>4
<1>12. OwnSocket'
  BY <1>1, <1>2, <1>7 DEF OwnSocket
<1>13. FreshSockets'
  BY <1>1, <1>2, <1>6, SMTT(30) DEF FreshSockets
<1>14. EndedBeforeHandOver'
  BY <1>1, <1>2, <1>7 DEF EndedBeforeHandOver
<1>. QED  BY <1>8, <1>9, <1>10, <1>11, <1>12, <1>13, <1>14

\* A tagged ClientHello keeps the invariant: the block has its entry, and the
\* socket, if it could be connected, is named by it.
LEMMA StartedInv ==
  ASSUME IInv, NEW f \in Flows, ~Tracked(f), Started(f), UNCHANGED gone
  PROVE  IInv'
<1>. USE NoneAssumption, EntryAssumption DEF IInv
<1>1. PICK c \in Conns :
        /\ phase[c] = "none"
        /\ \/ /\ phase' = [phase EXCEPT ![c] = "open"]
              /\ flowOf' = [flowOf EXCEPT ![c] = f]
              /\ table' = [table EXCEPT ![f] = [NewEntry EXCEPT !.sock = c]]
           \/ /\ phase' = [phase EXCEPT ![c] = "leaked"]
              /\ table' = [table EXCEPT ![f] = NewEntry]
              /\ UNCHANGED flowOf
  BY DEF Started, telex_init_bronnect
<1>2. /\ blocked' = blocked \cup {f} /\ orphans' = orphans \ {f}
      /\ UNCHANGED <<bro, sent>>
  BY DEF Started, telex_mod_block
<1>3. sent[c] = <<>> /\ c \notin gone
  BY <1>1 DEF FreshSockets
<1>4. PICK te \in StoredEntry :
        /\ table' = [table EXCEPT ![f] = te] /\ te.state = 1
        /\ \/ te.sock = c /\ phase' = [phase EXCEPT ![c] = "open"] /\ flowOf' = [flowOf EXCEPT ![c] = f]
           \/ te.sock = None /\ phase' = [phase EXCEPT ![c] = "leaked"] /\ UNCHANGED flowOf
  <2>1. NewEntry \in StoredEntry /\ NewEntry.state = 1 /\ NewEntry.sock = None
    BY DEF NewEntry, StoredEntry, Entry
  <2>2. /\ [NewEntry EXCEPT !.sock = c] \in StoredEntry
        /\ [NewEntry EXCEPT !.sock = c].state = 1 /\ [NewEntry EXCEPT !.sock = c].sock = c
    <3>1. \A x \in StoredEntry : /\ [x EXCEPT !.sock = c] \in StoredEntry
                                /\ [x EXCEPT !.sock = c].state = x.state
                                /\ [x EXCEPT !.sock = c].sock = c
      BY Zenon DEF StoredEntry, Entry
    <3>. QED  BY <2>1, <3>1
  <2>. QED  BY <1>1, <2>1, <2>2, Zenon
<1>5. te # None
  BY DEF StoredEntry
<1>6. /\ table'[f] = te /\ Tracked(f)'
      /\ \A g \in Flows : g # f => table'[g] = table[g] /\ (Tracked(g)' <=> Tracked(g))
  BY <1>4, <1>5 DEF Tracked, TypeOK
<1>7. \A g \in Flows : Tracked(g) /\ table[g].sock # None => table[g].sock \in Conns \ {c}
  BY <1>1 DEF OwnSocket, TypeOK, Tracked, Entry
<1>8. TypeOK'
  <2>1. table' \in [Flows -> {x \in Entry : x.state \in {1, 2, 4, 5} /\ x.do_fwd} \cup {None}]
    BY <1>4 DEF TypeOK, StoredEntry
  <2>2. /\ phase' \in [Conns -> {"none", "open", "closed", "leaked"}]
        /\ flowOf' \in [Conns -> Flows \cup {None}]
    <3>1. CASE phase' = [phase EXCEPT ![c] = "open"] /\ flowOf' = [flowOf EXCEPT ![c] = f]
      BY <3>1, Zenon DEF TypeOK
    <3>2. CASE phase' = [phase EXCEPT ![c] = "leaked"] /\ flowOf' = flowOf
      BY <3>2, Zenon DEF TypeOK
    <3>. QED  BY <1>4, <3>1, <3>2
  <2>3. blocked' \subseteq Flows /\ orphans' \subseteq blocked'
    BY <1>2 DEF TypeOK
  <2>. QED  BY <1>2, <2>1, <2>2, <2>3 DEF TypeOK
<1>9. SocketsTracked'
  BY <1>1, <1>4, <1>6 DEF SocketsTracked, TypeOK
<1>10. StateFollowsRecords'
  BY <1>2, <1>3, <1>4, <1>6, SMTT(30) DEF StateFollowsRecords
<1>11. BlockOwned'
  <2>1. \A d \in Conns : sent[d] # <<>> => d # c /\ flowOf'[d] = flowOf[d]
    BY <1>3, <1>4 DEF TypeOK
  <2>2. SUFFICES ASSUME bro' = "up", NEW g \in blocked' \ orphans', ~Tracked(g)'
                 PROVE  \E d \in Conns \ gone' : flowOf'[d] = g /\ sent'[d] # <<>>
    BY DEF BlockOwned
  <2>3. bro = "up" /\ g \in blocked \ orphans /\ ~Tracked(g)
    BY <1>2, <1>6, <2>2 DEF TypeOK
  <2>4. PICK d \in Conns \ gone : flowOf[d] = g /\ sent[d] # <<>>
    BY <2>3, SMTT(30) DEF BlockOwned
  <2>. QED  BY <1>2, <2>1, <2>4
<1>12. OwnSocket'
  BY <1>4, <1>6, <1>7 DEF OwnSocket, TypeOK
<1>13. FreshSockets'
  BY <1>2, <1>3, <1>4 DEF FreshSockets, TypeOK
<1>14. EndedBeforeHandOver'
  BY <1>2, <1>4, <1>6 DEF EndedBeforeHandOver
<1>. QED  BY <1>8, <1>9, <1>10, <1>11, <1>12, <1>13, <1>14

\* The end of the process keeps the invariant: its sockets end with it.
LEMMA DiesInv ==
  ASSUME IInv, NEW how \in {"exited", "crashed"}, Dies(how), UNCHANGED gone
  PROVE  IInv'
<1>. USE NoneAssumption, EntryAssumption DEF IInv, Dies
<1>1. \A g \in Flows : ~Tracked(g)'
  BY DEF Tracked
<1>2. \A c \in Conns : phase'[c] # "open" /\ (phase'[c] \in {"none", "leaked"} => phase'[c] = phase[c])
  BY DEF TypeOK
<1>3. TypeOK'
  BY DEF TypeOK
<1>4. SocketsTracked' /\ StateFollowsRecords' /\ OwnSocket' /\ EndedBeforeHandOver'
  BY <1>1, <1>2 DEF SocketsTracked, StateFollowsRecords, OwnSocket, EndedBeforeHandOver
<1>5. BlockOwned'
  BY DEF BlockOwned
<1>6. FreshSockets'
  BY <1>2 DEF FreshSockets
<1>. QED  BY <1>3, <1>4, <1>5, <1>6

\* bronnect's end of a connection keeps the invariant: it unblocks the flow it
\* was told, or gives it up (cleanup_connection_after_ssl).
LEMMA BronnectEndsInv ==
  ASSUME IInv, NEW c \in Conns, BronnectEnds(c)
  PROVE  IInv'
<1>. USE NoneAssumption, EntryAssumption DEF IInv
<1>1. /\ phase[c] \in {"open", "closed"} /\ gone' = gone \cup {c}
      /\ UNCHANGED <<bro, table, phase, sent, flowOf>>
  BY DEF BronnectEnds, detector, pipes
<1>2. /\ blocked' \ orphans' \subseteq blocked \ orphans
      /\ sent[c] # <<>> => flowOf[c] \notin blocked' \ orphans'
      /\ blocked' \subseteq Flows /\ orphans' \subseteq blocked'
  BY DEF BronnectEnds, telex_mod_block, TypeOK
<1>3. \A g \in Flows : Tracked(g)' <=> Tracked(g)
  BY <1>1 DEF Tracked
<1>4. TypeOK'
  BY <1>1, <1>2 DEF TypeOK
<1>5. SocketsTracked' /\ StateFollowsRecords' /\ OwnSocket'
  BY <1>1, <1>3 DEF SocketsTracked, StateFollowsRecords, OwnSocket, TypeOK
<1>6. FreshSockets'
  BY <1>1 DEF FreshSockets
<1>7. BlockOwned'
  <2>1. SUFFICES ASSUME bro' = "up", NEW g \in blocked' \ orphans', ~Tracked(g)'
                 PROVE  \E d \in Conns \ gone' : flowOf'[d] = g /\ sent'[d] # <<>>
    BY DEF BlockOwned
  <2>2. bro = "up" /\ g \in blocked \ orphans /\ ~Tracked(g)
    BY <1>1, <1>2, <1>3, <2>1 DEF TypeOK
  <2>3. PICK d \in Conns \ gone : flowOf[d] = g /\ sent[d] # <<>>
    BY <2>2 DEF BlockOwned
  <2>4. d # c
    BY <1>2, <2>1, <2>3
  <2>. QED  BY <1>1, <2>3, <2>4
<1>8. EndedBeforeHandOver'
  <2>1. SUFFICES ASSUME NEW g \in Flows, Tracked(g), table[g].state = 5, table[g].sock \in gone'
                 PROVE  g \notin blocked' \ orphans'
    BY <1>1, <1>3 DEF EndedBeforeHandOver
  <2>2. CASE table[g].sock \in gone
    BY <1>2, <2>1, <2>2 DEF EndedBeforeHandOver
  <2>3. CASE table[g].sock = c
    <3>1. flowOf[c] = g /\ sent[c] = <<"INIT">>
      BY <2>1, <2>3 DEF OwnSocket, StateFollowsRecords
    <3>2. sent[c] # <<>>
      BY <3>1
    <3>. QED  BY <1>2, <3>1, <3>2
  <2>. QED  BY <1>1, <2>1, <2>2, <2>3
<1>. QED  BY <1>4, <1>5, <1>6, <1>7, <1>8

\* One effect keeps the invariant, whichever it is.
LEMMA EffectInv ==
  ASSUME IInv, NEW f \in Flows, Effect(f), UNCHANGED gone
  PROVE  IInv'
BY KeptInv, ExpiredInv, GivenUpInv, ToldInv, HandedOverInv, StartedInv DEF Effect

\* What a step of the detector or of bronnect can be.
LEMMA StepCases ==
  ASSUME IInv, QueueOK, [Next]_vars
  PROVE  \/ UNCHANGED <<bro, table, phase, sent, flowOf, gone, blocked, orphans>>
         \/ UNCHANGED gone /\ \E f \in Flows : Effect(f)
         \/ UNCHANGED gone /\ \E how \in {"exited", "crashed"} : Dies(how)
         \/ \E c \in Conns : BronnectEnds(c)
<1>1. CASE Handle
  BY <1>1, HandlerEffect DEF Ignore
<1>2. CASE Exit
  BY <1>2 DEF Exit
<1>3. ASSUME NEW f \in Flows, Expire(f)
      PROVE  UNCHANGED gone /\ Effect(f)
  BY <1>3, SMTT(30) DEF Expire, Effect, Expired
<1>4. ASSUME NEW f \in Flows,
             ConnectionEnds(f) \/ Missed(f) \/ ClientPacket(f) \/ ServerPacket(f) \/ OtherPacket(f)
      PROVE  UNCHANGED <<bro, table, phase, sent, flowOf, gone, blocked, orphans>>
  BY <1>4, Zenon DEF ConnectionEnds, Missed, ClientPacket, ServerPacket, OtherPacket,
     Arrives, pipes
<1>5. CASE UNCHANGED vars
  BY <1>5 DEF vars
<1>. QED  BY <1>1, <1>2, <1>3, <1>4, <1>5 DEF Next

\* The inductive invariant holds in every state of the detector.
THEOREM DetectorInvariance == Spec => [](IInv /\ QueueOK)
<1>1. Init => IInv /\ QueueOK
  <2>1. SUFFICES ASSUME Init PROVE IInv /\ QueueOK
    OBVIOUS
  <2>2. TypeOK
    <3>1. <<>> \in Seq({"INIT", "RAW_PKT"})
      OBVIOUS
    <3>. QED  BY <2>1, <3>1 DEF Init, TypeOK
  <2>3. \A f \in Flows : ~Tracked(f)
    BY <2>1, Zenon DEF Init, Tracked
  <2>4. SocketsTracked /\ StateFollowsRecords /\ BlockOwned
    BY <2>1, <2>3 DEF Init, SocketsTracked, StateFollowsRecords, BlockOwned
  <2>5. OwnSocket /\ FreshSockets /\ EndedBeforeHandOver
    BY <2>1, <2>3 DEF Init, OwnSocket, FreshSockets, EndedBeforeHandOver
  <2>6. QueueOK
    BY <2>1 DEF Init, QueueOK
  <2>. QED  BY <2>2, <2>4, <2>5, <2>6 DEF IInv
<1>2. IInv /\ QueueOK /\ [Next]_vars => (IInv /\ QueueOK)'
  <2>1. SUFFICES ASSUME IInv, QueueOK, [Next]_vars PROVE IInv' /\ QueueOK'
    OBVIOUS
  <2>2. QueueOK'
    BY <2>1, QueueStep
  <2>3. CASE UNCHANGED <<bro, table, phase, sent, flowOf, gone, blocked, orphans>>
    <3>1. TypeOK' /\ SocketsTracked' /\ StateFollowsRecords'
      BY <2>1, <2>3, Zenon DEF IInv, TypeOK, SocketsTracked, StateFollowsRecords, Tracked
    <3>2. BlockOwned'
      BY <2>1, <2>3 DEF IInv, BlockOwned, Tracked
    <3>3. OwnSocket' /\ FreshSockets'
      BY <2>1, <2>3, SMTT(30) DEF IInv, OwnSocket, FreshSockets, Tracked
    <3>4. EndedBeforeHandOver'
      BY <2>1, <2>3 DEF IInv, EndedBeforeHandOver, Tracked
    <3>. QED  BY <2>2, <3>1, <3>2, <3>3, <3>4 DEF IInv
  <2>. QED  BY <2>1, <2>2, <2>3, StepCases, EffectInv, DiesInv, BronnectEndsInv
<1>. QED  BY <1>1, <1>2, PTL DEF Spec

\* Types, and that states 3, 6 and 7 are never found in telex_table.
THEOREM DetectorTypes == Spec => []TypeOK
<1>1. IInv => TypeOK
  BY DEF IInv
<1>. QED  BY <1>1, DetectorInvariance, PTL

\* No connected socket to bronnect is forgotten (cleanup_telex_obj).
THEOREM SocketsTrackedHolds == Spec => []SocketsTracked
<1>1. IInv => SocketsTracked
  BY DEF IInv
<1>. QED  BY <1>1, DetectorInvariance, PTL

\* State 5 and one INIT record go together (ssl_handshake).
THEOREM StateFollowsRecordsHolds == Spec => []StateFollowsRecords
<1>1. IInv => StateFollowsRecords
  BY DEF IInv
<1>. QED  BY <1>1, DetectorInvariance, PTL

\* Every block has an owner (telex_mod_block, new_packet_final), except those
\* given up.
THEOREM BlockOwnedHolds == Spec => []BlockOwned
<1>1. IInv => BlockOwned
  BY DEF IInv
<1>. QED  BY <1>1, DetectorInvariance, PTL

-----------------------------------------------------------------------------
(* The detector implements Brotocol.                                       *)

\* Two records on a socket, one after the other.
LEMMA AppendTwo ==
  ASSUME NEW a, NEW b
  PROVE  Append(<<a>>, b) = <<a, b>>
<1>1. \A s \in Seq({a, b}) :
        /\ Append(s, b) \in Seq({a, b}) /\ Len(Append(s, b)) = Len(s) + 1
        /\ \A i \in 1..Len(s) : Append(s, b)[i] = s[i] /\ Append(s, b)[Len(s) + 1] = b
  OBVIOUS
<1>2. <<a>> \in Seq({a, b}) /\ Len(<<a>>) = 1 /\ <<a>>[1] = a
  OBVIOUS
<1>3. /\ Append(<<a>>, b) \in Seq({a, b}) /\ Len(Append(<<a>>, b)) = 2
      /\ Append(<<a>>, b)[1] = a /\ Append(<<a>>, b)[2] = b
  BY <1>1, <1>2
<1>4. \A u \in Seq({a, b}) : Len(u) = 2 => u = <<u[1], u[2]>>
  OBVIOUS
<1>. QED  BY <1>3, <1>4, Zenon

\* A step of the detector is a step of the protocol between Bro and bronnect
\* on one socket, the end of all of them, or no step of it.
LEMMA PeerStep ==
  ASSUME IInv, QueueOK, [Next]_vars
  PROVE  [Peer!Next]_<<PeerPhase, sent>>
<1>. USE NoneAssumption, EntryAssumption DEF IInv
<1>1. CASE UNCHANGED <<phase, sent>>
  BY <1>1 DEF PeerPhase
<1>2. ASSUME NEW f \in Flows, Tracked(f), table[f].sock # None, cleanup_telex_obj(table[f]), UNCHANGED sent
      PROVE  Peer!Next
  <2>1. PICK c \in Conns : c = table[f].sock /\ phase[c] = "open" /\ phase' = [phase EXCEPT ![c] = "closed"]
    <3>1. table[f].sock \in Conns /\ phase[table[f].sock] = "open"
      BY <1>2 DEF OwnSocket, TypeOK, Tracked, Entry
    <3>. QED  BY <1>2, <3>1, Zenon DEF cleanup_telex_obj
  <2>2. PeerPhase[c] = "open" /\ PeerPhase' = [PeerPhase EXCEPT ![c] = "closed"]
    BY <2>1, Zenon DEF PeerPhase, TypeOK
  <2>3. Peer!Close(c)
    BY <1>2, <2>2 DEF Peer!Close
  <2>. QED  BY <2>3 DEF Peer!Next
<1>3. ASSUME NEW f \in Flows, Tracked(f), cleanup_telex_obj(table[f]), UNCHANGED sent
      PROVE  [Peer!Next]_<<PeerPhase, sent>>
  <2>1. CASE table[f].sock = None
    BY <1>1, <1>3, <2>1 DEF cleanup_telex_obj
  <2>. QED  BY <1>2, <1>3, <2>1
<1>4. ASSUME NEW f \in Flows, Tracked(f), Kept(f)
      PROVE  [Peer!Next]_<<PeerPhase, sent>>
  BY <1>1, <1>4 DEF Kept, Store
<1>5. ASSUME NEW f \in Flows, Tracked(f), Expired(f) \/ GivenUp(f)
      PROVE  [Peer!Next]_<<PeerPhase, sent>>
  BY <1>3, <1>5, Zenon DEF Expired, do_expire, GivenUp
<1>6. ASSUME NEW f \in Flows, Tracked(f), Told(f)
      PROVE  Peer!Next
  <2>1. PICK c \in Conns : /\ c = table[f].sock /\ phase[c] = "open" /\ sent[c] = <<>>
                           /\ sent' = [sent EXCEPT ![c] = Append(@, "INIT")] /\ UNCHANGED phase
    <3>1. PICK te \in StoredEntry :
            /\ te.sock = table[f].sock /\ te.sock \in Conns \ gone /\ table[f].state # 5
            /\ sent' = [sent EXCEPT ![te.sock] = Append(@, "INIT")] /\ UNCHANGED phase
      BY <1>6, Zenon DEF Told
    <3>2. te.sock \in Conns /\ phase[te.sock] = "open" /\ sent[te.sock] = <<>>
      BY <1>6, <3>1 DEF OwnSocket, StateFollowsRecords
    <3>. QED  BY <3>1, <3>2, Zenon
  <2>2. PeerPhase[c] = "open" /\ UNCHANGED PeerPhase
    BY <2>1 DEF PeerPhase
  <2>3. sent' = [sent EXCEPT ![c] = <<"INIT">>]
    <3>1. Append(<<>>, "INIT") = <<"INIT">>
      OBVIOUS
    <3>. QED  BY <2>1, <3>1, Zenon
  <2>4. Peer!SendInit(c)
    BY <2>1, <2>2, <2>3, Zenon DEF Peer!SendInit
  <2>. QED  BY <2>4 DEF Peer!Next
<1>7. ASSUME NEW f \in Flows, Tracked(f), HandedOver(f)
      PROVE  [Peer!Next]_<<PeerPhase, sent>>
  <2>1. PICK c \in Conns : c = table[f].sock /\ c # None /\ phase[c] = "open" /\ sent[c] = <<"INIT">>
    BY <1>7, SMTT(30) DEF HandedOver, StateFollowsRecords, OwnSocket, TypeOK, Tracked,
       Entry
  <2>2. CASE c \in gone
    BY <1>3, <1>7, <2>1, <2>2 DEF HandedOver
  <2>3. CASE c \notin gone
    <3>1. /\ sent' = [sent EXCEPT ![c] = Append(@, "RAW_PKT")]
          /\ phase' = [phase EXCEPT ![c] = "closed"]
      BY <1>7, <2>1, <2>3 DEF HandedOver, cleanup_telex_obj
    <3>2. Append(<<"INIT">>, "RAW_PKT") = <<"INIT", "RAW_PKT">>
      BY AppendTwo, Zenon
    <3>3. sent' = [sent EXCEPT ![c] = <<"INIT", "RAW_PKT">>]
      BY <2>1, <3>1, <3>2, Zenon
    <3>4. PeerPhase[c] = "open" /\ PeerPhase' = [PeerPhase EXCEPT ![c] = "closed"]
      BY <2>1, <3>1, Zenon DEF PeerPhase, TypeOK
    <3>5. Peer!HandOver(c)
      BY <2>1, <3>3, <3>4, Zenon DEF Peer!HandOver
    <3>. QED  BY <3>5 DEF Peer!Next
  <2>. QED  BY <2>2, <2>3, SMTT(30)
<1>8. ASSUME NEW f \in Flows, Started(f)
      PROVE  [Peer!Next]_<<PeerPhase, sent>>
  <2>1. PICK c \in Conns : /\ phase[c] = "none" /\ UNCHANGED sent
                           /\ \/ phase' = [phase EXCEPT ![c] = "open"]
                              \/ phase' = [phase EXCEPT ![c] = "leaked"]
    BY <1>8 DEF Started, telex_init_bronnect
  <2>2. CASE phase' = [phase EXCEPT ![c] = "leaked"]
    <3>1. PeerPhase' = PeerPhase
      BY <2>1, <2>2 DEF PeerPhase, TypeOK
    <3>. QED  BY <2>1, <3>1
  <2>3. CASE phase' = [phase EXCEPT ![c] = "open"]
    <3>1. PeerPhase[c] = "none" /\ PeerPhase' = [PeerPhase EXCEPT ![c] = "open"]
      BY <2>1, <2>3, Zenon DEF PeerPhase, TypeOK
    <3>2. Peer!Connect(c)
      BY <2>1, <3>1 DEF Peer!Connect
    <3>. QED  BY <3>2 DEF Peer!Next
  <2>. QED  BY <2>1, <2>2, <2>3
<1>9. ASSUME NEW how, Dies(how)
      PROVE  Peer!Next
  <2>1. PeerPhase' = [c \in Conns |-> IF PeerPhase[c] = "open" THEN "closed" ELSE PeerPhase[c]]
    BY <1>9 DEF Dies, PeerPhase, TypeOK
  <2>2. Peer!Exit
    BY <1>9, <2>1 DEF Dies, Peer!Exit
  <2>. QED  BY <2>2 DEF Peer!Next
<1>10. CASE \E c \in Conns : BronnectEnds(c)
  BY <1>1, <1>10 DEF BronnectEnds, pipes
<1>. QED  BY <1>1, <1>4, <1>5, <1>6, <1>7, <1>8, <1>9, <1>10, StepCases DEF Effect

\* Bro keeps the record protocol on every socket to bronnect: the detector
\* implements Brotocol, with a socket that could not be connected taken for
\* one that does not exist.
THEOREM BrotocolFollowedHolds == Spec => BrotocolFollowed
<1>1. Init => Peer!Init
  BY DEF Init, Peer!Init, PeerPhase
<1>2. IInv /\ QueueOK /\ [Next]_vars => [Peer!Next]_<<PeerPhase, sent>>
  BY PeerStep
<1>. QED  BY <1>1, <1>2, DetectorInvariance, PTL DEF Spec, BrotocolFollowed, Peer!Spec

-----------------------------------------------------------------------------
(* A crash needs a packet that is missing from the copy.                   *)

\* Event e is in the sequence q of events.
In(q, e) == \E k \in 1..Len(q) : q[k] = e

\* Pending, by its definition.
LEMMA PendingIn ==
  /\ \A ev, f, is : Pending(ev, f, is) <=> In(queue, Event(ev, f, is))
  /\ \A ev, f, is : Pending(ev, f, is)' <=> In(queue', Event(ev, f, is))
BY Zenon DEF Pending, In, Event

\* Handling the first event leaves the others.
LEMMA InTail ==
  ASSUME NEW q \in Seq(EventType), q # <<>>, NEW e
  PROVE  In(q, e) <=> (e = Head(q) \/ In(Tail(q), e))
<1>1. Len(q) \in Nat /\ Len(q) >= 1 /\ Len(Tail(q)) = Len(q) - 1 /\ Head(q) = q[1]
  OBVIOUS
<1>2. \A k \in 1..Len(q) - 1 : Tail(q)[k] = q[k + 1]
  OBVIOUS
<1>3. ASSUME In(q, e) PROVE e = Head(q) \/ In(Tail(q), e)
  <2>1. PICK k \in 1..Len(q) : q[k] = e
    BY <1>3 DEF In
  <2>2. CASE k = 1
    BY <1>1, <2>1, <2>2
  <2>3. CASE k # 1
    <3>1. k - 1 \in 1..Len(q) - 1 /\ Tail(q)[k - 1] = q[(k - 1) + 1] /\ (k - 1) + 1 = k
      BY <1>1, <1>2, <2>1, <2>3
    <3>. QED  BY <1>1, <2>1, <3>1 DEF In
  <2>. QED  BY <2>2, <2>3
<1>4. ASSUME e = Head(q) PROVE In(q, e)
  BY <1>1, <1>4 DEF In
<1>5. ASSUME In(Tail(q), e) PROVE In(q, e)
  <2>1. PICK k \in 1..Len(q) - 1 : Tail(q)[k] = e
    BY <1>1, <1>5 DEF In
  <2>2. k + 1 \in 1..Len(q) /\ q[k + 1] = e
    BY <1>1, <1>2, <2>1
  <2>. QED  BY <2>2 DEF In
<1>. QED  BY <1>3, <1>4, <1>5

\* What a packet adds: its events, then new_packet_final.
LEMMA InAppend ==
  ASSUME NEW q \in Seq(EventType), NEW d \in EventType, NEW e
  PROVE  In(Append(q, d), e) <=> (In(q, e) \/ e = d)
<1>1. Len(q) \in Nat /\ Len(Append(q, d)) = Len(q) + 1 /\ Append(q, d)[Len(q) + 1] = d
  OBVIOUS
<1>2. \A k \in 1..Len(q) : Append(q, d)[k] = q[k]
  OBVIOUS
<1>. HIDE DEF In
<1>3. ASSUME In(Append(q, d), e) PROVE In(q, e) \/ e = d
  <2>1. PICK k \in 1..Len(q) + 1 : Append(q, d)[k] = e
    BY <1>1, <1>3 DEF In
  <2>. QED  BY <1>1, <1>2, <2>1 DEF In
<1>4. ASSUME In(q, e) PROVE In(Append(q, d), e)
  <2>1. PICK k \in 1..Len(q) : q[k] = e
    BY <1>4 DEF In
  <2>. QED  BY <1>1, <1>2, <2>1 DEF In
<1>5. In(Append(q, d), d)
  BY <1>1 DEF In
<1>. QED  BY <1>3, <1>4, <1>5

\* Two records in a packet.
LEMMA InJoin ==
  ASSUME NEW q \in Seq(EventType), NEW r \in Seq(EventType), NEW e
  PROVE  In(q \o r, e) <=> (In(q, e) \/ In(r, e))
<1>1. Len(q) \in Nat /\ Len(r) \in Nat /\ Len(q \o r) = Len(q) + Len(r)
  OBVIOUS
<1>2. /\ \A k \in 1..Len(q) : (q \o r)[k] = q[k]
      /\ \A k \in 1..Len(r) : (q \o r)[Len(q) + k] = r[k]
  BY <1>1
<1>3. ASSUME In(q \o r, e) PROVE In(q, e) \/ In(r, e)
  <2>1. PICK k \in 1..Len(q) + Len(r) : (q \o r)[k] = e
    BY <1>1, <1>3 DEF In
  <2>2. CASE k <= Len(q)
    BY <1>1, <1>2, <2>1, <2>2 DEF In
  <2>3. CASE k > Len(q)
    <3>1. k - Len(q) \in 1..Len(r) /\ Len(q) + (k - Len(q)) = k
      BY <1>1, <2>1, <2>3
    <3>. QED  BY <1>2, <2>1, <3>1 DEF In
  <2>. QED  BY <1>1, <2>1, <2>2, <2>3
<1>4. ASSUME In(q, e) PROVE In(q \o r, e)
  <2>1. PICK k \in 1..Len(q) : q[k] = e
    BY <1>4 DEF In
  <2>2. k \in 1..Len(q \o r) /\ (q \o r)[k] = e
    BY <1>1, <1>2, <2>1
  <2>. QED  BY <2>2 DEF In
<1>5. ASSUME In(r, e) PROVE In(q \o r, e)
  <2>1. PICK k \in 1..Len(r) : r[k] = e
    BY <1>5 DEF In
  <2>2. Len(q) + k \in 1..Len(q \o r) /\ (q \o r)[Len(q) + k] = e
    BY <1>1, <1>2, <2>1
  <2>. QED  BY <2>2 DEF In
<1>. QED  BY <1>3, <1>4, <1>5

\* What setting one field leaves of the ones that INIT is built from: the
\* server's random,
LEMMA SetSrand ==
  ASSUME NEW te \in StoredEntry, NEW new, new = [te EXCEPT !.srand = TRUE]
  PROVE  new \in StoredEntry /\ new.state = te.state /\ new.srand /\ new.civ = te.civ
BY Zenon DEF StoredEntry, Entry

\* the server's key,
LEMMA SetP ==
  ASSUME NEW te \in StoredEntry, NEW new, new = [te EXCEPT !.p = TRUE]
  PROVE  new \in StoredEntry /\ new.state = te.state /\ new.srand = te.srand /\ new.civ = te.civ
BY Zenon DEF StoredEntry, Entry

\* the IV of the client or of the server,
LEMMA SetIV ==
  ASSUME NEW te \in StoredEntry, NEW new
  PROVE  /\ new = [te EXCEPT !.civ = TRUE] =>
              new \in StoredEntry /\ new.state = te.state /\ new.srand = te.srand /\ new.civ
         /\ new = [te EXCEPT !.siv = TRUE] =>
              /\ new \in StoredEntry /\ new.state = te.state /\ new.srand = te.srand
              /\ new.civ = te.civ /\ new.siv
BY Zenon DEF StoredEntry, Entry

\* the time of the packet,
LEMMA SetPast ==
  ASSUME NEW te \in StoredEntry, NEW b, NEW new, new = [te EXCEPT !.past = b]
  PROVE  new.state = te.state /\ new.srand = te.srand /\ new.civ = te.civ
BY Zenon DEF StoredEntry, Entry

PutState(te, n) == [te EXCEPT !.state = n]

\* or the state.
LEMMA SetState ==
  ASSUME NEW te \in StoredEntry, NEW n
  PROVE  /\ PutState(te, n).state = n /\ PutState(te, n).srand = te.srand
         /\ PutState(te, n).civ = te.civ
BY Zenon DEF PutState, StoredEntry, Entry

\* What the handler of event e does to an entry that it keeps.
Grows(old, new, e) ==
  /\ old.srand => new.srand
  /\ old.civ => new.civ
  /\ old.state >= 2 => new.state >= 2
  /\ e.ev = "ssl_conn_server_reply" => new.srand
  /\ e.ev = "change_cipher" /\ e.is => new.state >= 2
  /\ e.ev = "handshake" /\ e.is /\ old.state >= 2 => new.civ
  /\ new.state = 4 => old.state = 4 \/ (e.ev = "change_cipher" /\ ~e.is)

\* ... to the entry of its flow, that it keeps, drops or starts.
Touches(old, new, e) ==
  /\ old # None /\ new # None => Grows(old, new, e)
  /\ old = None /\ new # None => e.ev = "ssl_conn_attempt" /\ new.state = 1
  /\ e.ev = "connection_state_remove" => new = None

\* ... when it dereferences a field that is not set.
Derefs(te, e) ==
  /\ te # None /\ te.state = 4 /\ e.ev = "handshake"
  /\ ~(te.srand /\ te.civ /\ ~e.is)

\* Storing a new entry.
LEMMA Stored ==
  ASSUME table \in [Flows -> StoredEntry \cup {None}], NEW f \in Flows, NEW te,
         table' = [table EXCEPT ![f] = te]
  PROVE  table'[f] = te /\ \A g \in Flows : g # f => table'[g] = table[g]
OBVIOUS

\* ssl_handshake: the IV it adds, and what it does with the entry then.
LEMMA HandshakeTouches ==
  ASSUME IInv, NEW f \in Flows, NEW e \in EventType, e.ev = "handshake", bro = "up",
         ssl_handshake(f, e.is)
  PROVE  \/ /\ bro' = "up" /\ Touches(table[f], table'[f], e)
            /\ \A g \in Flows : g # f => table'[g] = table[g]
         \/ bro' = "crashed" /\ Derefs(table[f], e) /\ \A g \in Flows : table'[g] = None
<1>. DEFINE T == table[f]
            te == WithIV(T, e.is)
<1>1. table \in [Flows -> StoredEntry \cup {None}]
  BY DEF IInv, TypeOK, StoredEntry
<1>2. e.is \in BOOLEAN
  BY Zenon DEF EventType
<1>3. CASE ~Tracked(f)
  BY <1>3 DEF ssl_handshake, Ignore, Tracked, Touches
<1>4. CASE Tracked(f)
  <2>1. T \in StoredEntry /\ T # None /\ T.state \in {1, 2, 4, 5}
    BY <1>1, <1>4, SMTT(40) DEF Tracked, StoredEntry
  <2>2. /\ te \in StoredEntry /\ te.state = T.state
        /\ T.srand <=> te.srand
        /\ T.civ => te.civ
        /\ e.is /\ T.state >= 2 => te.civ
        /\ ~e.is /\ T.state >= 3 => te.siv
    <3>1. CASE T.state >= 2 /\ e.is
      <4>1. te = [T EXCEPT !.civ = TRUE]
        BY <3>1 DEF WithIV
      <4>. HIDE DEF te
      <4>2. te \in StoredEntry /\ te.state = T.state /\ te.srand = T.srand /\ te.civ
        BY <2>1, <4>1, SetIV, Zenon
      <4>. HIDE DEF T
      <4>. QED  BY <3>1, <4>2
    <3>2. CASE T.state >= 3 /\ ~e.is
      <4>1. te = [T EXCEPT !.siv = TRUE]
        BY <3>2 DEF WithIV
      <4>. HIDE DEF te
      <4>2. /\ te \in StoredEntry /\ te.state = T.state /\ te.srand = T.srand
            /\ te.civ = T.civ /\ te.siv
        BY <2>1, <4>1, SetIV, Zenon
      <4>. HIDE DEF T
      <4>. QED  BY <3>2, <4>2
    <3>3. CASE ~(T.state >= 2 /\ e.is) /\ ~(T.state >= 3 /\ ~e.is)
      <4>1. te = T
        BY <3>3 DEF WithIV
      <4>. HIDE DEF te
      <4>. QED  BY <2>1, <3>3, <4>1, Zenon
    <3>. QED  BY <3>1, <3>2, <3>3, Zenon
  <2>3. \/ te.state # 4 /\ Store(f, te)
        \/ te.state = 4 /\ Dereferences(te) /\ Dies("crashed")
        \/ do_expire(f)
        \/ /\ te.state = 4 /\ table' = [table EXCEPT ![f] = [te EXCEPT !.state = 5]]
           /\ UNCHANGED bro
    BY <1>4 DEF ssl_handshake
  <2>. HIDE DEF te, T
  <2>4. CASE te.state # 4 /\ Store(f, te)
    <3>1. /\ table'[f] = te /\ UNCHANGED bro
          /\ \A g \in Flows : g # f => table'[g] = table[g]
      BY <1>1, <2>4, Stored, Zenon DEF Store
    <3>2. Touches(T, te, e)
      BY <2>1, <2>2, <2>4 DEF Touches, Grows
    <3>. QED  BY <3>1, <3>2 DEF T
  <2>5. CASE te.state = 4 /\ Dereferences(te) /\ Dies("crashed")
    <3>1. bro' = "crashed" /\ \A g \in Flows : table'[g] = None
      BY <2>5 DEF Dies
    <3>2. Derefs(T, e)
      BY <1>2, <2>1, <2>2, <2>5, SMTT(40) DEF Derefs, Dereferences
    <3>. QED  BY <3>1, <3>2 DEF T
  <2>6. CASE do_expire(f)
    <3>1. /\ table'[f] = None /\ UNCHANGED bro
          /\ \A g \in Flows : g # f => table'[g] = table[g]
      BY <1>1, <2>6, Stored, Zenon DEF do_expire
    <3>2. Touches(T, None, e)
      BY DEF Touches
    <3>. QED  BY <3>1, <3>2 DEF T
  <2>7. CASE te.state = 4 /\ table' = [table EXCEPT ![f] = [te EXCEPT !.state = 5]] /\ UNCHANGED bro
    <3>1. PICK new : new = PutState(te, 5)
      OBVIOUS
    <3>2. new.state = 5 /\ new.srand = te.srand /\ new.civ = te.civ
      BY <2>2, <3>1, SetState
    <3>3. table'[f] = new /\ \A g \in Flows : g # f => table'[g] = table[g]
      BY <1>1, <2>7, <3>1, Stored, Zenon DEF PutState
    <3>4. Touches(T, new, e)
      BY <2>1, <2>2, <2>7, <3>2 DEF Touches, Grows
    <3>. QED  BY <2>7, <3>3, <3>4 DEF T
  <2>. QED  BY <2>3, <2>4, <2>5, <2>6, <2>7
<1>. QED  BY <1>3, <1>4

\* Every other handler keeps the process up.
LEMMA OthersTouch ==
  ASSUME IInv, NEW e \in EventType, NEW f \in Flows, bro = "up", e.ev # "handshake",
         \/ e.ev = "ssl_conn_attempt" /\ \E tagged \in BOOLEAN : ssl_conn_attempt(f, tagged)
         \/ e.ev = "ssl_conn_server_reply" /\ ssl_conn_server_reply(f)
         \/ e.ev = "ssl_server_key_exchange" /\ ssl_server_key_exchange(f)
         \/ e.ev = "ssl_conn_alert" /\ ssl_conn_alert(f, e.is)
         \/ e.ev = "change_cipher" /\ ssl_change_cipher(f, e.is)
         \/ e.ev = "app_data" /\ ssl_app_data(f)
         \/ e.ev = "new_packet_final" /\ new_packet_final(f, e.is)
         \/ e.ev = "connection_state_remove" /\ connection_state_remove(f)
  PROVE  /\ bro' = "up" /\ Touches(table[f], table'[f], e)
         /\ \A g \in Flows : g # f => table'[g] = table[g]
<1>. DEFINE T == table[f]
            Only(te) == /\ bro' = "up" /\ table'[f] = te
                        /\ \A g \in Flows : g # f => table'[g] = table[g]
            Goal == /\ bro' = "up" /\ Touches(T, table'[f], e)
                    /\ \A g \in Flows : g # f => table'[g] = table[g]
<1>1. table \in [Flows -> StoredEntry \cup {None}]
  BY DEF IInv, TypeOK, StoredEntry
<1>2. e.is \in BOOLEAN
  BY Zenon DEF EventType
<1>3. Tracked(f) => T \in StoredEntry /\ T # None /\ T.state \in {1, 2, 4, 5}
  BY <1>1, <1>2 DEF Tracked, StoredEntry
<1>4. Tracked(f) <=> T # None
  BY DEF Tracked
<1>5. ASSUME NEW te, Store(f, te) PROVE Only(te)
  BY <1>1, <1>2, <1>5, Stored, Zenon DEF Store
<1>6. ASSUME do_expire(f) PROVE Only(None)
  BY <1>1, <1>2, <1>6, Stored, Zenon DEF do_expire
<1>. HIDE DEF T
<1>7. ASSUME NEW te, Only(te), Touches(T, te, e) PROVE Goal
  BY <1>7, SMTT(40)
<1>8. ASSUME Ignore, e.ev \notin {"handshake", "ssl_conn_server_reply", "change_cipher"},
             e.ev = "connection_state_remove" => ~Tracked(f)
      PROVE  Goal
  <2>1. Only(T)
    BY <1>8 DEF Ignore, T
  <2>2. Touches(T, T, e)
    BY <1>4, <1>8 DEF Touches, Grows
  <2>. QED  BY <1>7, <2>1, <2>2
<1>9. ASSUME Ignore, ~Tracked(f) PROVE Goal
  <2>1. Only(T)
    BY <1>9 DEF Ignore, T
  <2>2. Touches(T, T, e)
    BY <1>4, <1>9, SMTT(40) DEF Touches
  <2>. QED  BY <1>7, <2>1, <2>2
<1>10. ASSUME do_expire(f) PROVE Goal
  <2>1. Touches(T, None, e)
    BY DEF Touches
  <2>. QED  BY <1>6, <1>7, <1>10, <2>1
<1>. HIDE DEF Goal, Only
<1>11. ASSUME NEW tagged \in BOOLEAN, ssl_conn_attempt(f, tagged), e.ev = "ssl_conn_attempt"
       PROVE  Goal
  <2>1. CASE Tracked(f) \/ ~tagged
    <3>1. Ignore
      BY <1>11, <2>1, Zenon DEF ssl_conn_attempt
    <3>. QED  BY <1>8, <1>11, <3>1
  <2>2. CASE ~Tracked(f) /\ tagged
    <3>1. bro' = "up" /\ telex_init_bronnect(f, NewEntry)
      BY <1>11, <2>2 DEF ssl_conn_attempt, NewEntry
    <3>2. \E te : te.state = 1 /\ table' = [table EXCEPT ![f] = te]
      <4>1. NewEntry.state = 1 /\ \A c : [NewEntry EXCEPT !.sock = c].state = 1
        BY Zenon DEF NewEntry
      <4>. QED  BY <3>1, <4>1, Zenon DEF telex_init_bronnect
    <3>3. PICK te : te.state = 1 /\ table' = [table EXCEPT ![f] = te]
      BY <3>2, Zenon
    <3>4. Only(te)
      BY <1>1, <3>1, <3>3, Stored, Zenon DEF Only
    <3>5. Touches(T, te, e)
      BY <1>4, <1>11, <2>2, <3>3 DEF Touches
    <3>. QED  BY <1>7, <3>4, <3>5, Zenon
  <2>. QED  BY <2>1, <2>2
<1>12. ASSUME e.ev = "ssl_conn_server_reply", ssl_conn_server_reply(f) PROVE Goal
  <2>1. CASE ~Tracked(f)
    BY <1>9, <1>12, <2>1 DEF ssl_conn_server_reply
  <2>2. CASE Tracked(f)
    <3>1. PICK te : te = [T EXCEPT !.srand = TRUE]
      BY Zenon
    <3>2. te.state = T.state /\ te.srand /\ te.civ = T.civ
      BY <1>3, <2>2, <3>1, SetSrand, Zenon
    <3>3. Only(te)
      BY <1>5, <1>12, <2>2, <3>1, Zenon DEF ssl_conn_server_reply, T
    <3>4. Touches(T, te, e)
      BY <1>3, <1>12, <2>2, <3>2 DEF Touches, Grows
    <3>. QED  BY <1>7, <3>3, <3>4, Zenon
  <2>. QED  BY <2>1, <2>2
<1>13. ASSUME e.ev = "ssl_server_key_exchange", ssl_server_key_exchange(f) PROVE Goal
  <2>1. CASE ~Tracked(f)
    BY <1>9, <1>13, <2>1 DEF ssl_server_key_exchange
  <2>2. CASE Tracked(f)
    <3>1. PICK te : te = [T EXCEPT !.p = TRUE]
      BY Zenon
    <3>2. te.state = T.state /\ te.srand = T.srand /\ te.civ = T.civ
      BY <1>3, <2>2, <3>1, SetP, Zenon
    <3>3. Only(te)
      BY <1>5, <1>13, <2>2, <3>1, Zenon DEF ssl_server_key_exchange, T
    <3>4. Touches(T, te, e)
      BY <1>3, <1>13, <2>2, <3>2 DEF Touches, Grows
    <3>. QED  BY <1>7, <3>3, <3>4, Zenon
  <2>. QED  BY <2>1, <2>2
<1>14. ASSUME e.ev = "ssl_conn_alert", ssl_conn_alert(f, e.is) PROVE Goal
  <2>1. CASE ~e.is \/ ~Tracked(f)
    BY <1>8, <1>14, <2>1 DEF ssl_conn_alert
  <2>2. CASE ~(~e.is \/ ~Tracked(f))
    <3>1. table' = [table EXCEPT ![f] = None] /\ bro' = "up"
      BY <1>14, <2>2 DEF ssl_conn_alert
    <3>2. Only(None)
      BY <1>1, <3>1, Stored, Zenon DEF Only
    <3>3. Touches(T, None, e)
      BY DEF Touches
    <3>. QED  BY <1>7, <3>2, <3>3, Zenon
  <2>. QED  BY <2>1, <2>2
<1>15. ASSUME e.ev = "change_cipher", ssl_change_cipher(f, e.is) PROVE Goal
  <2>1. ASSUME NEW n \in {2, 4}, Tracked(f), Store(f, [T EXCEPT !.state = n]),
               n = 4 => ~e.is, n = 2 => T.state = 1
        PROVE  Goal
    <3>1. PICK te : te = PutState(T, n)
      OBVIOUS
    <3>2. te.state = n /\ te.srand = T.srand /\ te.civ = T.civ
      <4>1. T \in StoredEntry
        BY <1>3, <2>1
      <4>. QED  BY <3>1, <4>1, SetState
    <3>3. Only(te)
      BY <1>5, <2>1, <3>1, Zenon DEF PutState
    <3>4. Touches(T, te, e)
      BY <1>3, <1>15, <2>1, <3>2 DEF Touches, Grows
    <3>. QED  BY <1>7, <3>3, <3>4, Zenon
  <2>2. CASE ~Tracked(f)
    BY <1>9, <1>15, <2>2 DEF ssl_change_cipher
  <2>3. CASE Tracked(f)
    <3>1. \/ T.state = 1 /\ e.is /\ Store(f, [T EXCEPT !.state = 2])
          \/ T.state = 2 /\ ~e.is /\ Store(f, [T EXCEPT !.state = 4])
          \/ do_expire(f)
      BY <1>15, <2>3, Zenon DEF ssl_change_cipher, T
    <3>2. 2 # 4 /\ 2 \in {2, 4} /\ 4 \in {2, 4}
      OBVIOUS
    <3>. QED  BY <1>10, <2>1, <2>3, <3>1, <3>2, Zenon
  <2>. QED  BY <2>2, <2>3
<1>16. ASSUME e.ev = "app_data", ssl_app_data(f) PROVE Goal
  BY <1>8, <1>10, <1>16 DEF ssl_app_data
<1>17. ASSUME e.ev = "connection_state_remove", connection_state_remove(f) PROVE Goal
  BY <1>8, <1>10, <1>17 DEF connection_state_remove
<1>18. ASSUME e.ev = "new_packet_final", new_packet_final(f, e.is) PROVE Goal
  <2>1. CASE ~Tracked(f)
    BY <1>9, <1>18, <2>1 DEF new_packet_final
  <2>2. CASE Tracked(f)
    <3>1. PICK te : te = [T EXCEPT !.past = e.is]
      BY Zenon
    <3>2. te.state = T.state /\ te.srand = T.srand /\ te.civ = T.civ
      BY <1>3, <2>2, <3>1, SetPast, Zenon
    <3>3. \/ table' = [table EXCEPT ![f] = None] /\ UNCHANGED bro
          \/ do_expire(f)
          \/ Store(f, te)
      BY <1>18, <2>2, <3>1, Zenon DEF new_packet_final, T
    <3>4. Store(f, te) => Goal
      <4>1. Touches(T, te, e)
        BY <1>3, <1>18, <2>2, <3>2 DEF Touches, Grows
      <4>. QED  BY <1>5, <1>7, <4>1, Zenon
    <3>5. table' = [table EXCEPT ![f] = None] /\ UNCHANGED bro => Goal
      <4>1. Touches(T, None, e)
        BY DEF Touches
      <4>2. table' = [table EXCEPT ![f] = None] /\ UNCHANGED bro => Only(None)
        BY <1>1, Stored, Zenon DEF Only
      <4>. QED  BY <1>7, <4>1, <4>2, Zenon
    <3>. QED  BY <1>10, <3>3, <3>4, <3>5, Zenon
  <2>. QED  BY <2>1, <2>2
<1>19. Goal
  BY <1>11, <1>12, <1>13, <1>14, <1>15, <1>16, <1>17, <1>18, Zenon
<1>. QED  BY <1>19, Zenon DEF Goal, T

\* How far the two ends of a connection are.
Side == [session : Nat, client : 0..5, server : 0..5, extra : Nat, skip : BOOLEAN]

\* Bro stops looking at a connection (skip_further_processing): no more.
PutSkip(p, b) == [p EXCEPT !.skip = p.skip \/ b]

\* Nothing but `skip' changes.
LEMMA SetSkip ==
  ASSUME NEW p \in Side, NEW b \in BOOLEAN
  PROVE  /\ PutSkip(p, b) \in Side
         /\ PutSkip(p, b).client = p.client /\ PutSkip(p, b).server = p.server
         /\ PutSkip(p, b).skip = (p.skip \/ b)
BY Zenon DEF PutSkip, Side

\* The handling of one event, as far as the invariant is concerned.
LEMMA HandleTouches ==
  ASSUME IInv, QueueOK, PeersOK, Handle
  PROVE  LET e == Head(queue) IN
         /\ e \in EventType /\ e.flow \in Flows /\ queue # <<>> /\ gap' = gap
         /\ \/ /\ bro' = "up" /\ queue' = Tail(queue)
               /\ Touches(table[e.flow], table'[e.flow], e)
               /\ \A g \in Flows : g # e.flow => table'[g] = table[g]
            \/ /\ bro' = "crashed" /\ queue' = <<>>
               /\ Derefs(table[e.flow], e)
               /\ \A g \in Flows : table'[g] = None
         /\ peers' \in [Flows -> Side]
         /\ \A g \in Flows :
              /\ peers'[g].client = peers[g].client /\ peers'[g].server = peers[g].server
              /\ peers'[g].skip =>
                   \/ peers[g].skip
                   \/ g = e.flow /\ e.ev = "ssl_conn_attempt" /\ table'[g] = None
<1>. DEFINE e == Head(queue)
            f == e.flow
<1>1. e \in EventType /\ queue # <<>> /\ bro = "up" /\ gap' = gap
  BY DEF Handle, QueueOK
<1>2. f \in Flows
  <2>1. \A x \in EventType : x.flow \in Flows
    BY Zenon DEF EventType
  <2>. QED  BY <1>1, <2>1
<1>3. queue' = IF bro' = "up" THEN Tail(queue) ELSE <<>>
  BY SMTT(40) DEF Handle
<1>4. \/ /\ bro' = "up" /\ queue' = Tail(queue)
         /\ Touches(table[f], table'[f], e)
         /\ \A g \in Flows : g # f => table'[g] = table[g]
      \/ /\ bro' = "crashed" /\ queue' = <<>>
         /\ Derefs(table[f], e)
         /\ \A g \in Flows : table'[g] = None
  <2>1. CASE e.ev = "handshake"
    <3>1. ssl_handshake(f, e.is)
      BY <2>1 DEF Handle
    <3>. HIDE DEF e, f
    <3>2. \/ /\ bro' = "up" /\ Touches(table[f], table'[f], e)
             /\ \A g \in Flows : g # f => table'[g] = table[g]
          \/ bro' = "crashed" /\ Derefs(table[f], e) /\ \A g \in Flows : table'[g] = None
      BY <1>1, <1>2, <2>1, <3>1, HandshakeTouches, Zenon
    <3>. QED  BY <1>3, <3>2
  <2>2. CASE e.ev # "handshake"
    <3>1. \/ e.ev = "ssl_conn_attempt" /\ \E tagged \in BOOLEAN : ssl_conn_attempt(f, tagged)
          \/ e.ev = "ssl_conn_server_reply" /\ ssl_conn_server_reply(f)
          \/ e.ev = "ssl_server_key_exchange" /\ ssl_server_key_exchange(f)
          \/ e.ev = "ssl_conn_alert" /\ ssl_conn_alert(f, e.is)
          \/ e.ev = "change_cipher" /\ ssl_change_cipher(f, e.is)
          \/ e.ev = "app_data" /\ ssl_app_data(f)
          \/ e.ev = "new_packet_final" /\ new_packet_final(f, e.is)
          \/ e.ev = "connection_state_remove" /\ connection_state_remove(f)
      BY <2>2 DEF Handle
    <3>. HIDE DEF e, f
    <3>2. /\ bro' = "up" /\ Touches(table[f], table'[f], e)
          /\ \A g \in Flows : g # f => table'[g] = table[g]
      BY <1>1, <1>2, <2>2, <3>1, OthersTouch, Zenon
    <3>. QED  BY <1>3, <3>2
  <2>. QED  BY <2>1, <2>2, Zenon
<1>5. /\ peers' \in [Flows -> Side]
      /\ \A g \in Flows :
              /\ peers'[g].client = peers[g].client /\ peers'[g].server = peers[g].server
              /\ peers'[g].skip =>
                   peers[g].skip \/ (g = f /\ e.ev = "ssl_conn_attempt" /\ table'[g] = None)
  <2>1. peers \in [Flows -> Side]
    BY DEF PeersOK, Side
  <2>2. CASE UNCHANGED peers
    BY <2>1, <2>2
  <2>3. ASSUME e.ev = "ssl_conn_attempt", NEW tagged \in BOOLEAN, ssl_conn_attempt(f, tagged)
        PROVE  <1>5!:
    <3>. DEFINE b == ~tagged /\ ~Tracked(f)
    <3>1. peers' = [peers EXCEPT ![f] = PutSkip(peers[f], b)]
      BY <2>3, Zenon DEF ssl_conn_attempt, PutSkip
    <3>2. b => table'[f] = None
      BY <2>3 DEF ssl_conn_attempt, Ignore, Tracked
    <3>3. b \in BOOLEAN
      OBVIOUS
    <3>. HIDE DEF b, e, f
    <3>4. /\ PutSkip(peers[f], b) \in Side
          /\ PutSkip(peers[f], b).client = peers[f].client
          /\ PutSkip(peers[f], b).server = peers[f].server
          /\ PutSkip(peers[f], b).skip = (peers[f].skip \/ b)
      BY <1>2, <2>1, <3>3, SetSkip
    <3>5. /\ peers' \in [Flows -> Side] /\ peers'[f] = PutSkip(peers[f], b)
          /\ \A g \in Flows : g # f => peers'[g] = peers[g]
      BY <1>2, <2>1, <3>1, <3>4
    <3>6. e.ev = "ssl_conn_attempt"
      BY <2>3
    <3>. QED  BY <3>2, <3>4, <3>5, <3>6, Zenon
  <2>. QED  BY <2>2, <2>3 DEF Handle
<1>. QED  BY <1>1, <1>2, <1>4, <1>5, Zenon

\* The invariant of one flow f, over the values it is about: the queue q, its
\* peers p, its entry te and whether records of it are missing.
ShapeOf(q) ==
  \A k \in 1..Len(q) :
    /\ q[k].ev = "connection_state_remove" => Len(q) = 1
    /\ q[k].ev = "ssl_conn_attempt" => q[k].is /\ k = Len(q) - 1
SentOf(q, p, te, missing, f) ==
  /\ In(q, Event("handshake", f, TRUE)) => p.server <= 2
  /\ In(q, Event("change_cipher", f, FALSE)) => p.server >= 3
  /\ In(q, Event("ssl_conn_attempt", f, TRUE)) /\ ~missing => p.client = 1 /\ p.server = 0
  /\ p.skip => te = None /\ ~In(q, Event("ssl_conn_attempt", f, TRUE))
CompleteOf(q, p, te, f) ==
  /\ p.server >= 1 => te.srand \/ In(q, Event("ssl_conn_server_reply", f, FALSE))
  /\ p.client >= 2 => te.srand
  /\ p.client = 3 => te.state >= 2 \/ In(q, Event("change_cipher", f, TRUE))
  /\ p.client >= 4 => te.state >= 2 \/ (q # <<>> /\ Head(q) = Event("change_cipher", f, TRUE))
  /\ p.client >= 4 => te.civ \/ In(q, Event("handshake", f, TRUE))
  /\ p.server >= 3 => te.civ
  /\ te.state = 4 => p.server >= 3
KnownOf(q, p, te, missing, f) ==
  ~missing /\ te # None /\ ~In(q, Event("connection_state_remove", f, FALSE)) =>
    CompleteOf(q, p, te, f)
FlowOf(q, p, te, missing, f) == SentOf(q, p, te, missing, f) /\ KnownOf(q, p, te, missing, f)
BehindOf(p) ==
  /\ p.client = 0 => p.server = 0
  /\ p.client < 4 => p.server <= 2
  /\ p.client >= 2 => p.server >= 2
  /\ p.client = 5 => p.server >= 4

\* The invariant says this of every flow.
LEMMA CopyInvOf ==
  /\ PeersOK <=> peers \in [Flows -> Side] /\ \A f \in Flows : BehindOf(peers[f])
  /\ QueueShape <=> ShapeOf(queue)
  /\ QueueFollowsPeers /\ EntryFollowsPeers
       <=> \A f \in Flows : FlowOf(queue, peers[f], table[f], f \in gap, f)
<1>1. PeersOK <=> peers \in [Flows -> Side] /\ \A f \in Flows : BehindOf(peers[f])
  BY DEF PeersOK, Side, BehindOf
<1>2. QueueShape <=> ShapeOf(queue)
  BY Zenon DEF QueueShape, ShapeOf
<1>3. QueueFollowsPeers <=> \A f \in Flows : SentOf(queue, peers[f], table[f], f \in gap, f)
  BY PendingIn, Zenon DEF QueueFollowsPeers, SentOf, Tracked
<1>4. EntryFollowsPeers <=> \A f \in Flows : KnownOf(queue, peers[f], table[f], f \in gap, f)
  BY PendingIn, Zenon DEF EntryFollowsPeers, KnownOf, CompleteOf, Tracked
<1>. QED  BY <1>1, <1>2, <1>3, <1>4, Zenon DEF FlowOf

\* ... and of the next state.
LEMMA CopyInvNext ==
  /\ PeersOK' <=> peers' \in [Flows -> Side] /\ \A f \in Flows : BehindOf(peers'[f])
  /\ QueueShape' <=> ShapeOf(queue')
  /\ QueueFollowsPeers' /\ EntryFollowsPeers'
       <=> \A f \in Flows : FlowOf(queue', peers'[f], table'[f], f \in gap', f)
<1>1. PeersOK' <=> peers' \in [Flows -> Side] /\ \A f \in Flows : BehindOf(peers'[f])
  BY DEF PeersOK, Side, BehindOf
<1>2. QueueShape' <=> ShapeOf(queue')
  BY Zenon DEF QueueShape, ShapeOf
<1>3. QueueFollowsPeers' <=> \A f \in Flows : SentOf(queue', peers'[f], table'[f], f \in gap', f)
  BY PendingIn, Zenon DEF QueueFollowsPeers, SentOf, Tracked
<1>4. EntryFollowsPeers' <=> \A f \in Flows : KnownOf(queue', peers'[f], table'[f], f \in gap', f)
  BY PendingIn, Zenon DEF EntryFollowsPeers, KnownOf, CompleteOf, Tracked
<1>. QED  BY <1>1, <1>2, <1>3, <1>4, Zenon DEF FlowOf

\* An event is the one that its parts say.
LEMMA EventIs ==
  ASSUME NEW e \in EventType, NEW f
  PROVE  /\ e = Event("handshake", f, TRUE) <=> e.ev = "handshake" /\ e.flow = f /\ e.is
         /\ e = Event("change_cipher", f, TRUE) <=> e.ev = "change_cipher" /\ e.flow = f /\ e.is
         /\ e = Event("change_cipher", f, FALSE) <=> e.ev = "change_cipher" /\ e.flow = f /\ ~e.is
         /\ e = Event("ssl_conn_attempt", f, TRUE) <=> e.ev = "ssl_conn_attempt" /\ e.flow = f /\ e.is
         /\ e = Event("ssl_conn_server_reply", f, FALSE)
              <=> e.ev = "ssl_conn_server_reply" /\ e.flow = f /\ ~e.is
         /\ e = Event("connection_state_remove", f, FALSE)
              <=> e.ev = "connection_state_remove" /\ e.flow = f /\ ~e.is
BY DEF EventType, Event

\* The shape of the queue survives the handling of its first event.  (t is the
\* rest of the queue q.)
LEMMA ShapeTail ==
  ASSUME NEW q, NEW t, NEW n \in Nat, n >= 1, Len(q) = n, Len(t) = n - 1,
         \A k \in 1..n - 1 : t[k] = q[k + 1], ShapeOf(q)
  PROVE  /\ ShapeOf(t)
         /\ q[1].ev = "ssl_conn_attempt" =>
              q[1].is /\ \A f \in Flows : ~In(t, Event("ssl_conn_attempt", f, TRUE))
         /\ \A f \in Flows : In(q, Event("connection_state_remove", f, FALSE)) =>
              q[1] = Event("connection_state_remove", f, FALSE)
<1>1. ASSUME NEW k \in 1..n
      PROVE  /\ q[k].ev = "connection_state_remove" => n = 1
             /\ q[k].ev = "ssl_conn_attempt" => q[k].is /\ k = n - 1
  BY Zenon DEF ShapeOf
<1>2. \A k \in 1..n - 1 : k + 1 \in 1..n /\ (k + 1 = n - 1 => k = (n - 1) - 1) /\ n # 1
  OBVIOUS
<1>3. 1 \in 1..n
  OBVIOUS
<1>4. ASSUME NEW k \in 1..n - 1
      PROVE  /\ t[k].ev # "connection_state_remove"
             /\ t[k].ev = "ssl_conn_attempt" => t[k].is /\ k = (n - 1) - 1
  BY <1>1, <1>2, Zenon
<1>5. ShapeOf(t)
  BY <1>4, Zenon DEF ShapeOf
<1>6. ASSUME q[1].ev = "ssl_conn_attempt", NEW f \in Flows, In(t, Event("ssl_conn_attempt", f, TRUE))
      PROVE  FALSE
  <2>1. PICK k \in 1..n - 1 : t[k] = Event("ssl_conn_attempt", f, TRUE)
    BY <1>6, Zenon DEF In
  <2>2. t[k].ev = "ssl_conn_attempt"
    BY ONLY <2>1 DEF Event
  <2>3. k = (n - 1) - 1 /\ 1 = n - 1
    BY <1>1, <1>3, <1>4, <1>6, <2>2, Zenon
  <2>4. k \in 1..n - 1
    OBVIOUS
  <2>. HIDE DEF ShapeOf
  <2>. QED  BY ONLY n \in Nat, <2>3, <2>4
<1>7. ASSUME NEW f \in Flows, In(q, Event("connection_state_remove", f, FALSE))
      PROVE  q[1] = Event("connection_state_remove", f, FALSE)
  <2>1. PICK k \in 1..n : q[k] = Event("connection_state_remove", f, FALSE)
    BY <1>7, Zenon DEF In
  <2>2. n = 1
    <3>1. q[k].ev = "connection_state_remove"
      BY ONLY <2>1 DEF Event
    <3>. QED  BY <1>1, <3>1, Zenon
  <2>3. k = 1
    BY <2>2
  <2>. QED  BY <2>1, <2>3, Zenon
<1>. QED  BY <1>1, <1>3, <1>5, <1>6, <1>7, Zenon

\* The events of one flow that the invariant speaks of, before and after the
\* first event is handled.
LEMMA InTailOf ==
  ASSUME NEW q \in Seq(EventType), q # <<>>, NEW e \in EventType, e = Head(q), NEW f,
         NEW t, t = Tail(q)
  PROVE  /\ In(q, Event("handshake", f, TRUE))
              <=> (e.ev = "handshake" /\ e.flow = f /\ e.is) \/ In(t, Event("handshake", f, TRUE))
         /\ In(q, Event("change_cipher", f, TRUE))
              <=> (e.ev = "change_cipher" /\ e.flow = f /\ e.is) \/ In(t, Event("change_cipher", f, TRUE))
         /\ In(q, Event("change_cipher", f, FALSE))
              <=> (e.ev = "change_cipher" /\ e.flow = f /\ ~e.is) \/ In(t, Event("change_cipher", f, FALSE))
         /\ In(q, Event("ssl_conn_attempt", f, TRUE))
              <=> \/ e.ev = "ssl_conn_attempt" /\ e.flow = f /\ e.is
                  \/ In(t, Event("ssl_conn_attempt", f, TRUE))
         /\ In(q, Event("ssl_conn_server_reply", f, FALSE))
              <=> \/ e.ev = "ssl_conn_server_reply" /\ e.flow = f /\ ~e.is
                  \/ In(t, Event("ssl_conn_server_reply", f, FALSE))
         /\ In(q, Event("connection_state_remove", f, FALSE))
              <=> \/ e.ev = "connection_state_remove" /\ e.flow = f /\ ~e.is
                  \/ In(t, Event("connection_state_remove", f, FALSE))
<1>1. \A x : In(q, x) <=> (e = x \/ In(t, x))
  BY InTail, Zenon
<1>2. In(q, Event("handshake", f, TRUE))
        <=> \/ e.ev = "handshake" /\ e.flow = f /\ e.is
            \/ In(t, Event("handshake", f, TRUE))
  <2>1. PICK x : x = Event("handshake", f, TRUE)
    BY Zenon
  <2>2. e = x <=> e.ev = "handshake" /\ e.flow = f /\ e.is
    BY ONLY e \in EventType, <2>1 DEF EventType, Event
  <2>3. In(q, x) <=> (e = x \/ In(t, x))
    BY <1>1, Zenon
  <2>. QED  BY <2>1, <2>2, <2>3, Zenon
<1>3. In(q, Event("change_cipher", f, TRUE))
        <=> \/ e.ev = "change_cipher" /\ e.flow = f /\ e.is
            \/ In(t, Event("change_cipher", f, TRUE))
  <2>1. PICK x : x = Event("change_cipher", f, TRUE)
    BY Zenon
  <2>2. e = x <=> e.ev = "change_cipher" /\ e.flow = f /\ e.is
    BY ONLY e \in EventType, <2>1 DEF EventType, Event
  <2>3. In(q, x) <=> (e = x \/ In(t, x))
    BY <1>1, Zenon
  <2>. QED  BY <2>1, <2>2, <2>3, Zenon
<1>4. In(q, Event("change_cipher", f, FALSE))
        <=> \/ e.ev = "change_cipher" /\ e.flow = f /\ ~e.is
            \/ In(t, Event("change_cipher", f, FALSE))
  <2>1. PICK x : x = Event("change_cipher", f, FALSE)
    BY Zenon
  <2>2. e = x <=> e.ev = "change_cipher" /\ e.flow = f /\ ~e.is
    BY ONLY e \in EventType, <2>1 DEF EventType, Event
  <2>3. In(q, x) <=> (e = x \/ In(t, x))
    BY <1>1, Zenon
  <2>. QED  BY <2>1, <2>2, <2>3, Zenon
<1>5. In(q, Event("ssl_conn_attempt", f, TRUE))
        <=> \/ e.ev = "ssl_conn_attempt" /\ e.flow = f /\ e.is
            \/ In(t, Event("ssl_conn_attempt", f, TRUE))
  <2>1. PICK x : x = Event("ssl_conn_attempt", f, TRUE)
    BY Zenon
  <2>2. e = x <=> e.ev = "ssl_conn_attempt" /\ e.flow = f /\ e.is
    BY ONLY e \in EventType, <2>1 DEF EventType, Event
  <2>3. In(q, x) <=> (e = x \/ In(t, x))
    BY <1>1, Zenon
  <2>. QED  BY <2>1, <2>2, <2>3, Zenon
<1>6. In(q, Event("ssl_conn_server_reply", f, FALSE))
        <=> \/ e.ev = "ssl_conn_server_reply" /\ e.flow = f /\ ~e.is
            \/ In(t, Event("ssl_conn_server_reply", f, FALSE))
  <2>1. PICK x : x = Event("ssl_conn_server_reply", f, FALSE)
    BY Zenon
  <2>2. e = x <=> e.ev = "ssl_conn_server_reply" /\ e.flow = f /\ ~e.is
    BY ONLY e \in EventType, <2>1 DEF EventType, Event
  <2>3. In(q, x) <=> (e = x \/ In(t, x))
    BY <1>1, Zenon
  <2>. QED  BY <2>1, <2>2, <2>3, Zenon
<1>7. In(q, Event("connection_state_remove", f, FALSE))
        <=> \/ e.ev = "connection_state_remove" /\ e.flow = f /\ ~e.is
            \/ In(t, Event("connection_state_remove", f, FALSE))
  <2>1. PICK x : x = Event("connection_state_remove", f, FALSE)
    BY Zenon
  <2>2. e = x <=> e.ev = "connection_state_remove" /\ e.flow = f /\ ~e.is
    BY ONLY e \in EventType, <2>1 DEF EventType, Event
  <2>3. In(q, x) <=> (e = x \/ In(t, x))
    BY <1>1, Zenon
  <2>. QED  BY <2>1, <2>2, <2>3, Zenon
<1>. QED  BY <1>2, <1>3, <1>4, <1>5, <1>6, <1>7, Zenon

\* The invariant of a flow when an event is handled that is not of it.
LEMMA HandleOther ==
  ASSUME queue \in Seq(EventType), queue # <<>>, NEW e \in EventType, e = Head(queue),
         queue' = Tail(queue), NEW f \in Flows, e.flow # f,
         peers'[f].client = peers[f].client, peers'[f].server = peers[f].server,
         peers'[f].skip => peers[f].skip, FlowOf(queue, peers[f], table[f], f \in gap, f)
  PROVE  FlowOf(queue', peers'[f], table[f], f \in gap, f)
<1>1. /\ In(queue, Event("handshake", f, TRUE)) <=> In(queue', Event("handshake", f, TRUE))
      /\ In(queue, Event("change_cipher", f, TRUE)) <=> In(queue', Event("change_cipher", f, TRUE))
      /\ In(queue, Event("change_cipher", f, FALSE)) <=> In(queue', Event("change_cipher", f, FALSE))
      /\ In(queue, Event("ssl_conn_attempt", f, TRUE)) <=> In(queue', Event("ssl_conn_attempt", f, TRUE))
      /\ In(queue, Event("ssl_conn_server_reply", f, FALSE)) <=> In(queue', Event("ssl_conn_server_reply", f, FALSE))
      /\ In(queue, Event("connection_state_remove", f, FALSE)) <=> In(queue', Event("connection_state_remove", f, FALSE))
  BY InTailOf, Zenon
<1>2. Head(queue) # Event("change_cipher", f, TRUE)
  <2>1. e # Event("change_cipher", f, TRUE)
    BY ONLY e.flow # f DEF Event
  <2>. QED  BY <2>1, Zenon
<1>3. SentOf(queue', peers'[f], table[f], f \in gap, f)
  BY <1>1, Zenon DEF FlowOf, SentOf
<1>4. CompleteOf(queue, peers[f], table[f], f) => CompleteOf(queue', peers'[f], table[f], f)
  BY <1>1, <1>2, Zenon DEF CompleteOf
<1>. QED  BY <1>1, <1>3, <1>4, Zenon DEF FlowOf, KnownOf

\* The invariant of the flow whose event is handled.
LEMMA HandleOwn ==
  ASSUME queue \in Seq(EventType), queue # <<>>, NEW e \in EventType, e = Head(queue),
         queue' = Tail(queue), ShapeOf(queue), NEW f \in Flows, e.flow = f,
         peers'[f].client = peers[f].client, peers'[f].server = peers[f].server,
         peers'[f].skip => peers[f].skip \/ (e.ev = "ssl_conn_attempt" /\ table'[f] = None),
         Touches(table[f], table'[f], e), FlowOf(queue, peers[f], table[f], f \in gap, f)
  PROVE  FlowOf(queue', peers'[f], table'[f], f \in gap, f)
<1>1. /\ Len(queue) \in Nat /\ Len(queue) >= 1 /\ Len(queue') = Len(queue) - 1 /\ e = queue[1]
      /\ \A k \in 1..Len(queue) - 1 : queue'[k] = queue[k + 1]
  OBVIOUS
<1>2. /\ e.ev = "ssl_conn_attempt" => e.is /\ ~In(queue', Event("ssl_conn_attempt", f, TRUE))
      /\ In(queue, Event("connection_state_remove", f, FALSE)) =>
           e = Event("connection_state_remove", f, FALSE)
  BY <1>1, ShapeTail, ZenonT(60)
<1>3. In(queue, Event("connection_state_remove", f, FALSE)) => e.ev = "connection_state_remove"
  <2>1. Event("connection_state_remove", f, FALSE).ev = "connection_state_remove"
    BY DEF Event
  <2>. QED  BY <1>2, <2>1, Zenon
<1>4. /\ In(queue, Event("handshake", f, TRUE))
           <=> (e.ev = "handshake" /\ e.is) \/ In(queue', Event("handshake", f, TRUE))
      /\ In(queue, Event("change_cipher", f, TRUE))
           <=> (e.ev = "change_cipher" /\ e.is) \/ In(queue', Event("change_cipher", f, TRUE))
      /\ In(queue, Event("change_cipher", f, FALSE))
           <=> (e.ev = "change_cipher" /\ ~e.is) \/ In(queue', Event("change_cipher", f, FALSE))
      /\ In(queue, Event("ssl_conn_attempt", f, TRUE))
           <=> (e.ev = "ssl_conn_attempt" /\ e.is) \/ In(queue', Event("ssl_conn_attempt", f, TRUE))
      /\ In(queue, Event("ssl_conn_server_reply", f, FALSE))
           <=> (e.ev = "ssl_conn_server_reply" /\ ~e.is) \/ In(queue', Event("ssl_conn_server_reply", f, FALSE))
  BY InTailOf, Zenon
<1>5. Head(queue) = Event("change_cipher", f, TRUE) => e.ev = "change_cipher" /\ e.is
  <2>1. e = Event("change_cipher", f, TRUE) => e.ev = "change_cipher" /\ e.is
    BY ONLY TRUE DEF Event
  <2>. QED  BY <2>1, Zenon
<1>6. SentOf(queue', peers'[f], table'[f], f \in gap, f)
  <2>1. In(queue, Event("ssl_conn_attempt", f, TRUE)) \/ table'[f] = None \/ table[f] # None
    BY <1>2, <1>4, Zenon DEF Touches
  <2>. QED  BY <1>2, <1>4, <2>1, Zenon DEF FlowOf, SentOf
<1>7. ASSUME table'[f] # None, table[f] # None, f \notin gap PROVE CompleteOf(queue', peers'[f], table'[f], f)
  <2>1. e.ev # "connection_state_remove" /\ Grows(table[f], table'[f], e)
    BY <1>7, Zenon DEF Touches
  <2>2. CompleteOf(queue, peers[f], table[f], f) /\ SentOf(queue, peers[f], table[f], f \in gap, f)
    BY <1>3, <1>7, <2>1, Zenon DEF FlowOf, KnownOf
  <2>3. peers'[f].server >= 1 => table'[f].srand \/ In(queue', Event("ssl_conn_server_reply", f, FALSE))
    BY <1>4, <2>1, <2>2, Zenon DEF CompleteOf, Grows
  <2>4. peers'[f].client >= 2 => table'[f].srand
    BY <2>1, <2>2, Zenon DEF CompleteOf, Grows
  <2>5. peers'[f].client = 3 => table'[f].state >= 2 \/ In(queue', Event("change_cipher", f, TRUE))
    BY <1>4, <2>1, <2>2, Zenon DEF CompleteOf, Grows
  <2>6. peers'[f].client >= 4 => table'[f].state >= 2
    BY <1>5, <2>1, <2>2, Zenon DEF CompleteOf, Grows
  <2>7. peers'[f].client >= 4 => table'[f].civ \/ In(queue', Event("handshake", f, TRUE))
    <3>1. e.ev = "handshake" => Head(queue) # Event("change_cipher", f, TRUE)
      <4>1. "handshake" # "change_cipher"
        OBVIOUS
      <4>. QED  BY <1>5, <4>1, Zenon
    <3>. QED  BY <1>4, <2>1, <2>2, <3>1, Zenon DEF CompleteOf, Grows
  <2>8. peers'[f].server >= 3 => table'[f].civ
    BY <2>1, <2>2, Zenon DEF CompleteOf, Grows
  <2>9. table'[f].state = 4 => peers'[f].server >= 3
    BY <1>4, <2>1, <2>2, Zenon DEF CompleteOf, Grows, SentOf
  <2>. QED  BY <2>3, <2>4, <2>5, <2>6, <2>7, <2>8, <2>9, Zenon DEF CompleteOf
<1>8. ASSUME table'[f] # None, table[f] = None, f \notin gap PROVE CompleteOf(queue', peers'[f], table'[f], f)
  <2>1. e.ev = "ssl_conn_attempt" /\ table'[f].state = 1
    BY <1>8, Zenon DEF Touches
  <2>2. peers'[f].client = 1 /\ peers'[f].server = 0
    BY <1>2, <1>4, <1>8, <2>1, Zenon DEF FlowOf, SentOf
  <2>. QED  BY <2>1, <2>2 DEF CompleteOf
<1>. QED  BY <1>6, <1>7, <1>8, Zenon DEF FlowOf, KnownOf

\* Nothing is in an empty queue, and it says nothing of a flow without entry.
LEMMA EmptyQueue ==
  /\ \A e : ~In(<<>>, e)
  /\ ShapeOf(<<>>)
  /\ \A p, missing, f : FlowOf(<<>>, p, None, missing, f)
<1>1. \A e : ~In(<<>>, e)
  BY DEF In
<1>2. ShapeOf(<<>>)
  BY DEF ShapeOf
<1>3. ASSUME NEW p, NEW missing, NEW f PROVE FlowOf(<<>>, p, None, missing, f)
  BY <1>1, Zenon DEF FlowOf, SentOf, KnownOf
<1>. QED  BY <1>1, <1>2, <1>3, Zenon

\* The handling of an event keeps the invariant; it ends in a null pointer
\* only when records of the flow are missing (telex_send_init_data).
LEMMA HandleCopy ==
  ASSUME IInv, IInv', QueueOK, CopyInv, Handle
  PROVE  CopyInv'
<1>. DEFINE e == Head(queue)
            f == e.flow
<1>1. /\ PeersOK /\ peers \in [Flows -> Side] /\ \A g \in Flows : BehindOf(peers[g])
      /\ ShapeOf(queue)
      /\ \A g \in Flows : FlowOf(queue, peers[g], table[g], g \in gap, g)
  BY CopyInvOf, Zenon DEF CopyInv
<1>2. /\ e \in EventType /\ f \in Flows /\ queue # <<>> /\ gap' = gap
      /\ \/ /\ bro' = "up" /\ queue' = Tail(queue)
            /\ Touches(table[f], table'[f], e)
            /\ \A g \in Flows : g # f => table'[g] = table[g]
         \/ /\ bro' = "crashed" /\ queue' = <<>>
            /\ Derefs(table[f], e)
            /\ \A g \in Flows : table'[g] = None
      /\ peers' \in [Flows -> Side]
      /\ \A g \in Flows :
           /\ peers'[g].client = peers[g].client /\ peers'[g].server = peers[g].server
           /\ peers'[g].skip =>
                peers[g].skip \/ (g = f /\ e.ev = "ssl_conn_attempt" /\ table'[g] = None)
  BY <1>1, HandleTouches, Zenon
<1>3. /\ table \in [Flows -> StoredEntry \cup {None}]
      /\ table' \in [Flows -> StoredEntry \cup {None}]
      /\ queue \in Seq(EventType)
  BY DEF IInv, TypeOK, StoredEntry, QueueOK
<1>4. e = Head(queue)
  OBVIOUS
<1>. HIDE DEF e, f
<1>5. \A g \in Flows : BehindOf(peers'[g])
  BY <1>1, <1>2, Zenon DEF BehindOf
<1>6. CASE bro' = "up"
  <2>1. /\ queue' = Tail(queue) /\ Touches(table[f], table'[f], e)
        /\ \A g \in Flows : g # f => table'[g] = table[g]
    BY <1>2, <1>6
  <2>2. ShapeOf(queue')
    <3>1. /\ Len(queue) \in Nat /\ Len(queue) >= 1 /\ Len(queue') = Len(queue) - 1
          /\ \A k \in 1..Len(queue) - 1 : queue'[k] = queue[k + 1]
      BY <1>2, <1>3, <2>1
    <3>. QED  BY <1>1, <3>1, ShapeTail, Zenon
  <2>3. ASSUME NEW g \in Flows, g # f
        PROVE  FlowOf(queue', peers'[g], table'[g], g \in gap', g)
    <3>1. e.flow # g
      BY <2>3 DEF f
    <3>2. peers'[g].skip => peers[g].skip
      BY <1>2, <2>3, Zenon
    <3>3. FlowOf(queue', peers'[g], table[g], g \in gap, g)
      BY <1>1, <1>2, <1>3, <1>4, <2>1, <3>1, <3>2, HandleOther, Zenon
    <3>. QED  BY <1>2, <2>1, <2>3, <3>3, Zenon
  <2>4. FlowOf(queue', peers'[f], table'[f], f \in gap', f)
    <3>1. peers'[f].skip => peers[f].skip \/ (e.ev = "ssl_conn_attempt" /\ table'[f] = None)
      BY <1>2, Zenon
    <3>2. e.flow = f
      BY DEF f
    <3>3. FlowOf(queue', peers'[f], table'[f], f \in gap, f)
      BY <1>1, <1>2, <1>3, <1>4, <2>1, <3>1, <3>2, HandleOwn, Zenon
    <3>. QED  BY <1>2, <3>3, Zenon
  <2>5. CrashNeedsGap'
    BY <1>6 DEF CrashNeedsGap
  <2>. QED  BY <1>2, <1>5, <2>2, <2>3, <2>4, <2>5, CopyInvNext, Zenon DEF CopyInv
<1>7. CASE bro' # "up"
  <2>1. queue' = <<>> /\ Derefs(table[f], e) /\ \A g \in Flows : table'[g] = None
    BY <1>2, <1>7
  <2>2. \A g \in Flows : FlowOf(queue', peers'[g], table'[g], g \in gap', g)
    BY <2>1, EmptyQueue, Zenon
  <2>3. f \in gap
    <3>1. SUFFICES ASSUME f \notin gap PROVE FALSE
      BY SMTT(40)
    <3>2. FlowOf(queue, peers[f], table[f], f \in gap, f) /\ BehindOf(peers[f]) /\ peers[f] \in Side
      BY <1>1, <1>2
    <3>3. table[f] # None /\ table[f].state = 4 /\ e.ev = "handshake"
      BY <2>1 DEF Derefs
    <3>4. ~In(queue, Event("connection_state_remove", f, FALSE))
      <4>1. Event("connection_state_remove", f, FALSE).ev # e.ev
        BY <3>3 DEF Event
      <4>2. /\ Len(queue) \in Nat /\ Len(queue) >= 1 /\ Len(Tail(queue)) = Len(queue) - 1
            /\ \A k \in 1..Len(queue) - 1 : Tail(queue)[k] = queue[k + 1]
            /\ e = queue[1]
        BY <1>2, <1>3, <1>4
      <4>. QED  BY <1>1, <1>2, <4>1, <4>2, ShapeTail, Zenon
    <3>5. CompleteOf(queue, peers[f], table[f], f) /\ SentOf(queue, peers[f], table[f], f \in gap, f)
      BY <3>1, <3>2, <3>3, <3>4, Zenon DEF FlowOf, KnownOf
    <3>6. peers[f].server >= 3 /\ table[f].civ
      BY <3>3, <3>5, Zenon DEF CompleteOf
    <3>7. peers[f].client >= 2 /\ ~(peers[f].server <= 2)
      BY <3>2, <3>6 DEF BehindOf, Side
    <3>8. table[f].srand
      BY <3>5, <3>7, Zenon DEF CompleteOf
    <3>9. ~e.is
      <4>1. e.is => In(queue, Event("handshake", f, TRUE))
        BY <1>2, <1>3, <1>4, <3>3, InTailOf, Zenon DEF f
      <4>. QED  BY <3>5, <3>7, <4>1, Zenon DEF SentOf
    <3>. QED  BY <2>1, <3>6, <3>8, <3>9 DEF Derefs
  <2>4. CrashNeedsGap'
    BY <1>2, <2>3 DEF CrashNeedsGap
  <2>. QED  BY <1>2, <1>5, <2>1, <2>2, <2>4, EmptyQueue, CopyInvNext, Zenon DEF CopyInv
<1>. QED  BY <1>6, <1>7

-----------------------------------------------------------------------------
(* The packets keep it.                                                    *)

\* Short sequences of events: one,
LEMMA InOne ==
  ASSUME NEW a, NEW x
  PROVE  In(<<a>>, x) <=> x = a
<1>1. Len(<<a>>) = 1 /\ <<a>>[1] = a /\ 1..1 = {1}
  OBVIOUS
<1>. QED  BY <1>1, Zenon DEF In

\* or two.
LEMMA InTwo ==
  ASSUME NEW a, NEW b, NEW x
  PROVE  In(<<a, b>>, x) <=> (x = a \/ x = b)
<1>1. Len(<<a, b>>) = 2 /\ <<a, b>>[1] = a /\ <<a, b>>[2] = b /\ 1..2 = {1, 2}
  OBVIOUS
<1>. QED  BY <1>1, Zenon DEF In

\* The records of the two sides, by number.
LEMMA RecordsAre ==
  ASSUME NEW i \in 1..5
  PROVE  /\ ClientRecords[i] = "hello" <=> i = 1
         /\ ClientRecords[i] = "ccs" <=> i = 3
         /\ ClientRecords[i] = "app" <=> i = 5
         /\ ClientRecords[i] \in {"hello", "cke", "ccs", "fin", "app"}
         /\ ServerRecords[i] = "hello" <=> i = 1
         /\ ServerRecords[i] = "ccs" <=> i = 3
         /\ ServerRecords[i] \in {"hello", "ske", "ccs", "fin", "app"}
BY DEF ClientRecords, ServerRecords

\* What a hello raises besides ssl_record.
HelloEvent(f, orig) ==
  Event(IF orig THEN "ssl_conn_attempt" ELSE "ssl_conn_server_reply", f, orig)

\* The events of a record (next_record of Bro's TLS parser).
LEMMA RecordIn ==
  ASSUME NEW f, NEW orig, NEW r, NEW x
  PROVE  LET R == RecordEvents(f, orig, r)
             hs == Event("handshake", f, orig)
             first == HelloEvent(f, orig) IN
         /\ r = "hello" => (In(R, x) <=> (x = hs \/ x = first))
         /\ r = "ske" => (In(R, x) <=> (x = hs \/ x = Event("ssl_server_key_exchange", f, orig)))
         /\ r \in {"cke", "fin"} => (In(R, x) <=> x = hs)
         /\ r = "ccs" => (In(R, x) <=> x = Event("change_cipher", f, orig))
         /\ r = "app" => (In(R, x) <=> x = Event("app_data", f, orig))
<1>. DEFINE app == Event("app_data", f, orig)
            ccs == Event("change_cipher", f, orig)
            hs == Event("handshake", f, orig)
            ske == Event("ssl_server_key_exchange", f, orig)
            first == HelloEvent(f, orig)
<1>1. RecordEvents(f, orig, r) =
        CASE r = "app" -> <<app>>
          [] r = "ccs" -> <<ccs>>
          [] r = "ske" -> <<hs, ske>>
          [] r = "hello" -> <<hs, first>>
          [] OTHER -> <<hs>>
  BY Zenon DEF RecordEvents, HelloEvent
<1>. HIDE DEF app, ccs, hs, ske, first
<1>2. /\ r = "hello" => RecordEvents(f, orig, r) = <<hs, first>>
      /\ r = "ske" => RecordEvents(f, orig, r) = <<hs, ske>>
      /\ r \in {"cke", "fin"} => RecordEvents(f, orig, r) = <<hs>>
      /\ r = "ccs" => RecordEvents(f, orig, r) = <<ccs>>
      /\ r = "app" => RecordEvents(f, orig, r) = <<app>>
  BY ONLY <1>1
<1>3. /\ In(<<hs, first>>, x) <=> (x = hs \/ x = first)
      /\ In(<<hs, ske>>, x) <=> (x = hs \/ x = ske)
  BY ONLY InTwo, Zenon
<1>4. /\ In(<<hs>>, x) <=> x = hs
      /\ In(<<ccs>>, x) <=> x = ccs
      /\ In(<<app>>, x) <=> x = app
  BY ONLY InOne, Zenon
<1>. QED  BY <1>2, <1>3, <1>4, Zenon DEF app, ccs, hs, ske, first

\* What the client's and the server's records raise.
ClientRaises(R, r, f) ==
  /\ r \notin {"ccs", "app"} => In(R, Event("handshake", f, TRUE))
  /\ r = "ccs" => In(R, Event("change_cipher", f, TRUE))
  /\ \A x : In(R, x) =>
       /\ x.flow = f /\ x.is /\ x.ev # "connection_state_remove"
       /\ x.ev = "handshake" => r \notin {"ccs", "app"}
       /\ x.ev = "ssl_conn_attempt" => r = "hello"
ServerRaises(R, r, f) ==
  /\ r = "hello" => In(R, Event("ssl_conn_server_reply", f, FALSE))
  /\ \A x : In(R, x) =>
       /\ x.flow = f /\ ~x.is /\ x.ev # "connection_state_remove" /\ x.ev # "ssl_conn_attempt"
       /\ x.ev = "change_cipher" => r = "ccs"

\* The client's do ...
LEMMA ClientRecordIn ==
  ASSUME NEW f, NEW r \in {"hello", "cke", "ccs", "fin", "app"}
  PROVE  ClientRaises(RecordEvents(f, TRUE, r), r, f)
<1>. DEFINE R == RecordEvents(f, TRUE, r)
            app == Event("app_data", f, TRUE)
            ccs == Event("change_cipher", f, TRUE)
            hs == Event("handshake", f, TRUE)
            ske == Event("ssl_server_key_exchange", f, TRUE)
            first == HelloEvent(f, TRUE)
<1>1. \A x : /\ r = "hello" => (In(R, x) <=> (x = hs \/ x = first))
             /\ r = "ske" => (In(R, x) <=> (x = hs \/ x = ske))
             /\ r \in {"cke", "fin"} => (In(R, x) <=> x = hs)
             /\ r = "ccs" => (In(R, x) <=> x = ccs)
             /\ r = "app" => (In(R, x) <=> x = app)
  BY ONLY RecordIn, ZenonT(60)
<1>2. /\ app.flow = f /\ app.is /\ app.ev = "app_data"
      /\ ccs.flow = f /\ ccs.is /\ ccs.ev = "change_cipher"
      /\ hs.flow = f /\ hs.is /\ hs.ev = "handshake"
      /\ first.flow = f /\ first.is /\ first.ev = "ssl_conn_attempt"
  BY ONLY TRUE DEF Event, HelloEvent
<1>. HIDE DEF R, app, ccs, hs, ske, first
<1>3. /\ r \notin {"ccs", "app"} => In(R, hs)
      /\ r = "ccs" => In(R, ccs)
      /\ \A x : In(R, x) =>
             /\ x.flow = f /\ x.is /\ x.ev # "connection_state_remove"
             /\ x.ev = "handshake" => r \notin {"ccs", "app"}
             /\ x.ev = "ssl_conn_attempt" => r = "hello"
  BY ONLY r \in {"hello", "cke", "ccs", "fin", "app"}, <1>1, <1>2
<1>. QED  BY <1>3, Zenon DEF R, ccs, hs, first, ClientRaises

\* ... and so do the server's.
LEMMA ServerRecordIn ==
  ASSUME NEW f, NEW r \in {"hello", "ske", "ccs", "fin", "app"}
  PROVE  ServerRaises(RecordEvents(f, FALSE, r), r, f)
<1>0. PICK orig : orig = FALSE
  BY Zenon
<1>. DEFINE R == RecordEvents(f, orig, r)
            app == Event("app_data", f, orig)
            ccs == Event("change_cipher", f, orig)
            hs == Event("handshake", f, orig)
            ske == Event("ssl_server_key_exchange", f, orig)
            first == HelloEvent(f, orig)
<1>1. \A x : /\ r = "hello" => (In(R, x) <=> (x = hs \/ x = first))
             /\ r = "ske" => (In(R, x) <=> (x = hs \/ x = ske))
             /\ r \in {"cke", "fin"} => (In(R, x) <=> x = hs)
             /\ r = "ccs" => (In(R, x) <=> x = ccs)
             /\ r = "app" => (In(R, x) <=> x = app)
  BY ONLY RecordIn, ZenonT(60)
<1>2. /\ app.flow = f /\ ~app.is /\ app.ev = "app_data"
      /\ ccs.flow = f /\ ~ccs.is /\ ccs.ev = "change_cipher"
      /\ hs.flow = f /\ ~hs.is /\ hs.ev = "handshake"
      /\ ske.flow = f /\ ~ske.is /\ ske.ev = "ssl_server_key_exchange"
      /\ first.flow = f /\ ~first.is /\ first.ev = "ssl_conn_server_reply"
  BY ONLY <1>0 DEF Event, HelloEvent
<1>. HIDE DEF R, app, ccs, hs, ske, first
<1>3. /\ r = "hello" => In(R, first)
      /\ \A x : In(R, x) =>
             /\ x.flow = f /\ ~x.is /\ x.ev # "connection_state_remove" /\ x.ev # "ssl_conn_attempt"
             /\ x.ev = "change_cipher" => r = "ccs"
  BY ONLY r \in {"hello", "ske", "ccs", "fin", "app"}, <1>1, <1>2
<1>4. first = Event("ssl_conn_server_reply", f, FALSE) /\ R = RecordEvents(f, FALSE, r)
  BY <1>0, Zenon DEF first, R, HelloEvent
<1>. QED  BY <1>3, <1>4, Zenon DEF ServerRaises

\* The events of one or two records in a packet.
LEMMA RecordsIn ==
  ASSUME NEW f \in Flows, NEW orig \in BOOLEAN, NEW rs, NEW i, NEW n \in 1..2
  PROVE  /\ RecordsEvents(f, orig, rs, i, n) \in Seq(EventType)
         /\ \A x : In(RecordsEvents(f, orig, rs, i, n), x) <=>
              \/ In(RecordEvents(f, orig, rs[i]), x)
              \/ n = 2 /\ In(RecordEvents(f, orig, rs[i + 1]), x)
<1>. DEFINE A == RecordEvents(f, orig, rs[i])
            B == RecordEvents(f, orig, rs[i + 1])
<1>1. A \in Seq(EventType) /\ B \in Seq(EventType)
  BY RecordEventsType
<1>2. RecordsEvents(f, orig, rs, i, n) = A \o (IF n = 2 THEN B ELSE <<>>)
  BY Zenon DEF RecordsEvents
<1>. HIDE DEF A, B
<1>3. CASE n = 2
  <2>1. RecordsEvents(f, orig, rs, i, n) = A \o B
    BY <1>2, <1>3, Zenon
  <2>2. A \o B \in Seq(EventType)
    BY <1>1
  <2>3. \A x : In(A \o B, x) <=> (In(A, x) \/ In(B, x))
    BY <1>1, InJoin
  <2>. QED  BY <1>3, <2>1, <2>2, <2>3, Zenon DEF A, B
<1>4. CASE n # 2
  <2>1. RecordsEvents(f, orig, rs, i, n) = A \o <<>>
    BY <1>2, <1>4, Zenon
  <2>2. A \o <<>> = A
    BY <1>1
  <2>. QED  BY <1>1, <1>4, <2>1, <2>2, Zenon DEF A
<1>. QED  BY <1>3, <1>4

\* What n records of the client, from the i-th on, raise in a packet.
ClientEvents(evs, f, i, n) ==
  /\ i <= 3 /\ i + n > 3 => In(evs, Event("change_cipher", f, TRUE))
  /\ i <= 4 /\ i + n > 4 => In(evs, Event("handshake", f, TRUE))
  /\ \A x : In(evs, x) =>
       /\ x.flow = f /\ x.is /\ x.ev # "connection_state_remove"
       /\ x.ev = "handshake" => i <= 4
       /\ x.ev = "ssl_conn_attempt" => i = 1
ServerEvents(evs, f, i, n) ==
  /\ i = 1 => In(evs, Event("ssl_conn_server_reply", f, FALSE))
  /\ \A x : In(evs, x) =>
       /\ x.flow = f /\ ~x.is /\ x.ev # "connection_state_remove" /\ x.ev # "ssl_conn_attempt"
       /\ x.ev = "change_cipher" => i + n > 3

\* A packet of the client does so ...
LEMMA ClientPacketIn ==
  ASSUME NEW f \in Flows, NEW i \in 1..5, NEW n \in 1..2, i + n <= 6
  PROVE  ClientEvents(RecordsEvents(f, TRUE, ClientRecords, i, n), f, i, n)
<1>. DEFINE evs == RecordsEvents(f, TRUE, ClientRecords, i, n)
            A == RecordEvents(f, TRUE, ClientRecords[i])
            B == RecordEvents(f, TRUE, ClientRecords[i + 1])
            r1 == ClientRecords[i]
            r2 == ClientRecords[i + 1]
            hs == Event("handshake", f, TRUE)
            cc == Event("change_cipher", f, TRUE)
<1>1. \A x : In(evs, x) <=> (In(A, x) \/ (n = 2 /\ In(B, x)))
  BY RecordsIn, Zenon
<1>2. n = 2 => i + 1 \in 1..5
  OBVIOUS
<1>3. /\ r1 = "hello" <=> i = 1
      /\ r1 = "ccs" <=> i = 3
      /\ r1 = "app" <=> i = 5
      /\ r1 \in {"hello", "cke", "ccs", "fin", "app"}
  BY RecordsAre, Zenon
<1>4. n = 2 => /\ r2 = "hello" <=> i + 1 = 1
               /\ r2 = "ccs" <=> i + 1 = 3
               /\ r2 = "app" <=> i + 1 = 5
               /\ r2 \in {"hello", "cke", "ccs", "fin", "app"}
  BY <1>2, RecordsAre, Zenon
<1>5. ClientRaises(A, r1, f)
  BY <1>3, ClientRecordIn, Zenon
<1>6. n = 2 => ClientRaises(B, r2, f)
  BY <1>4, ClientRecordIn, Zenon
<1>. HIDE DEF evs, A, B, r1, r2, hs, cc
<1>7. /\ r1 \notin {"ccs", "app"} => In(A, hs)
      /\ r1 = "ccs" => In(A, cc)
      /\ \A x : In(A, x) =>
           /\ x.flow = f /\ x.is /\ x.ev # "connection_state_remove"
           /\ x.ev = "handshake" => r1 \notin {"ccs", "app"}
           /\ x.ev = "ssl_conn_attempt" => r1 = "hello"
  BY <1>5, Zenon DEF ClientRaises, hs, cc
<1>8. n = 2 =>
      /\ r2 \notin {"ccs", "app"} => In(B, hs)
      /\ r2 = "ccs" => In(B, cc)
      /\ \A x : In(B, x) =>
           /\ x.flow = f /\ x.is /\ x.ev # "connection_state_remove"
           /\ x.ev = "handshake" => r2 \notin {"ccs", "app"}
           /\ x.ev = "ssl_conn_attempt" => r2 = "hello"
  BY <1>6, Zenon DEF ClientRaises, hs, cc
<1>9. /\ i <= 3 /\ i + n > 3 => In(evs, cc)
      /\ i <= 4 /\ i + n > 4 => In(evs, hs)
  BY <1>1, <1>3, <1>4, <1>7, <1>8, SMTT(40)
<1>10. \A x : In(evs, x) =>
              /\ x.flow = f /\ x.is /\ x.ev # "connection_state_remove"
              /\ x.ev = "handshake" => i <= 4
              /\ x.ev = "ssl_conn_attempt" => i = 1
  BY <1>1, <1>3, <1>4, <1>7, <1>8
<1>. QED  BY <1>9, <1>10, Zenon DEF evs, hs, cc, ClientEvents

\* ... and one of the server too.
LEMMA ServerPacketIn ==
  ASSUME NEW f \in Flows, NEW i \in 1..5, NEW n \in 1..2, i + n <= 6
  PROVE  ServerEvents(RecordsEvents(f, FALSE, ServerRecords, i, n), f, i, n)
<1>. DEFINE evs == RecordsEvents(f, FALSE, ServerRecords, i, n)
            A == RecordEvents(f, FALSE, ServerRecords[i])
            B == RecordEvents(f, FALSE, ServerRecords[i + 1])
            r1 == ServerRecords[i]
            r2 == ServerRecords[i + 1]
            reply == Event("ssl_conn_server_reply", f, FALSE)
<1>1. \A x : In(evs, x) <=> (In(A, x) \/ (n = 2 /\ In(B, x)))
  BY RecordsIn, Zenon
<1>2. n = 2 => i + 1 \in 1..5
  OBVIOUS
<1>3. /\ r1 = "hello" <=> i = 1
      /\ r1 = "ccs" <=> i = 3
      /\ r1 \in {"hello", "ske", "ccs", "fin", "app"}
  BY RecordsAre, Zenon
<1>4. n = 2 => /\ r2 = "ccs" <=> i + 1 = 3
               /\ r2 \in {"hello", "ske", "ccs", "fin", "app"}
  BY <1>2, RecordsAre, Zenon
<1>5. ServerRaises(A, r1, f)
  BY <1>3, ServerRecordIn, Zenon
<1>6. n = 2 => ServerRaises(B, r2, f)
  BY <1>4, ServerRecordIn, Zenon
<1>. HIDE DEF evs, A, B, r1, r2, reply
<1>7. /\ r1 = "hello" => In(A, reply)
      /\ \A x : In(A, x) =>
           /\ x.flow = f /\ ~x.is /\ x.ev # "connection_state_remove" /\ x.ev # "ssl_conn_attempt"
           /\ x.ev = "change_cipher" => r1 = "ccs"
  BY <1>5, Zenon DEF ServerRaises, reply
<1>8. n = 2 =>
      /\ r2 = "hello" => In(B, reply)
      /\ \A x : In(B, x) =>
           /\ x.flow = f /\ ~x.is /\ x.ev # "connection_state_remove" /\ x.ev # "ssl_conn_attempt"
           /\ x.ev = "change_cipher" => r2 = "ccs"
  BY <1>6, Zenon DEF ServerRaises, reply
<1>9. i = 1 => In(evs, reply)
  BY <1>1, <1>3, <1>7
<1>10. \A x : In(evs, x) =>
           /\ x.flow = f /\ ~x.is /\ x.ev # "connection_state_remove" /\ x.ev # "ssl_conn_attempt"
           /\ x.ev = "change_cipher" => i + n > 3
  BY <1>1, <1>3, <1>4, <1>7, <1>8
<1>. QED  BY <1>9, <1>10, Zenon DEF evs, reply, ServerEvents

\* new_packet_final, after the events of a packet, says nothing new.
LEMMA FinalFlow ==
  ASSUME NEW f \in Flows, NEW evs \in Seq(EventType), NEW E \in EventType, E.ev = "new_packet_final",
         queue' = Append(evs, E), FlowOf(evs, peers'[f], table'[f], f \in gap', f)
  PROVE  FlowOf(queue', peers'[f], table'[f], f \in gap', f)
<1>1. /\ Event("handshake", f, TRUE) # E
      /\ Event("change_cipher", f, TRUE) # E
      /\ Event("change_cipher", f, FALSE) # E
      /\ Event("ssl_conn_attempt", f, TRUE) # E
      /\ Event("ssl_conn_server_reply", f, FALSE) # E
      /\ Event("connection_state_remove", f, FALSE) # E
  BY ONLY E.ev = "new_packet_final" DEF Event
<1>2. \A x : In(queue', x) <=> (In(evs, x) \/ x = E)
  BY InAppend, Zenon
<1>3. /\ In(queue', Event("handshake", f, TRUE)) <=> In(evs, Event("handshake", f, TRUE))
      /\ In(queue', Event("change_cipher", f, TRUE)) <=> In(evs, Event("change_cipher", f, TRUE))
      /\ In(queue', Event("change_cipher", f, FALSE)) <=> In(evs, Event("change_cipher", f, FALSE))
      /\ In(queue', Event("ssl_conn_attempt", f, TRUE)) <=> In(evs, Event("ssl_conn_attempt", f, TRUE))
      /\ In(queue', Event("ssl_conn_server_reply", f, FALSE)) <=> In(evs, Event("ssl_conn_server_reply", f, FALSE))
      /\ In(queue', Event("connection_state_remove", f, FALSE)) <=> In(evs, Event("connection_state_remove", f, FALSE))
  BY <1>1, <1>2, Zenon
<1>4. evs # <<>> => queue' # <<>> /\ Head(queue') = Head(evs)
  OBVIOUS
<1>5. SentOf(queue', peers'[f], table'[f], f \in gap', f)
  BY <1>3, Zenon DEF FlowOf, SentOf
<1>6. CompleteOf(evs, peers'[f], table'[f], f) => CompleteOf(queue', peers'[f], table'[f], f)
  BY <1>3, <1>4, Zenon DEF CompleteOf
<1>. QED  BY <1>3, <1>5, <1>6, Zenon DEF FlowOf, KnownOf

\* A packet of another flow says nothing of this one.
LEMMA SilentFlow ==
  ASSUME NEW f \in Flows, \A x : In(queue', x) => x.flow # f,
         FlowOf(<<>>, peers'[f], table'[f], f \in gap', f)
  PROVE  FlowOf(queue', peers'[f], table'[f], f \in gap', f)
<1>1. /\ Event("handshake", f, TRUE).flow = f
      /\ Event("change_cipher", f, TRUE).flow = f
      /\ Event("change_cipher", f, FALSE).flow = f
      /\ Event("ssl_conn_attempt", f, TRUE).flow = f
      /\ Event("ssl_conn_server_reply", f, FALSE).flow = f
      /\ Event("connection_state_remove", f, FALSE).flow = f
  BY ONLY TRUE DEF Event
<1>2. /\ ~In(queue', Event("handshake", f, TRUE))
      /\ ~In(queue', Event("change_cipher", f, TRUE))
      /\ ~In(queue', Event("change_cipher", f, FALSE))
      /\ ~In(queue', Event("ssl_conn_attempt", f, TRUE))
      /\ ~In(queue', Event("ssl_conn_server_reply", f, FALSE))
      /\ ~In(queue', Event("connection_state_remove", f, FALSE))
  BY <1>1, Zenon
<1>3. \A x : ~In(<<>>, x)
  BY EmptyQueue, Zenon
<1>4. CompleteOf(<<>>, peers'[f], table'[f], f) => CompleteOf(queue', peers'[f], table'[f], f)
  BY <1>3, Zenon DEF CompleteOf
<1>. QED  BY <1>2, <1>3, <1>4, Zenon DEF FlowOf, SentOf, KnownOf

\* A packet of f arrives.
LEMMA ArriveCopy ==
  ASSUME CopyInv, NEW f \in Flows, NEW evs \in Seq(EventType), Arrives(f, evs),
         peers' \in [Flows -> Side], BehindOf(peers'[f]), peers'[f].skip = peers[f].skip,
         \A g \in Flows : g # f => peers'[g] = peers[g] /\ (g \in gap' <=> g \in gap),
         \A x : In(evs, x) => /\ x.flow = f /\ x.ev # "connection_state_remove"
                              /\ x.ev = "ssl_conn_attempt" => x.is,
         \A k \in 1..Len(evs) : evs[k].ev = "ssl_conn_attempt" => k = Len(evs),
         FlowOf(<<>>, peers[f], table[f], f \in gap, f) /\ ~peers[f].skip =>
           FlowOf(evs, peers'[f], table[f], f \in gap', f)
  PROVE  CopyInv'
<1>1. /\ \A g \in Flows : BehindOf(peers[g])
      /\ \A g \in Flows : FlowOf(queue, peers[g], table[g], g \in gap, g)
  BY CopyInvOf, Zenon DEF CopyInv
<1>2. bro = "up" /\ queue = <<>> /\ table' = table /\ bro' = bro
  BY DEF Arrives
<1>3. PICK past \in BOOLEAN :
        queue' = IF peers[f].skip THEN <<>> ELSE Append(evs, Event("new_packet_final", f, past))
  <2>1. \A past \in Caught(f) : past \in BOOLEAN
    BY Zenon DEF Caught
  <2>. QED  BY <2>1, Zenon DEF Arrives
<1>. DEFINE E == Event("new_packet_final", f, past)
<1>4. E \in EventType
  BY EventOfType, SMTT(40) DEF EventNames
<1>5. E.ev = "new_packet_final" /\ E.flow = f
  BY DEF Event
<1>. HIDE DEF E
<1>6. CASE peers[f].skip
  <2>1. queue' = <<>>
    BY <1>3, <1>6, Zenon
  <2>2. table[f] = None
    BY <1>1, <1>6, Zenon DEF FlowOf, SentOf
  <2>3. FlowOf(queue', peers'[f], table'[f], f \in gap', f)
    BY <1>2, <2>1, <2>2, EmptyQueue, Zenon
  <2>4. \A g \in Flows : g # f => FlowOf(queue', peers'[g], table'[g], g \in gap', g)
    BY <1>1, <1>2, <2>1, Zenon DEF FlowOf, SentOf, KnownOf
  <2>5. \A g \in Flows : BehindOf(peers'[g])
    BY <1>1, Zenon
  <2>6. ShapeOf(queue')
    BY <2>1, EmptyQueue, Zenon
  <2>7. CrashNeedsGap'
    BY <1>2 DEF CrashNeedsGap
  <2>. QED  BY <2>3, <2>4, <2>5, <2>6, <2>7, CopyInvNext, Zenon DEF CopyInv
<1>7. CASE ~peers[f].skip
  <2>1. queue' = Append(evs, E)
    BY <1>3, <1>7, Zenon DEF E
  <2>2. FlowOf(evs, peers'[f], table'[f], f \in gap', f)
    BY <1>1, <1>2, <1>7, Zenon
  <2>3. FlowOf(queue', peers'[f], table'[f], f \in gap', f)
    BY <1>4, <1>5, <2>1, <2>2, FinalFlow, Zenon
  <2>4. \A x : In(queue', x) => x.flow = f
    <3>1. \A x : In(queue', x) <=> (In(evs, x) \/ x = E)
      BY <1>4, <2>1, InAppend, Zenon
    <3>. QED  BY <1>5, <3>1, Zenon
  <2>5. ASSUME NEW g \in Flows, g # f PROVE FlowOf(queue', peers'[g], table'[g], g \in gap', g)
    <3>1. FlowOf(<<>>, peers'[g], table'[g], g \in gap', g)
      BY <1>1, <1>2, <2>5, Zenon DEF FlowOf, SentOf, KnownOf
    <3>. QED  BY <2>4, <2>5, <3>1, SilentFlow, Zenon
  <2>6. \A g \in Flows : BehindOf(peers'[g])
    BY <1>1, Zenon
  <2>7. ShapeOf(queue')
    <3>1. Len(evs) \in Nat /\ Len(queue') = Len(evs) + 1 /\ queue'[Len(evs) + 1] = E
      BY <1>4, <2>1
    <3>2. \A k \in 1..Len(evs) : queue'[k] = evs[k]
      BY <1>4, <2>1
    <3>3. \A k \in 1..Len(evs) :
            /\ evs[k].ev # "connection_state_remove"
            /\ evs[k].ev = "ssl_conn_attempt" => evs[k].is /\ k = Len(evs)
      BY Zenon DEF In
    <3>4. Len(queue') - 1 = Len(evs) /\ \A k \in 1..Len(queue') : k \in 1..Len(evs) \/ k = Len(evs) + 1
      BY <3>1, SMTT(40)
    <3>5. /\ E.ev # "connection_state_remove" /\ E.ev # "ssl_conn_attempt"
      BY <1>5
    <3>. QED  BY <3>1, <3>2, <3>3, <3>4, <3>5, ZenonT(60) DEF ShapeOf
  <2>8. CrashNeedsGap'
    BY <1>2 DEF CrashNeedsGap
  <2>. QED  BY <2>3, <2>5, <2>6, <2>7, <2>8, CopyInvNext, Zenon DEF CopyInv
<1>. QED  BY <1>6, <1>7

\* The next records of a side are sent, or a packet without.
PutClient(p, n) == [p EXCEPT !.client = p.client + n]
PutServer(p, n) == [p EXCEPT !.server = p.server + n]
PutExtra(p) == [p EXCEPT !.extra = p.extra + 1]

\* Nothing else changes.
LEMMA SetSide ==
  ASSUME NEW p \in Side, NEW n
  PROVE  /\ p.client + n \in 0..5 =>
              /\ PutClient(p, n) \in Side /\ PutClient(p, n).client = p.client + n
              /\ PutClient(p, n).server = p.server /\ PutClient(p, n).skip = p.skip
         /\ p.server + n \in 0..5 =>
              /\ PutServer(p, n) \in Side /\ PutServer(p, n).server = p.server + n
              /\ PutServer(p, n).client = p.client /\ PutServer(p, n).skip = p.skip
         /\ /\ PutExtra(p) \in Side /\ PutExtra(p).server = p.server
            /\ PutExtra(p).client = p.client /\ PutExtra(p).skip = p.skip
<1>1. p.extra \in Nat
  BY Zenon DEF Side
<1>2. p.extra + 1 \in Nat
  BY <1>1
<1>3. p.client + n \in 0..5 =>
        /\ PutClient(p, n) \in Side /\ PutClient(p, n).client = p.client + n
        /\ PutClient(p, n).server = p.server /\ PutClient(p, n).skip = p.skip
  BY Zenon DEF PutClient, Side
<1>4. p.server + n \in 0..5 =>
        /\ PutServer(p, n) \in Side /\ PutServer(p, n).server = p.server + n
        /\ PutServer(p, n).client = p.client /\ PutServer(p, n).skip = p.skip
  BY Zenon DEF PutServer, Side
<1>5. /\ PutExtra(p) \in Side /\ PutExtra(p).server = p.server
      /\ PutExtra(p).client = p.client /\ PutExtra(p).skip = p.skip
  BY <1>2, Zenon DEF PutExtra, Side
<1>. QED  BY <1>3, <1>4, <1>5, Zenon

\* The other flows' peers stay where they are.
LEMMA OneSide ==
  ASSUME peers \in [Flows -> Side], NEW f \in Flows, NEW v \in Side, peers' = [peers EXCEPT ![f] = v]
  PROVE  /\ peers' \in [Flows -> Side] /\ peers'[f] = v
         /\ \A g \in Flows : g # f => peers'[g] = peers[g]
OBVIOUS

\* A packet that starts with the client's change of cipher raises that first.
LEMMA CcsFirst ==
  ASSUME NEW f \in Flows, NEW n \in 1..2
  PROVE  /\ RecordsEvents(f, TRUE, ClientRecords, 3, n) # <<>>
         /\ Head(RecordsEvents(f, TRUE, ClientRecords, 3, n)) = Event("change_cipher", f, TRUE)
<1>1. ClientRecords[3] = "ccs"
  BY DEF ClientRecords
<1>2. PICK cc : cc = Event("change_cipher", f, TRUE)
  BY Zenon
<1>3. cc \in EventType
  <2>1. "change_cipher" \in EventNames /\ TRUE \in BOOLEAN
    BY DEF EventNames
  <2>. QED  BY <1>2, <2>1, EventOfType, Zenon
<1>4. RecordEvents(f, TRUE, "ccs") = <<cc>>
  <2>1. "ccs" # "app"
    OBVIOUS
  <2>. QED  BY <1>2, <2>1, Zenon DEF RecordEvents
<1>5. PICK X \in Seq(EventType) : RecordsEvents(f, TRUE, ClientRecords, 3, n) = <<cc>> \o X
  <2>1. RecordEvents(f, TRUE, ClientRecords[3 + 1]) \in Seq(EventType) /\ <<>> \in Seq(EventType)
    <3>1. TRUE \in BOOLEAN /\ <<>> \in Seq(EventType)
      OBVIOUS
    <3>. QED  BY <3>1, RecordEventsType, Zenon
  <2>. QED  BY <1>1, <1>4, <2>1, Zenon DEF RecordsEvents
<1>6. <<cc>> \o X # <<>> /\ Head(<<cc>> \o X) = cc
  BY ONLY <1>3, X \in Seq(EventType)
<1>. QED  BY <1>2, <1>5, <1>6, Zenon

\* The ClientHello raises ssl_conn_attempt last.
LEMMA HelloLast ==
  ASSUME NEW f \in Flows
  PROVE  /\ RecordEvents(f, TRUE, "hello") \in Seq(EventType)
         /\ \A k \in 1..Len(RecordEvents(f, TRUE, "hello")) :
              RecordEvents(f, TRUE, "hello")[k].ev = "ssl_conn_attempt" =>
                k = Len(RecordEvents(f, TRUE, "hello"))
<1>1. PICK hs, at : hs = Event("handshake", f, TRUE) /\ at = Event("ssl_conn_attempt", f, TRUE)
  BY Zenon
<1>2. RecordEvents(f, TRUE, "hello") = <<hs, at>>
  <2>1. "hello" # "app" /\ "hello" # "ccs" /\ "hello" # "ske"
    OBVIOUS
  <2>. QED  BY <1>1, <2>1, Zenon DEF RecordEvents
<1>3. hs.ev = "handshake"
  BY ONLY <1>1 DEF Event
<1>4. \A k \in 1..Len(<<hs, at>>) : <<hs, at>>[k].ev = "ssl_conn_attempt" => k = Len(<<hs, at>>)
  BY ONLY <1>3
<1>5. TRUE \in BOOLEAN
  OBVIOUS
<1>. QED  BY <1>2, <1>4, <1>5, RecordEventsType, Zenon

\* What holds of an entry when the queue is empty.
Quiet(p, te) ==
  /\ p.server >= 1 => te.srand
  /\ p.client >= 2 => te.srand
  /\ p.client = 3 => te.state >= 2
  /\ p.client >= 4 => te.state >= 2 /\ te.civ
  /\ p.server >= 3 => te.civ
  /\ te.state = 4 => p.server >= 3

\* This.
LEMMA QuietFlow ==
  ASSUME NEW p, NEW te, NEW missing, NEW f, FlowOf(<<>>, p, te, missing, f)
  PROVE  missing \/ te = None \/ Quiet(p, te)
<1>1. \A x : ~In(<<>>, x)
  BY EmptyQueue, Zenon
<1>2. missing \/ te = None \/ CompleteOf(<<>>, p, te, f)
  BY <1>1, Zenon DEF FlowOf, KnownOf
<1>3. CompleteOf(<<>>, p, te, f) => Quiet(p, te)
  BY <1>1, Zenon DEF CompleteOf, Quiet
<1>. QED  BY <1>2, <1>3, Zenon

\* The client's next packet keeps the invariant of its flow.
LEMMA ClientFlow ==
  ASSUME NEW f \in Flows, NEW n \in 1..2, NEW p \in Side, BehindOf(p), p.client + n <= ClientMay(p),
         NEW new \in Side, new.client = p.client + n, new.server = p.server,
         NEW te, NEW missing, FlowOf(<<>>, p, te, missing, f),
         NEW evs, evs = RecordsEvents(f, TRUE, ClientRecords, p.client + 1, n)
  PROVE  /\ BehindOf(new) /\ (~new.skip => FlowOf(evs, new, te, missing, f))
         /\ p.client + 1 \in 1..5 /\ p.client + 1 + n <= 6
<1>. DEFINE c == p.client
            s == p.server
<1>1. c \in 0..5 /\ s \in 0..5
  BY Zenon DEF Side
<1>2. /\ c + n <= 5
      /\ s < 2 => c + n <= 1
      /\ s <= 3 => c + n <= 4
  BY <1>1 DEF ClientMay
<1>3. /\ c = 0 => s = 0
      /\ c < 4 => s <= 2
      /\ c >= 2 => s >= 2
      /\ c = 5 => s >= 4
  BY DEF BehindOf
<1>. HIDE DEF c, s
<1>4. /\ c + 1 \in 1..5 /\ c + 1 + n <= 6 /\ (c = 0 => n = 1)
      /\ c + n = 0 => s = 0
      /\ c + n < 4 => s <= 2
      /\ c + n >= 2 => s >= 2
      /\ c + n = 5 => s >= 4
  BY <1>1, <1>2, <1>3
<1>5. /\ c + 1 <= 4 => s <= 2
      /\ c + 1 = 1 => c + n = 1 /\ s = 0
      /\ c + n >= 2 => s >= 1
      /\ c + n = 3 => c + 1 <= 3 /\ c + 1 + n > 3
      /\ c + n >= 4 => c >= 4 \/ c = 3 \/ c + 1 = 3
      /\ c + n >= 4 => c >= 4 \/ (c + 1 <= 4 /\ c + 1 + n > 4)
  BY <1>1, <1>2, <1>3
<1>6. BehindOf(new)
  BY <1>4, Zenon DEF BehindOf, c, s
<1>7. /\ c + 1 <= 3 /\ c + 1 + n > 3 => In(evs, Event("change_cipher", f, TRUE))
      /\ c + 1 <= 4 /\ c + 1 + n > 4 => In(evs, Event("handshake", f, TRUE))
      /\ \A x : In(evs, x) =>
           /\ x.flow = f /\ x.is /\ x.ev # "connection_state_remove"
           /\ x.ev = "handshake" => c + 1 <= 4
           /\ x.ev = "ssl_conn_attempt" => c + 1 = 1
  <2>1. ClientEvents(evs, f, c + 1, n)
    BY <1>4, ClientPacketIn, Zenon DEF c
  <2>. QED  BY <2>1, Zenon DEF ClientEvents
<1>8. /\ In(evs, Event("handshake", f, TRUE)) => c + 1 <= 4
      /\ In(evs, Event("ssl_conn_attempt", f, TRUE)) => c + 1 = 1
      /\ ~In(evs, Event("change_cipher", f, FALSE))
  <2>1. /\ Event("handshake", f, TRUE).ev = "handshake"
        /\ Event("ssl_conn_attempt", f, TRUE).ev = "ssl_conn_attempt"
        /\ ~Event("change_cipher", f, FALSE).is
    BY ONLY TRUE DEF Event
  <2>. QED  BY <1>7, <2>1, Zenon
<1>9. ~new.skip => SentOf(evs, new, te, missing, f)
  BY <1>5, <1>8, Zenon DEF SentOf, c, s
<1>10. ASSUME ~missing, te # None PROVE CompleteOf(evs, new, te, f)
  <2>1. /\ s >= 1 => te.srand
        /\ c >= 2 => te.srand
        /\ c = 3 => te.state >= 2
        /\ c >= 4 => te.state >= 2 /\ te.civ
        /\ s >= 3 => te.civ
        /\ te.state = 4 => s >= 3
    <3>1. Quiet(p, te)
      BY <1>10, QuietFlow
    <3>. QED  BY <3>1, Zenon DEF Quiet, c, s
  <2>2. c + n >= 4 => te.state >= 2 \/ (evs # <<>> /\ Head(evs) = Event("change_cipher", f, TRUE))
    <3>1. c + 1 = 3 => evs # <<>> /\ Head(evs) = Event("change_cipher", f, TRUE)
      BY CcsFirst, Zenon DEF c
    <3>. QED  BY <1>5, <2>1, <3>1, Zenon
  <2>. QED  BY <1>5, <1>7, <2>1, <2>2, Zenon DEF CompleteOf, c, s
<1>. QED  BY <1>4, <1>6, <1>9, <1>10, Zenon DEF FlowOf, KnownOf, c

\* The server's next packet keeps the invariant of its flow.
LEMMA ServerFlow ==
  ASSUME NEW f \in Flows, NEW n \in 1..2, NEW p \in Side, BehindOf(p), p.server + n <= ServerMay(p),
         NEW new \in Side, new.server = p.server + n, new.client = p.client,
         NEW te, NEW missing, FlowOf(<<>>, p, te, missing, f),
         NEW evs, evs = RecordsEvents(f, FALSE, ServerRecords, p.server + 1, n)
  PROVE  /\ BehindOf(new) /\ (~new.skip => FlowOf(evs, new, te, missing, f))
         /\ p.server + 1 \in 1..5 /\ p.server + 1 + n <= 6
<1>. DEFINE c == p.client
            s == p.server
<1>1. c \in 0..5 /\ s \in 0..5
  BY Zenon DEF Side
<1>2. /\ s + n <= 5 /\ c >= 1
      /\ c < 4 => s + n <= 2
  BY <1>1 DEF ServerMay
<1>3. /\ c = 0 => s = 0
      /\ c < 4 => s <= 2
      /\ c >= 2 => s >= 2
      /\ c = 5 => s >= 4
  BY DEF BehindOf
<1>. HIDE DEF c, s
<1>4. /\ s + 1 \in 1..5 /\ s + 1 + n <= 6
      /\ c = 0 => s + n = 0
      /\ c < 4 => s + n <= 2
      /\ c >= 2 => s + n >= 2
      /\ c = 5 => s + n >= 4
  BY <1>1, <1>2, <1>3
<1>5. /\ s >= 1 \/ s + 1 = 1
      /\ s + 1 + n > 3 => s + n >= 3
      /\ s + n >= 3 => c >= 4
      /\ s >= 3 => s + n >= 3
  BY <1>1, <1>2, <1>3
<1>6. BehindOf(new)
  BY <1>4, Zenon DEF BehindOf, c, s
<1>7. /\ s + 1 = 1 => In(evs, Event("ssl_conn_server_reply", f, FALSE))
      /\ \A x : In(evs, x) =>
           /\ x.flow = f /\ ~x.is /\ x.ev # "connection_state_remove" /\ x.ev # "ssl_conn_attempt"
           /\ x.ev = "change_cipher" => s + 1 + n > 3
  <2>1. ServerEvents(evs, f, s + 1, n)
    BY <1>4, ServerPacketIn, Zenon DEF s
  <2>. QED  BY <2>1, Zenon DEF ServerEvents
<1>8. /\ ~In(evs, Event("handshake", f, TRUE))
      /\ ~In(evs, Event("ssl_conn_attempt", f, TRUE))
      /\ In(evs, Event("change_cipher", f, FALSE)) => s + n >= 3
  <2>1. /\ Event("handshake", f, TRUE).is
        /\ Event("ssl_conn_attempt", f, TRUE).is
        /\ Event("change_cipher", f, FALSE).ev = "change_cipher"
    BY ONLY TRUE DEF Event
  <2>. QED  BY <1>5, <1>7, <2>1, Zenon
<1>9. ~new.skip => SentOf(evs, new, te, missing, f)
  BY <1>8, Zenon DEF SentOf, c, s
<1>10. ASSUME ~missing, te # None PROVE CompleteOf(evs, new, te, f)
  <2>1. /\ s >= 1 => te.srand
        /\ c >= 2 => te.srand
        /\ c = 3 => te.state >= 2
        /\ c >= 4 => te.state >= 2 /\ te.civ
        /\ s >= 3 => te.civ
        /\ te.state = 4 => s >= 3
    <3>1. Quiet(p, te)
      BY <1>10, QuietFlow
    <3>. QED  BY <3>1, Zenon DEF Quiet, c, s
  <2>. QED  BY <1>5, <1>7, <2>1, Zenon DEF CompleteOf, c, s
<1>. QED  BY <1>4, <1>6, <1>9, <1>10, Zenon DEF FlowOf, KnownOf, s

\* A packet of the client keeps the invariant.
LEMMA ClientCopy ==
  ASSUME CopyInv, NEW f \in Flows, ClientPacket(f)
  PROVE  CopyInv'
<1>1. /\ peers \in [Flows -> Side] /\ BehindOf(peers[f])
      /\ FlowOf(queue, peers[f], table[f], f \in gap, f)
  BY CopyInvOf, Zenon DEF CopyInv
<1>2. PICK n \in 1..2 :
        /\ peers[f].client + n <= ClientMay(peers[f])
        /\ Arrives(f, RecordsEvents(f, TRUE, ClientRecords, peers[f].client + 1, n))
        /\ peers' = [peers EXCEPT ![f].client = @ + n]
        /\ UNCHANGED gap
  BY Zenon DEF ClientPacket
<1>. DEFINE p == peers[f]
            i == p.client + 1
            evs == RecordsEvents(f, TRUE, ClientRecords, i, n)
            new == PutClient(p, n)
<1>3. p \in Side
  BY <1>1
<1>4. p.client \in 0..5 /\ p.server \in 0..5
  BY <1>3, Zenon DEF Side
<1>5. p.client + n \in 0..5
  BY <1>2, <1>4 DEF ClientMay
<1>6. /\ new \in Side /\ new.client = p.client + n
      /\ new.server = p.server /\ new.skip = p.skip
  BY <1>3, <1>5, SetSide, Zenon
<1>7. peers' = [peers EXCEPT ![f] = new]
  BY <1>2, Zenon DEF PutClient
<1>8. evs \in Seq(EventType)
  <2>1. TRUE \in BOOLEAN
    OBVIOUS
  <2>. QED  BY <2>1, RecordsIn, Zenon
<1>9. queue = <<>>
  BY <1>2 DEF Arrives
<1>10. /\ peers' \in [Flows -> Side] /\ peers'[f] = new
       /\ \A g \in Flows : g # f => peers'[g] = peers[g]
  BY <1>1, <1>6, <1>7, OneSide, Zenon
<1>11. /\ BehindOf(new) /\ (~new.skip => FlowOf(evs, new, table[f], f \in gap, f))
       /\ i \in 1..5 /\ i + n <= 6
  <2>1. PICK te, missing : te = table[f] /\ missing = (f \in gap)
    BY Zenon
  <2>2. FlowOf(<<>>, p, te, missing, f)
    BY <1>1, <1>9, <2>1, Zenon
  <2>3. p.client + n <= ClientMay(p)
    BY <1>2
  <2>. HIDE DEF new
  <2>4. /\ BehindOf(new) /\ (~new.skip => FlowOf(evs, new, te, missing, f))
        /\ i \in 1..5 /\ i + n <= 6
    BY <1>1, <1>3, <1>6, <2>2, <2>3, ClientFlow, Zenon
  <2>. QED  BY <2>1, <2>4, Zenon
<1>12. ClientEvents(evs, f, i, n)
  BY <1>11, ClientPacketIn, Zenon
<1>13. \A k \in 1..Len(evs) : evs[k].ev = "ssl_conn_attempt" => k = Len(evs)
  <2>1. CASE i = 1
    <3>1. n = 1
      BY <1>1, <1>2, <1>4, <2>1 DEF BehindOf, ClientMay
    <3>2. evs = RecordEvents(f, TRUE, "hello") \o <<>>
      <4>1. ClientRecords[1] = "hello" /\ 1 # 2
        BY DEF ClientRecords
      <4>. QED  BY <2>1, <3>1, <4>1, Zenon DEF RecordsEvents
    <3>3. RecordEvents(f, TRUE, "hello") \o <<>> = RecordEvents(f, TRUE, "hello")
      <4>1. RecordEvents(f, TRUE, "hello") \in Seq(EventType)
        BY HelloLast, Zenon
      <4>2. \A u \in Seq(EventType) : u \o <<>> = u
        OBVIOUS
      <4>. QED  BY <4>1, <4>2, Zenon
    <3>. HIDE DEF evs
    <3>. QED  BY <3>2, <3>3, HelloLast, Zenon
  <2>2. CASE i # 1
    <3>. HIDE DEF evs, i
    <3>. QED  BY <1>12, <2>2, Zenon DEF ClientEvents, In
  <2>. QED  BY <2>1, <2>2, Zenon
<1>. HIDE DEF evs, new
<1>14. Arrives(f, evs) /\ gap' = gap
  BY <1>2, Zenon DEF evs
<1>. HIDE DEF i, p
<1>15. \A x : In(evs, x) => /\ x.flow = f /\ x.ev # "connection_state_remove"
                            /\ x.ev = "ssl_conn_attempt" => x.is
  BY <1>12, Zenon DEF ClientEvents
<1>16. peers'[f].skip = peers[f].skip /\ BehindOf(peers'[f])
  BY <1>6, <1>10, <1>11, Zenon DEF p
<1>17. ~peers[f].skip => FlowOf(evs, peers'[f], table[f], f \in gap', f)
  BY <1>6, <1>10, <1>11, <1>14, Zenon DEF p
<1>18. \A g \in Flows : g # f => peers'[g] = peers[g] /\ (g \in gap' <=> g \in gap)
  BY <1>10, <1>14, Zenon
<1>. QED  BY <1>8, <1>10, <1>13, <1>14, <1>15, <1>16, <1>17, <1>18, ArriveCopy, Zenon

\* A packet of the server keeps the invariant.
LEMMA ServerCopy ==
  ASSUME CopyInv, NEW f \in Flows, ServerPacket(f)
  PROVE  CopyInv'
<1>1. /\ peers \in [Flows -> Side] /\ BehindOf(peers[f])
      /\ FlowOf(queue, peers[f], table[f], f \in gap, f)
  BY CopyInvOf, Zenon DEF CopyInv
<1>2. PICK n \in 1..2 :
        /\ peers[f].server + n <= ServerMay(peers[f])
        /\ Arrives(f, RecordsEvents(f, FALSE, ServerRecords, peers[f].server + 1, n))
        /\ peers' = [peers EXCEPT ![f].server = @ + n]
        /\ UNCHANGED gap
  BY Zenon DEF ServerPacket
<1>. DEFINE p == peers[f]
            i == p.server + 1
            evs == RecordsEvents(f, FALSE, ServerRecords, i, n)
            new == PutServer(p, n)
<1>3. p \in Side
  BY <1>1
<1>4. p.client \in 0..5 /\ p.server \in 0..5
  BY <1>3, Zenon DEF Side
<1>5. p.server + n \in 0..5
  BY <1>2, <1>4 DEF ServerMay
<1>6. /\ new \in Side /\ new.server = p.server + n
      /\ new.client = p.client /\ new.skip = p.skip
  BY <1>3, <1>5, SetSide, Zenon
<1>7. peers' = [peers EXCEPT ![f] = new]
  BY <1>2, Zenon DEF PutServer
<1>8. evs \in Seq(EventType)
  <2>1. FALSE \in BOOLEAN
    OBVIOUS
  <2>. QED  BY <2>1, RecordsIn, Zenon
<1>9. queue = <<>>
  BY <1>2 DEF Arrives
<1>10. /\ peers' \in [Flows -> Side] /\ peers'[f] = new
       /\ \A g \in Flows : g # f => peers'[g] = peers[g]
  BY <1>1, <1>6, <1>7, OneSide, Zenon
<1>11. /\ BehindOf(new) /\ (~new.skip => FlowOf(evs, new, table[f], f \in gap, f))
       /\ i \in 1..5 /\ i + n <= 6
  <2>1. PICK te, missing : te = table[f] /\ missing = (f \in gap)
    BY Zenon
  <2>2. FlowOf(<<>>, p, te, missing, f)
    BY <1>1, <1>9, <2>1, Zenon
  <2>3. p.server + n <= ServerMay(p)
    BY <1>2
  <2>. HIDE DEF new
  <2>4. /\ BehindOf(new) /\ (~new.skip => FlowOf(evs, new, te, missing, f))
        /\ i \in 1..5 /\ i + n <= 6
    BY <1>1, <1>3, <1>6, <2>2, <2>3, ServerFlow, Zenon
  <2>. QED  BY <2>1, <2>4, Zenon
<1>12. ServerEvents(evs, f, i, n)
  BY <1>11, ServerPacketIn, Zenon
<1>13. \A k \in 1..Len(evs) : evs[k].ev = "ssl_conn_attempt" => k = Len(evs)
  <2>. HIDE DEF evs, i
  <2>. QED  BY <1>12, Zenon DEF ServerEvents, In
<1>. HIDE DEF evs, new
<1>14. Arrives(f, evs) /\ gap' = gap
  BY <1>2, Zenon DEF evs
<1>. HIDE DEF i, p
<1>15. \A x : In(evs, x) => /\ x.flow = f /\ x.ev # "connection_state_remove"
                            /\ x.ev = "ssl_conn_attempt" => x.is
  BY <1>12, Zenon DEF ServerEvents
<1>16. peers'[f].skip = peers[f].skip /\ BehindOf(peers'[f])
  BY <1>6, <1>10, <1>11, Zenon DEF p
<1>17. ~peers[f].skip => FlowOf(evs, peers'[f], table[f], f \in gap', f)
  BY <1>6, <1>10, <1>11, <1>14, Zenon DEF p
<1>18. \A g \in Flows : g # f => peers'[g] = peers[g] /\ (g \in gap' <=> g \in gap)
  BY <1>10, <1>14, Zenon
<1>. QED  BY <1>8, <1>10, <1>13, <1>14, <1>15, <1>16, <1>17, <1>18, ArriveCopy, Zenon

\* A packet that brings no record of the handshake keeps the invariant of its
\* flow, and so does a second ClientHello.
LEMMA OtherFlow ==
  ASSUME NEW f, NEW p, NEW new, NEW te, NEW missing, NEW late, NEW evs,
         FlowOf(<<>>, p, te, missing, f), missing => late, ~new.skip,
         new.client = p.client, new.server = p.server,
         In(evs, Event("handshake", f, TRUE)) => p.server <= 2,
         ~In(evs, Event("change_cipher", f, FALSE)),
         In(evs, Event("ssl_conn_attempt", f, TRUE)) /\ ~late => p.client = 1 /\ p.server = 0
  PROVE  FlowOf(evs, new, te, late, f)
<1>1. SentOf(evs, new, te, late, f)
  BY Zenon DEF SentOf
<1>2. missing \/ te = None \/ Quiet(p, te)
  BY QuietFlow
<1>3. Quiet(p, te) => CompleteOf(evs, new, te, f)
  BY Zenon DEF Quiet, CompleteOf
<1>. QED  BY <1>1, <1>2, <1>3, Zenon DEF FlowOf, KnownOf

\* What the packets without a new record raise: nothing, an alert, or what a
\* ClientHello raises.
OtherEvents(evs, f, hello) ==
  /\ evs \in Seq(EventType)
  /\ \A x : In(evs, x) => /\ x.flow = f /\ x.ev # "connection_state_remove" /\ x.ev # "change_cipher"
                          /\ x.ev \in {"ssl_conn_attempt", "handshake"} => hello /\ x.is
  /\ \A k \in 1..Len(evs) : evs[k].ev = "ssl_conn_attempt" => k = Len(evs)

\* They do.
LEMMA OtherPacketIn ==
  ASSUME NEW f \in Flows
  PROVE  /\ OtherEvents(<<>>, f, FALSE)
         /\ \A orig \in BOOLEAN : OtherEvents(<<Event("ssl_conn_alert", f, orig)>>, f, FALSE)
         /\ OtherEvents(RecordEvents(f, TRUE, "hello"), f, TRUE)
<1>1. OtherEvents(<<>>, f, FALSE)
  <2>1. <<>> \in Seq(EventType) /\ \A k \in 1..Len(<<>>) : <<>>[k].ev = "ssl_conn_attempt" => k = Len(<<>>)
    OBVIOUS
  <2>. QED  BY <2>1, EmptyQueue, Zenon DEF OtherEvents
<1>2. ASSUME NEW orig \in BOOLEAN PROVE OtherEvents(<<Event("ssl_conn_alert", f, orig)>>, f, FALSE)
  <2>1. PICK a : a = Event("ssl_conn_alert", f, orig)
    BY Zenon
  <2>2. a.ev = "ssl_conn_alert" /\ a.flow = f
    BY ONLY <2>1 DEF Event
  <2>3. a \in EventType
    BY <2>1, EventOfType DEF EventNames
  <2>4. <<a>> \in Seq(EventType) /\ \A k \in 1..Len(<<a>>) : <<a>>[k].ev = "ssl_conn_attempt" => k = Len(<<a>>)
    BY <2>3
  <2>5. \A x : In(<<a>>, x) => x = a
    BY InOne
  <2>6. OtherEvents(<<a>>, f, FALSE)
    <3>1. \A x : In(<<a>>, x) => /\ x.flow = f /\ x.ev # "connection_state_remove"
                                 /\ x.ev # "change_cipher" /\ x.ev # "ssl_conn_attempt"
                                 /\ x.ev # "handshake"
      BY ONLY <2>2, <2>5
    <3>. QED  BY <2>4, <3>1, Zenon DEF OtherEvents
  <2>. QED  BY <2>1, <2>6, Zenon
<1>3. OtherEvents(RecordEvents(f, TRUE, "hello"), f, TRUE)
  <2>1. PICK R : R = RecordEvents(f, TRUE, "hello")
    BY Zenon
  <2>2. /\ R \in Seq(EventType)
        /\ \A k \in 1..Len(R) : R[k].ev = "ssl_conn_attempt" => k = Len(R)
    BY <2>1, HelloLast, Zenon
  <2>3. ClientRaises(R, "hello", f)
    BY <2>1, ClientRecordIn, Zenon
  <2>4. PICK hs, at : hs = Event("handshake", f, TRUE) /\ at = HelloEvent(f, TRUE)
    BY Zenon
  <2>5. \A x : In(R, x) => x = hs \/ x = at
    BY ONLY RecordIn, <2>1, <2>4, Zenon
  <2>6. hs.ev # "change_cipher" /\ at.ev # "change_cipher"
    BY ONLY <2>4 DEF Event, HelloEvent
  <2>7. \A x : In(R, x) => x.ev # "change_cipher"
    BY <2>5, <2>6, Zenon
  <2>8. OtherEvents(R, f, TRUE)
    BY <2>2, <2>3, <2>7, Zenon DEF OtherEvents, ClientRaises
  <2>. QED  BY <2>1, <2>8, Zenon
<1>. QED  BY <1>1, <1>2, <1>3, Zenon

\* A packet without a new record keeps the invariant.
LEMMA OtherCopy ==
  ASSUME CopyInv, NEW f \in Flows, OtherPacket(f)
  PROVE  CopyInv'
<1>1. /\ peers \in [Flows -> Side] /\ BehindOf(peers[f])
      /\ FlowOf(queue, peers[f], table[f], f \in gap, f)
  BY CopyInvOf, Zenon DEF CopyInv
<1>2. PICK evs, hello :
        /\ OtherEvents(evs, f, hello) /\ Arrives(f, evs)
        /\ \/ ~hello /\ gap' = gap
           \/ /\ peers[f].client = 1
              /\ gap' = IF peers[f].server > 0 THEN gap \cup {f} ELSE gap
  BY OtherPacketIn, Zenon DEF OtherPacket
<1>. DEFINE p == peers[f]
            new == PutExtra(p)
<1>3. p \in Side
  BY <1>1
<1>4. /\ new \in Side /\ new.client = p.client /\ new.server = p.server /\ new.skip = p.skip
  BY <1>3, SetSide, Zenon
<1>5. peers' = [peers EXCEPT ![f] = new]
  BY Zenon DEF PutExtra, OtherPacket
<1>. HIDE DEF new
<1>6. /\ peers' \in [Flows -> Side] /\ peers'[f] = new
      /\ \A g \in Flows : g # f => peers'[g] = peers[g]
  BY <1>1, <1>4, <1>5, OneSide, Zenon
<1>. HIDE DEF p
<1>7. queue = <<>>
  BY <1>2 DEF Arrives
<1>8. BehindOf(new)
  BY <1>1, <1>4, Zenon DEF BehindOf, p
<1>9. /\ f \in gap => f \in gap'
      /\ hello => p.server <= 2
      /\ hello /\ f \notin gap' => p.client = 1 /\ p.server = 0
      /\ \A g \in Flows : g # f => (g \in gap' <=> g \in gap)
  <2>1. p.server \in 0..5 /\ p.client \in 0..5 /\ BehindOf(p)
    BY <1>1, <1>3, Zenon DEF Side, p
  <2>. QED  BY <1>2, <2>1 DEF BehindOf, p
<1>10. /\ In(evs, Event("handshake", f, TRUE)) => hello
       /\ In(evs, Event("ssl_conn_attempt", f, TRUE)) => hello
       /\ ~In(evs, Event("change_cipher", f, FALSE))
  <2>1. /\ Event("handshake", f, TRUE).ev = "handshake"
        /\ Event("ssl_conn_attempt", f, TRUE).ev = "ssl_conn_attempt"
        /\ Event("change_cipher", f, FALSE).ev = "change_cipher"
    BY ONLY TRUE DEF Event
  <2>. QED  BY <1>2, <2>1, Zenon DEF OtherEvents
<1>11. ~new.skip => FlowOf(evs, new, table[f], f \in gap', f)
  <2>1. PICK te, missing, late : te = table[f] /\ missing = (f \in gap) /\ late = (f \in gap')
    BY Zenon
  <2>2. FlowOf(<<>>, p, te, missing, f)
    BY <1>1, <1>7, <2>1, Zenon DEF p
  <2>3. /\ missing => late
        /\ In(evs, Event("handshake", f, TRUE)) => p.server <= 2
        /\ In(evs, Event("ssl_conn_attempt", f, TRUE)) /\ ~late => p.client = 1 /\ p.server = 0
    BY <1>9, <1>10, <2>1, Zenon
  <2>4. ~new.skip => FlowOf(evs, new, te, late, f)
    BY <1>4, <1>10, <2>2, <2>3, OtherFlow, Zenon
  <2>. QED  BY <2>1, <2>4, Zenon
<1>12. evs \in Seq(EventType) /\ Arrives(f, evs)
  BY <1>2, Zenon DEF OtherEvents
<1>13. \A x : In(evs, x) => /\ x.flow = f /\ x.ev # "connection_state_remove"
                            /\ x.ev = "ssl_conn_attempt" => x.is
  BY <1>2, Zenon DEF OtherEvents
<1>14. \A k \in 1..Len(evs) : evs[k].ev = "ssl_conn_attempt" => k = Len(evs)
  BY <1>2, Zenon DEF OtherEvents
<1>15. peers'[f].skip = peers[f].skip /\ BehindOf(peers'[f])
  BY <1>4, <1>6, <1>8, Zenon DEF p
<1>16. ~peers[f].skip => FlowOf(evs, peers'[f], table[f], f \in gap', f)
  BY <1>4, <1>6, <1>11, Zenon DEF p
<1>17. \A g \in Flows : g # f => peers'[g] = peers[g] /\ (g \in gap' <=> g \in gap)
  BY <1>6, <1>9, Zenon
<1>. QED  BY <1>6, <1>12, <1>13, <1>14, <1>15, <1>16, <1>17, ArriveCopy, Zenon

\* A packet that is missing from the copy keeps the invariant: its connection
\* is one whose copy has a gap from then on.
LEMMA MissedCopy ==
  ASSUME CopyInv, NEW f \in Flows, Missed(f)
  PROVE  CopyInv'
<1>1. /\ peers \in [Flows -> Side] /\ \A g \in Flows : BehindOf(peers[g])
      /\ \A g \in Flows : FlowOf(queue, peers[g], table[g], g \in gap, g)
  BY CopyInvOf, Zenon DEF CopyInv
<1>2. /\ bro' = "up" /\ queue = <<>> /\ queue' = <<>> /\ table' = table /\ gap' = gap \cup {f}
  BY DEF Missed
<1>. DEFINE p == peers[f]
<1>3. p \in Side
  BY <1>1
<1>4. p.client \in 0..5 /\ p.server \in 0..5 /\ BehindOf(p)
  BY <1>1, <1>3, Zenon DEF Side
<1>5. PICK new \in Side :
        /\ BehindOf(new) /\ new.skip = p.skip
        /\ peers' = [peers EXCEPT ![f] = new]
  <2>1. CASE /\ p.client \in 1..ClientMay(p) - 1
             /\ peers' = [peers EXCEPT ![f].client = @ + 1]
    <3>. DEFINE new == PutClient(p, 1)
    <3>1. /\ p.client + 1 \in 0..5 /\ p.client + 1 # 0
          /\ p.client + 1 < 4 => p.server <= 2
          /\ p.client + 1 >= 2 => p.server >= 2
          /\ p.client + 1 = 5 => p.server >= 4
      <4>1. /\ p.server < 2 => ClientMay(p) = 1
            /\ p.server \in 2..3 => ClientMay(p) = 4
            /\ p.server > 3 => ClientMay(p) = 5
        BY <1>4 DEF ClientMay
      <4>. QED  BY <1>4, <2>1, <4>1 DEF BehindOf
    <3>2. /\ new \in Side /\ new.client = p.client + 1 /\ new.server = p.server /\ new.skip = p.skip
      BY <1>3, <3>1, SetSide, Zenon
    <3>3. peers' = [peers EXCEPT ![f] = new]
      BY <2>1, Zenon DEF PutClient
    <3>. HIDE DEF new
    <3>4. BehindOf(new)
      BY <3>1, <3>2, Zenon DEF BehindOf
    <3>. QED  BY <3>2, <3>3, <3>4, Zenon
  <2>2. CASE /\ p.server < ServerMay(p)
             /\ peers' = [peers EXCEPT ![f].server = @ + 1]
    <3>. DEFINE new == PutServer(p, 1)
    <3>1. /\ p.server + 1 \in 0..5 /\ p.client # 0
          /\ p.client < 4 => p.server + 1 <= 2
          /\ p.client >= 2 => p.server + 1 >= 2
          /\ p.client = 5 => p.server + 1 >= 4
      <4>1. /\ p.client = 0 => ServerMay(p) = 0
            /\ p.client \in 1..3 => ServerMay(p) = 2
            /\ p.client = 4 => ServerMay(p) = 4
            /\ p.client = 5 => ServerMay(p) = 5
        BY <1>4 DEF ServerMay
      <4>. QED  BY <1>4, <2>2, <4>1 DEF BehindOf
    <3>2. /\ new \in Side /\ new.server = p.server + 1 /\ new.client = p.client /\ new.skip = p.skip
      BY <1>3, <3>1, SetSide, Zenon
    <3>3. peers' = [peers EXCEPT ![f] = new]
      BY <2>2, Zenon DEF PutServer
    <3>. HIDE DEF new
    <3>4. BehindOf(new)
      BY <3>1, <3>2, Zenon DEF BehindOf
    <3>. QED  BY <3>2, <3>3, <3>4, Zenon
  <2>. QED  BY <2>1, <2>2, Zenon DEF Missed
<1>6. /\ peers' \in [Flows -> Side] /\ peers'[f] = new
      /\ \A g \in Flows : g # f => peers'[g] = peers[g]
  BY <1>1, <1>5, OneSide, Zenon
<1>7. \A g \in Flows : BehindOf(peers'[g])
  BY <1>1, <1>5, <1>6, Zenon
<1>8. f \in gap' /\ \A g \in Flows : g # f => (g \in gap' <=> g \in gap)
  BY <1>2
<1>9. FlowOf(queue', peers'[f], table'[f], f \in gap', f)
  BY <1>1, <1>2, <1>5, <1>6, <1>8, EmptyQueue, Zenon DEF FlowOf, SentOf, KnownOf
<1>10. \A g \in Flows : g # f => FlowOf(queue', peers'[g], table'[g], g \in gap', g)
  BY <1>1, <1>2, <1>6, <1>8, Zenon DEF FlowOf, SentOf, KnownOf
<1>11. ShapeOf(queue') /\ CrashNeedsGap'
  BY <1>2, EmptyQueue DEF CrashNeedsGap
<1>. QED  BY <1>6, <1>7, <1>9, <1>10, <1>11, CopyInvNext, Zenon DEF CopyInv

\* The end of a connection keeps the invariant: what its entry has is of no
\* account to the connection that uses its conn_id next.
LEMMA EndsCopy ==
  ASSUME CopyInv, NEW f \in Flows, ConnectionEnds(f)
  PROVE  CopyInv'
<1>1. /\ peers \in [Flows -> Side] /\ \A g \in Flows : BehindOf(peers[g])
      /\ \A g \in Flows : FlowOf(queue, peers[g], table[g], g \in gap, g)
  BY CopyInvOf, Zenon DEF CopyInv
<1>2. PICK E : E = Event("connection_state_remove", f, FALSE)
  BY Zenon
<1>3. /\ bro' = "up" /\ queue = <<>> /\ queue' = <<E>> /\ table' = table /\ gap' = gap \ {f}
  BY <1>2, Zenon DEF ConnectionEnds
<1>4. E.ev = "connection_state_remove" /\ E.flow = f
  BY ONLY <1>2 DEF Event
<1>5. \A x : In(queue', x) <=> x = E
  BY <1>3, InOne, Zenon
<1>6. PICK new \in Side :
        /\ new.client = 0 /\ new.server = 0 /\ ~new.skip
        /\ peers' = [peers EXCEPT ![f] = new]
  <2>. DEFINE new == [session |-> peers[f].session + 1, client |-> 0, server |-> 0,
                      extra |-> 0, skip |-> FALSE]
  <2>1. peers[f].session \in Nat
    <3>1. peers[f] \in Side
      BY <1>1
    <3>. QED  BY <3>1, Zenon DEF Side
  <2>2. peers[f].session + 1 \in Nat /\ 0 \in 0..5 /\ 0 \in Nat
    BY <2>1
  <2>3. new \in Side /\ new.client = 0 /\ new.server = 0 /\ ~new.skip
    BY <2>2, Zenon DEF Side
  <2>4. peers' = [peers EXCEPT ![f] = new]
    BY Zenon DEF ConnectionEnds
  <2>. HIDE DEF new
  <2>. QED  BY <2>3, <2>4, Zenon
<1>7. /\ peers' \in [Flows -> Side] /\ peers'[f] = new
      /\ \A g \in Flows : g # f => peers'[g] = peers[g]
  BY <1>1, <1>6, OneSide, Zenon
<1>8. BehindOf(new)
  BY <1>6 DEF BehindOf
<1>9. \A g \in Flows : BehindOf(peers'[g])
  BY <1>1, <1>7, <1>8, Zenon
<1>10. /\ Event("handshake", f, TRUE) # E
       /\ Event("change_cipher", f, FALSE) # E
       /\ Event("ssl_conn_attempt", f, TRUE) # E
  BY ONLY <1>4 DEF Event
<1>11. FlowOf(queue', peers'[f], table'[f], f \in gap', f)
  BY <1>2, <1>5, <1>6, <1>7, <1>10, Zenon DEF FlowOf, SentOf, KnownOf
<1>12. ASSUME NEW g \in Flows, g # f PROVE FlowOf(queue', peers'[g], table'[g], g \in gap', g)
  <2>1. g \in gap' <=> g \in gap
    BY <1>3, <1>12
  <2>2. FlowOf(<<>>, peers'[g], table'[g], g \in gap', g)
    BY <1>1, <1>3, <1>7, <1>12, <2>1, Zenon DEF FlowOf, SentOf, KnownOf
  <2>3. \A x : In(queue', x) => x.flow # g
    BY <1>4, <1>5, <1>12, Zenon
  <2>. QED  BY <2>2, <2>3, SilentFlow, Zenon
<1>13. ShapeOf(queue')
  BY ONLY <1>3, <1>4 DEF ShapeOf
<1>14. CrashNeedsGap'
  BY <1>3 DEF CrashNeedsGap
<1>. QED  BY <1>7, <1>9, <1>11, <1>12, <1>13, <1>14, CopyInvNext, Zenon DEF CopyInv

\* The expiry of an entry, and the end of the process, keep the invariant.
LEMMA ForgetsCopy ==
  ASSUME CopyInv, queue' = <<>>, bro' # "crashed", UNCHANGED <<peers, gap>>,
         \A f \in Flows : table'[f] = None \/ (queue = <<>> /\ table'[f] = table[f])
  PROVE  CopyInv'
<1>1. /\ peers \in [Flows -> Side] /\ \A g \in Flows : BehindOf(peers[g])
      /\ \A g \in Flows : FlowOf(queue, peers[g], table[g], g \in gap, g)
  BY CopyInvOf, Zenon DEF CopyInv
<1>2. \A g \in Flows : FlowOf(queue', peers'[g], table'[g], g \in gap', g)
  BY <1>1, EmptyQueue, Zenon
<1>3. ShapeOf(queue') /\ CrashNeedsGap'
  BY EmptyQueue DEF CrashNeedsGap
<1>. QED  BY <1>1, <1>2, <1>3, CopyInvNext, Zenon DEF CopyInv

\* What bronnect does is of no account here.
LEMMA SameCopy ==
  ASSUME CopyInv, UNCHANGED <<bro, table, queue, peers, gap>>
  PROVE  CopyInv'
<1>1. /\ peers \in [Flows -> Side] /\ \A g \in Flows : BehindOf(peers[g])
      /\ \A g \in Flows : FlowOf(queue, peers[g], table[g], g \in gap, g)
      /\ ShapeOf(queue) /\ CrashNeedsGap
  BY CopyInvOf, Zenon DEF CopyInv
<1>2. CrashNeedsGap'
  BY <1>1 DEF CrashNeedsGap
<1>. QED  BY <1>1, <1>2, CopyInvNext, Zenon DEF CopyInv

\* As long as no packet of a connection is missing from the copy, no handler
\* uses a field of dh that is not set (telex_send_init_data); with the peers,
\* the events at hand and the entries following one another.
THEOREM CopyInvariance == Spec => []CopyInv
<1>1. Init => CopyInv
  <2>1. SUFFICES ASSUME Init PROVE CopyInv
    OBVIOUS
  <2>2. PICK new : new = [session |-> 1, client |-> 0, server |-> 0, extra |-> 0, skip |-> FALSE]
    BY Zenon
  <2>3. new \in Side /\ new.client = 0 /\ new.server = 0
    <3>1. 1 \in Nat /\ 0 \in 0..5 /\ 0 \in Nat
      OBVIOUS
    <3>. QED  BY <2>2, <3>1, Zenon DEF Side
  <2>4. BehindOf(new)
    BY <2>3 DEF BehindOf
  <2>5. /\ peers = [f \in Flows |-> new] /\ table = [f \in Flows |-> None]
        /\ queue = <<>> /\ bro = "up"
    BY <2>1, <2>2, Zenon DEF Init
  <2>6. /\ peers \in [Flows -> Side] /\ \A f \in Flows : peers[f] = new /\ table[f] = None
    BY <2>3, <2>5, Zenon
  <2>7. CrashNeedsGap
    BY <2>5 DEF CrashNeedsGap
  <2>8. \A f \in Flows : FlowOf(queue, peers[f], table[f], f \in gap, f)
    BY <2>5, <2>6, EmptyQueue, Zenon
  <2>9. ShapeOf(queue) /\ \A f \in Flows : BehindOf(peers[f])
    BY <2>4, <2>5, <2>6, EmptyQueue, Zenon
  <2>. QED  BY <2>6, <2>7, <2>8, <2>9, CopyInvOf, Zenon DEF CopyInv
<1>2. IInv /\ QueueOK /\ IInv' /\ CopyInv /\ [Next]_vars => CopyInv'
  <2>1. SUFFICES ASSUME IInv, QueueOK, IInv', CopyInv, [Next]_vars PROVE CopyInv'
    OBVIOUS
  <2>2. CASE Handle
    BY <2>1, <2>2, HandleCopy
  <2>3. CASE Exit
    <3>1. /\ queue' = <<>> /\ bro' = "exited" /\ UNCHANGED <<peers, gap>>
          /\ \A f \in Flows : table'[f] = None
      BY <2>3 DEF Exit, Dies
    <3>. QED  BY <2>1, <3>1, ForgetsCopy
  <2>4. ASSUME NEW f \in Flows, Expire(f) PROVE CopyInv'
    <3>1. /\ queue = <<>> /\ queue' = <<>> /\ bro' = "up" /\ UNCHANGED <<peers, gap>>
          /\ table' = [table EXCEPT ![f] = None]
      BY <2>4 DEF Expire, do_expire
    <3>2. table \in [Flows -> StoredEntry \cup {None}]
      BY <2>1 DEF IInv, TypeOK, StoredEntry
    <3>3. \A g \in Flows : table'[g] = None \/ table'[g] = table[g]
      BY <3>1, <3>2
    <3>. QED  BY <2>1, <3>1, <3>3, ForgetsCopy
  <2>5. ASSUME NEW f \in Flows, Missed(f) \/ ConnectionEnds(f) PROVE CopyInv'
    BY <2>1, <2>5, MissedCopy, EndsCopy, Zenon
  <2>6. ASSUME NEW f \in Flows, ClientPacket(f) \/ ServerPacket(f) \/ OtherPacket(f) PROVE CopyInv'
    BY <2>1, <2>6, ClientCopy, ServerCopy, OtherCopy, Zenon
  <2>7. ASSUME NEW c \in Conns, BronnectEnds(c) PROVE CopyInv'
    <3>1. UNCHANGED <<bro, table, queue, peers, gap>>
      BY <2>7 DEF BronnectEnds, detector
    <3>. QED  BY <2>1, <3>1, SameCopy, SMTT(40)
  <2>8. CASE UNCHANGED vars
    <3>1. UNCHANGED <<bro, table, queue, peers, gap>>
      BY <2>8 DEF vars
    <3>. QED  BY <2>1, <3>1, SameCopy
  <2>. QED  BY <2>1, <2>2, <2>3, <2>4, <2>5, <2>6, <2>7, <2>8, Zenon DEF Next
<1>. QED  BY <1>1, <1>2, DetectorInvariance, PTL DEF Spec

\* Bro's null pointer needs a gap in its copy of the packets.
THEOREM CrashNeedsGapHolds == Spec => []CrashNeedsGap
<1>1. CopyInv => CrashNeedsGap
  BY DEF CopyInv
<1>. QED  BY <1>1, CopyInvariance, PTL

=============================================================================
