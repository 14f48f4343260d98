--------------------------- MODULE StationProofs ---------------------------
(***************************************************************************)
(* Proofs about the station, for any number of uses of the conn_id, of     *)
(* commands on the way, of timers and of deaths of the flow blocker.       *)
(***************************************************************************)
EXTENDS Station, TLAPS

\* What a command adds to a channel (Put).
LEMMA AppendFacts ==
  ASSUME NEW S, NEW s \in Seq(S), NEW m \in S
  PROVE  /\ Append(s, m) \in Seq(S)
         /\ Range(Append(s, m)) = Range(s) \cup {m}
         /\ DOMAIN Append(s, m) = DOMAIN s \cup {Len(s) + 1}
         /\ \A i \in DOMAIN s : i < Len(s) + 1 /\ Append(s, m)[i] = s[i]
         /\ Append(s, m)[Len(s) + 1] = m
  BY DEF Range

\* What the flow blocker takes from a channel (on_read_ready).
LEMMA TailFacts ==
  ASSUME NEW S, NEW s \in Seq(S), s # <<>>
  PROVE  /\ Tail(s) \in Seq(S) /\ Head(s) \in S /\ Head(s) = s[1]
         /\ 1 \in DOMAIN s
         /\ \A i \in DOMAIN Tail(s) : i + 1 \in DOMAIN s /\ Tail(s)[i] = s[i + 1]
         /\ \A i \in DOMAIN s : i # 1 => i - 1 \in DOMAIN Tail(s) /\ i = (i - 1) + 1
         /\ Range(s) = Range(Tail(s)) \cup {Head(s)}
  <1>1. /\ Tail(s) \in Seq(S) /\ Head(s) \in S /\ Head(s) = s[1]
        /\ 1 \in DOMAIN s
        /\ \A i \in DOMAIN Tail(s) : i + 1 \in DOMAIN s /\ Tail(s)[i] = s[i + 1]
        /\ \A i \in DOMAIN s : i # 1 => i - 1 \in DOMAIN Tail(s) /\ i = (i - 1) + 1
    OBVIOUS
  <1>2. Range(s) \subseteq Range(Tail(s)) \cup {Head(s)}
    BY <1>1 DEF Range
  <1>3. Range(Tail(s)) \cup {Head(s)} \subseteq Range(s)
    BY <1>1 DEF Range
  <1>. QED BY <1>1, <1>2, <1>3

\* Commands are what is sent, and the two kinds differ.
LEMMA CommandFacts ==
  ASSUME NEW u \in Uses
  PROVE  /\ Block(u) \in Command /\ Unblock(u) \in Command
         /\ Block(u).use = u /\ Unblock(u).use = u /\ Block(u).block /\ ~Unblock(u).block
         /\ \A v \in Uses : Block(u) # Unblock(v)
         /\ \A v \in Uses : Block(u) = Block(v) => u = v
         /\ \A v \in Uses : Unblock(u) = Unblock(v) => u = v
         /\ \A m \in Command : m = Block(m.use) \/ m = Unblock(m.use)
  BY DEF Block, Unblock, Command

\* Sending, from either program: the command is in the channel, or noted as
\* lost (sendall in telex_remote_mod_flow).
Delivered(p, m) ==
  /\ chan' \in [{"bro", "bronnect"} -> Seq(Command)]
  /\ link' \in [{"bro", "bronnect"} -> {"ok", "fin", "dead"}]
  /\ why' \in [Uses -> SUBSET Reasons]
  /\ \A u \in Uses : why[u] \subseteq why'[u]
  /\ \A q \in {"bro", "bronnect"} : q # p => link'[q] = link[q]
  /\ \/ /\ chan' = [chan EXCEPT ![p] = Append(@, m)] /\ why' = why
        /\ fb \/ link[p] = "ok"
     \/ chan' = chan /\ "lost" \in why'[m.use] /\ link'[p] = "dead"

\* A command sent on an established connection is queued, or noted as lost.
LEMMA SentDelivers ==
  ASSUME TypeOK, NEW p \in {"bro", "bronnect"}, NEW m \in Command, Sent(p, m)
  PROVE  Delivered(p, m)
  <1>0. m.use \in Uses /\ chan[p] \in Seq(Command) /\ Append(chan[p], m) \in Seq(Command)
    BY DEF TypeOK, Command
  <1>1. CASE link[p] = "ok" /\ Put(p, m) /\ UNCHANGED <<link, why>>
    BY <1>0, <1>1 DEF TypeOK, Put, Delivered
  <1>2. CASE link[p] = "fin" /\ link' = [link EXCEPT ![p] = "dead"] /\ Note(m.use, "lost") /\ UNCHANGED chan
    BY <1>0, <1>2, Zenon DEF TypeOK, Note, Reasons, Delivered
  <1>. QED BY <1>1, <1>2 DEF Sent

\* bronnect's unblock (cleanup_connection_after_ssl).
LEMMA BronnectDelivers ==
  ASSUME TypeOK, NEW m \in Command, BronnectSends(m)
  PROVE  Delivered("bronnect", m)
  <1>0. m.use \in Uses
    BY DEF Command
  <1>1. CASE Sent("bronnect", m)
    BY <1>1, SentDelivers
  <1>2. CASE link["bronnect"] = "dead" /\ Note(m.use, "lost") /\ UNCHANGED <<chan, link>>
    BY <1>0, <1>2, Zenon DEF TypeOK, Note, Reasons, Delivered
  <1>. QED BY <1>1, <1>2 DEF BronnectSends

\* Bro's commands (telex_mod_block): sent, or Bro exits.
Exits ==
  /\ ~fb /\ bro' = FALSE /\ entry' = 0
  /\ sock' \in [Uses -> [sent : 0..2, closed : BOOLEAN]]
  /\ \A u \in Uses : sock'[u].sent = sock[u].sent
  /\ UNCHANGED <<chan, link, why>>

\* Bro sends its command, reconnecting if need be, or exits when it cannot.
LEMMA BroDelivers ==
  ASSUME TypeOK, NEW m \in Command, NEW e, NEW s, BroSends(m, e, s)
  PROVE  \/ Delivered("bro", m) /\ entry' = e /\ sock' = s /\ bro' = bro
         \/ Exits
  <1>0. m.use \in Uses /\ chan["bro"] \in Seq(Command) /\ Append(chan["bro"], m) \in Seq(Command)
    BY DEF TypeOK, Command
  <1>1. CASE Sent("bro", m) /\ entry' = e /\ sock' = s /\ UNCHANGED bro
    BY <1>1, SentDelivers
  <1>2. CASE /\ link["bro"] = "dead" /\ fb /\ Put("bro", m)
             /\ link' = [link EXCEPT !["bro"] = "ok"] /\ UNCHANGED why
             /\ entry' = e /\ sock' = s /\ UNCHANGED bro
    BY <1>0, <1>2 DEF TypeOK, Put, Delivered
  <1>3. CASE /\ link["bro"] = "dead" /\ ~fb
             /\ bro' = FALSE /\ entry' = 0
             /\ sock' = [u \in Uses |-> [sock[u] EXCEPT !.closed = TRUE]]
             /\ UNCHANGED <<chan, link, why>>
    <2>1. \A u \in Uses : sock[u] \in [sent : 0..2, closed : BOOLEAN]
      BY DEF TypeOK
    <2>2. \A u \in Uses : /\ [sock[u] EXCEPT !.closed = TRUE] \in [sent : 0..2, closed : BOOLEAN]
                          /\ [sock[u] EXCEPT !.closed = TRUE].sent = sock[u].sent
      BY <2>1, Zenon
    <2>. QED BY <1>3, <2>2 DEF Exits
  <1>. QED BY <1>1, <1>2, <1>3, Zenon DEF BroSends

-----------------------------------------------------------------------------
(* Types.                                                                  *)

\* The station starts in the inductive invariant: nobody has sent anything.
LEMMA InitInv == Init => IInv
  <1>. SUFFICES ASSUME Init PROVE IInv
    OBVIOUS
  <1>1. TypeOK
    <2>1. chan \in [{"bro", "bronnect"} -> Seq(Command)]
      BY DEF Init
    <2>2. /\ entry \in Uses \cup {0} /\ use \in Uses \cup {0}
          /\ sock \in [Uses -> [sent : 0..2, closed : BOOLEAN]]
          /\ deaths \in 0..MaxDeaths /\ timers \in 0..MaxTimers
      BY UsesAssumption DEF Init
    <2>3. /\ bn \in [Uses -> {"none", "open", "init", "relay", "gone"}]
          /\ link \in [{"bro", "bronnect"} -> {"ok", "fin", "dead"}]
          /\ why \in [Uses -> SUBSET Reasons]
      BY DEF Init
    <2>. QED BY <2>1, <2>2, <2>3, Zenon DEF Init, TypeOK
  <1>2. \A p \in {"bro", "bronnect"} : Range(chan[p]) = {} /\ DOMAIN chan[p] = {}
    BY DEF Init, Range
  <1>3. UsesInOrder /\ UnblockedByOwner /\ ServedIsBlocked
    BY <1>2, UsesAssumption DEF Init, UsesInOrder, UnblockedByOwner, ServedIsBlocked, Uses
  <1>4. BlockIsOwed /\ DownIsCut
    BY <1>2 DEF Init, BlockIsOwed, DownIsCut
  <1>. QED BY <1>1, <1>3, <1>4 DEF IInv

\* The flow blocker's notes keep the type of why, and nothing is unnoted.
LEMMA NoteAllFacts ==
  ASSUME TypeOK, NEW U, NEW what \in Reasons, NoteAll(U, what)
  PROVE  /\ why' \in [Uses -> SUBSET Reasons]
         /\ \A u \in Uses : why[u] \subseteq why'[u]
         /\ \A u \in Uses : u \in U => what \in why'[u]
  BY DEF TypeOK, NoteAll

\* Types are preserved by Bro's handlers.
LEMMA BroType == ASSUME TypeOK, UsesInOrder, Bro PROVE TypeOK'
  <1>. USE DEF FlowBlocker
  <1>0. \A u \in Uses : sock[u] \in [sent : 0..2, closed : BOOLEAN] /\ u # 0
    BY UsesAssumption DEF TypeOK, Uses
  <1>1. CASE ssl_conn_attempt
    <2>1. use + 1 \in Uses /\ Block(use + 1) \in Command
      BY <1>1, CommandFacts DEF ssl_conn_attempt
    <2>2. \/ Delivered("bro", Block(use + 1)) /\ entry' = use + 1 /\ sock' = sock /\ bro' = bro
          \/ Exits
      BY <1>1, <2>1, BroDelivers, Zenon DEF ssl_conn_attempt
    <2>. QED BY <1>1, <2>1, <2>2, Zenon DEF ssl_conn_attempt, TypeOK, Delivered, Exits
  <1>2. CASE telex_send_init_data
    BY <1>0, <1>2, SMTT(40) DEF telex_send_init_data, TypeOK
  <1>3. CASE HandOver
    BY <1>0, <1>3 DEF HandOver, TypeOK
  <1>4. CASE do_expire
    <2>1. entry \in Uses /\ Unblock(entry) \in Command
      BY <1>4, CommandFacts DEF do_expire, TypeOK
    <2>2. \/ Delivered("bro", Unblock(entry)) /\ entry' = 0 /\ sock' = Closed(entry) /\ bro' = bro
          \/ Exits
      BY <1>4, <2>1, BroDelivers DEF do_expire
    <2>3. Closed(entry) \in [Uses -> [sent : 0..2, closed : BOOLEAN]]
      BY <1>0, <2>1, Zenon DEF Closed, TypeOK
    <2>. QED BY <1>4, <2>1, <2>2, <2>3, Zenon DEF do_expire, TypeOK, Delivered, Exits
  <1>5. CASE ssl_conn_alert
    <2>1. entry \in Uses
      BY <1>5 DEF ssl_conn_alert, TypeOK
    <2>2. Closed(entry) \in [Uses -> [sent : 0..2, closed : BOOLEAN]]
      BY <1>0, <2>1, Zenon DEF Closed, TypeOK
    <2>3. why' \in [Uses -> SUBSET Reasons]
      BY <1>5, <2>1, Zenon DEF ssl_conn_alert, TypeOK, Note, Reasons
    <2>. QED BY <1>5, <2>1, <2>2, <2>3 DEF ssl_conn_alert, TypeOK
  <1>. QED BY <1>1, <1>2, <1>3, <1>4, <1>5 DEF Bro

\* What a step of bronnect's connection u does: it goes on, or ends with or
\* without a command.
BronnectStep(u) ==
  /\ UNCHANGED Rest
  /\ bn' \in [Uses -> {"none", "open", "init", "relay", "gone"}]
  /\ \A v \in Uses : v # u => bn'[v] = bn[v]
  /\ Live(u)
  /\ \/ /\ bn'[u] \in {"init", "relay"} /\ (bn'[u] = "relay" => sock[u].sent = 2)
        /\ UNCHANGED <<chan, link, why>>
     \/ bn'[u] = "gone" /\ Delivered("bronnect", Unblock(u))
     \/ /\ bn[u] = "open" /\ bn'[u] = "gone" /\ UNCHANGED <<chan, link>>
        /\ why' \in [Uses -> SUBSET Reasons] /\ "unknown" \in why'[u]
        /\ \A v \in Uses : why[v] \subseteq why'[v]

\* Every handler of bronnect is such a step.
LEMMA BronnectSteps ==
  ASSUME TypeOK, NEW u \in Uses, Bronnect(u) PROVE BronnectStep(u)
  <1>0. Unblock(u) \in Command
    BY CommandFacts
  <1>1. ASSUME End(u) PROVE bn'[u] = "gone" /\ Delivered("bronnect", Unblock(u))
    BY <1>0, <1>1, BronnectDelivers DEF End, TypeOK
  <1>2. ASSUME EndUnknown(u)
        PROVE  /\ bn'[u] = "gone" /\ UNCHANGED <<chan, link>>
               /\ why' \in [Uses -> SUBSET Reasons] /\ "unknown" \in why'[u]
               /\ \A v \in Uses : why[v] \subseteq why'[v]
    BY <1>2, Zenon DEF EndUnknown, Note, TypeOK, Reasons
  <1>3. ASSUME NEW x \in {"init", "relay", "gone"}, bn' = [bn EXCEPT ![u] = x]
        PROVE  /\ bn' \in [Uses -> {"none", "open", "init", "relay", "gone"}]
               /\ \A v \in Uses : v # u => bn'[v] = bn[v]
               /\ bn'[u] = x
    BY <1>3 DEF TypeOK
  <1>4. CASE ReadInit(u)
    BY <1>2, <1>3, <1>4 DEF ReadInit, EndUnknown, BronnectStep, Live
  <1>5. CASE ReadRaw(u)
    BY <1>1, <1>3, <1>5 DEF ReadRaw, End, BronnectStep, Live
  <1>6. CASE EofOrWatchdog(u)
    BY <1>1, <1>2, <1>3, <1>6 DEF EofOrWatchdog, End, EndUnknown, BronnectStep, Live
  <1>7. CASE cleanup_connection(u)
    BY <1>1, <1>3, <1>7 DEF cleanup_connection, End, BronnectStep, Live
  <1>. QED BY <1>4, <1>5, <1>6, <1>7 DEF Bronnect

\* What a step of the flow blocker does to the blocked flow: it applies a
\* command, or it unblocks or blocks nothing and notes why.
LEMMA ReadReadyFacts ==
  ASSUME TypeOK, NEW p \in {"bro", "bronnect"}, on_read_ready(p)
  PROVE  /\ chan[p] # <<>> /\ Head(chan[p]) \in Command
         /\ chan' = [chan EXCEPT ![p] = Tail(@)] /\ Tail(chan[p]) \in Seq(Command)
         /\ why' \in [Uses -> SUBSET Reasons]
         /\ \A u \in Uses : why[u] \subseteq why'[u]
         /\ blocked' = IF Head(chan[p]).block THEN Head(chan[p]).use ELSE 0
         /\ Head(chan[p]).block /\ Head(chan[p]).use \in EndedKnown =>
              "overtaken" \in why'[Head(chan[p]).use]
         /\ ~Head(chan[p]).block =>
              \A u \in InUse : u # Head(chan[p]).use => "other use" \in why'[u]
         /\ timers' = timers + 1 /\ timers < MaxTimers /\ fb
         /\ UNCHANGED <<bro, entry, use, sock, bn, link, fb, deaths>>
  <1>. DEFINE m == Head(chan[p])
  <1>1. chan[p] \in Seq(Command) /\ chan[p] # <<>>
    BY Zenon DEF on_read_ready, TypeOK
  <1>2. m \in Command /\ Tail(chan[p]) \in Seq(Command)
    BY <1>1, TailFacts
  <1>3. m.use \in Uses
    BY <1>2 DEF Command
  <1>4. /\ chan' = [chan EXCEPT ![p] = Tail(@)]
        /\ timers' = timers + 1 /\ timers < MaxTimers /\ fb
        /\ blocked' = IF m.block THEN m.use ELSE 0
        /\ UNCHANGED <<bro, entry, use, sock, bn, link, fb, deaths>>
    BY Zenon DEF on_read_ready
  <1>5. IF m.block THEN NoteAll({m.use} \cap EndedKnown, "overtaken")
                   ELSE NoteAll(InUse \ {m.use}, "other use")
    BY Zenon DEF on_read_ready
  <1>6. InUse \subseteq Uses /\ "overtaken" \in Reasons /\ "other use" \in Reasons
    BY DEF InUse, Reasons
  <1>7. /\ why' \in [Uses -> SUBSET Reasons]
        /\ \A u \in Uses : why[u] \subseteq why'[u]
    BY <1>5, <1>6, NoteAllFacts, Zenon
  <1>8. ASSUME m.block, m.use \in EndedKnown PROVE "overtaken" \in why'[m.use]
    <2>1. NoteAll({m.use} \cap EndedKnown, "overtaken")
      BY <1>5, <1>8
    <2>. QED BY <1>3, <1>8, <2>1 DEF NoteAll
  <1>9. ASSUME ~m.block, NEW u \in InUse, u # m.use PROVE "other use" \in why'[u]
    <2>1. NoteAll(InUse \ {m.use}, "other use")
      BY <1>5, <1>9, Zenon
    <2>. QED BY <1>6, <1>9, <2>1, Zenon DEF NoteAll
  <1>. QED BY <1>1, <1>2, <1>4, <1>7, <1>8, <1>9, Zenon

\* The flow blocker's timers and its restart only unblock, and note it.
LEMMA UnblockFacts ==
  ASSUME TypeOK, unblock_flow \/ router_sh
  PROVE  /\ why' \in [Uses -> SUBSET Reasons]
         /\ \A u \in Uses : why[u] \subseteq why'[u]
         /\ \A u \in InUse : "timer" \in why'[u] \/ "restart" \in why'[u]
         /\ blocked' = 0
         /\ UNCHANGED <<bro, entry, use, sock, bn, chan, link, deaths>>
  <1>1. InUse \subseteq Uses /\ "timer" \in Reasons /\ "restart" \in Reasons
    BY DEF InUse, Reasons
  <1>2. CASE unblock_flow
    BY <1>1, <1>2, NoteAllFacts DEF unblock_flow
  <1>3. CASE router_sh
    BY <1>1, <1>3, NoteAllFacts DEF router_sh
  <1>. QED BY <1>2, <1>3, Zenon

\* With the process the channels go, and every command in them is noted.
LEMMA DieFacts ==
  ASSUME TypeOK, Die
  PROVE  /\ why' \in [Uses -> SUBSET Reasons]
         /\ \A u \in Uses : why[u] \subseteq why'[u]
         /\ \A p \in {"bro", "bronnect"} : \A m \in Range(chan[p]) : "lost" \in why'[m.use]
         /\ chan' = [p \in {"bro", "bronnect"} |-> <<>>]
         /\ \A p \in {"bro", "bronnect"} : Range(chan'[p]) = {} /\ DOMAIN chan'[p] = {}
         /\ link' \in [{"bro", "bronnect"} -> {"ok", "fin", "dead"}]
         /\ link'["bro"] = "dead" => link["bro"] = "dead"
         /\ UNCHANGED <<bro, entry, use, sock, bn, blocked>>
  <1>1. DOMAIN chan = {"bro", "bronnect"} /\ DOMAIN link = {"bro", "bronnect"}
    BY DEF TypeOK
  <1>2. chan' = [p \in {"bro", "bronnect"} |-> <<>>]
    BY <1>1 DEF Die
  <1>3. \A p \in {"bro", "bronnect"} : Range(chan'[p]) = {} /\ DOMAIN chan'[p] = {}
    BY <1>2 DEF Range
  <1>4. /\ link' \in [{"bro", "bronnect"} -> {"ok", "fin", "dead"}]
        /\ link'["bro"] = "dead" => link["bro"] = "dead"
    BY <1>1 DEF Die, TypeOK
  <1>5. \A p \in {"bro", "bronnect"} : \A m \in Range(chan[p]) : m.use \in Uses
    <2>1. \A p \in {"bro", "bronnect"} : Range(chan[p]) \subseteq Command
      BY DEF TypeOK, Range
    <2>. QED BY <2>1 DEF Command
  <1>6. NoteAll({m.use : m \in UNION {Range(chan[p]) : p \in DOMAIN chan}}, "lost")
    BY DEF Die
  <1>7. "lost" \in Reasons
    BY DEF Reasons
  <1>8. /\ why' \in [Uses -> SUBSET Reasons]
        /\ \A u \in Uses : why[u] \subseteq why'[u]
    BY <1>6, <1>7, NoteAllFacts
  <1>9. ASSUME NEW p \in {"bro", "bronnect"}, NEW m \in Range(chan[p]) PROVE "lost" \in why'[m.use]
    <2>1. m.use \in {n.use : n \in UNION {Range(chan[q]) : q \in DOMAIN chan}}
      BY <1>1
    <2>. QED BY <1>5, <1>6, <1>7, <2>1, NoteAllFacts
  <1>. QED BY <1>2, <1>3, <1>4, <1>8, <1>9 DEF Die

\* Types are preserved by every step.
LEMMA TypeInv == ASSUME TypeOK, UsesInOrder, [Next]_vars PROVE TypeOK'
  <1>1. CASE Bro
    BY <1>1, BroType
  <1>2. ASSUME NEW u \in Uses, Bronnect(u) PROVE TypeOK'
    <2>1. BronnectStep(u)
      BY <1>2, BronnectSteps
    <2>. QED BY <2>1 DEF BronnectStep, Rest, FlowBlocker, Delivered, TypeOK
  <1>3. ASSUME NEW p \in {"bro", "bronnect"}, on_read_ready(p) PROVE TypeOK'
    <2>1. chan' \in [{"bro", "bronnect"} -> Seq(Command)]
      BY <1>3, ReadReadyFacts, Zenon DEF TypeOK
    <2>2. blocked' \in Uses \cup {0}
      <3>1. Head(chan[p]) \in Command
            /\ blocked' = IF Head(chan[p]).block THEN Head(chan[p]).use ELSE 0
        BY <1>3, ReadReadyFacts, Zenon
      <3>. QED BY <3>1 DEF Command
    <2>3. timers' \in 0..MaxTimers /\ fb
      <3>1. timers' = timers + 1 /\ timers < MaxTimers /\ fb
        BY <1>3, ReadReadyFacts, Zenon
      <3>. QED BY <3>1, UsesAssumption DEF TypeOK
    <2>. QED BY <1>3, <2>1, <2>2, <2>3, ReadReadyFacts, Zenon DEF TypeOK
  <1>4. CASE unblock_flow
    <2>1. timers' \in 0..MaxTimers /\ fb' = fb /\ fb
      BY <1>4, UsesAssumption DEF TypeOK, unblock_flow
    <2>. QED BY <1>4, <2>1, UnblockFacts, Zenon DEF TypeOK
  <1>5. CASE Die
    <2>1. deaths' \in 0..MaxDeaths /\ timers' \in 0..MaxTimers /\ timers' = 0 /\ fb' = FALSE
      BY <1>5, UsesAssumption DEF TypeOK, Die
    <2>2. chan' \in [{"bro", "bronnect"} -> Seq(Command)]
      <3>1. chan' = [p \in {"bro", "bronnect"} |-> <<>>]
        BY <1>5, DieFacts
      <3>. QED BY <3>1
    <2>. QED BY <1>5, <2>1, <2>2, DieFacts, Zenon DEF TypeOK
  <1>6. CASE router_sh
    BY <1>6, UnblockFacts, Zenon DEF TypeOK, router_sh
  <1>7. CASE UNCHANGED vars
    BY <1>7 DEF vars, TypeOK
  <1>. QED BY <1>1, <1>2, <1>3, <1>4, <1>5, <1>6, <1>7 DEF Next

-----------------------------------------------------------------------------
(* The invariant.                                                          *)

\* What ssl_conn_attempt does: the new use is blocked, or Bro exits.
LEMMA AttemptFacts ==
  ASSUME TypeOK, ssl_conn_attempt
  PROVE  /\ use + 1 \in Uses /\ use' = use + 1 /\ entry = 0 /\ UNCHANGED FlowBlocker
         /\ \/ /\ Delivered("bro", Block(use + 1))
               /\ entry' = use + 1 /\ sock' = sock
               /\ bn' = bn \/ bn' = [bn EXCEPT ![use + 1] = "open"]
            \/ Exits /\ bn' = bn
  <1>1. use + 1 \in Uses /\ Block(use + 1) \in Command
    BY CommandFacts DEF ssl_conn_attempt
  <1>2. \/ Delivered("bro", Block(use + 1)) /\ entry' = use + 1 /\ sock' = sock
        \/ Exits
    BY <1>1, BroDelivers, Zenon DEF ssl_conn_attempt
  <1>. QED BY <1>1, <1>2 DEF ssl_conn_attempt, Exits

\* What do_expire does: the use is unblocked, or Bro exits.
LEMMA ExpireFacts ==
  ASSUME TypeOK, do_expire
  PROVE  /\ entry \in Uses /\ entry' = 0 /\ UNCHANGED <<use, bn, FlowBlocker>>
         /\ \A u \in Uses : sock'[u].sent = sock[u].sent
         /\ Delivered("bro", Unblock(entry)) \/ Exits
  <1>1. entry \in Uses /\ Unblock(entry) \in Command
    BY CommandFacts DEF do_expire, TypeOK
  <1>2. \/ Delivered("bro", Unblock(entry)) /\ entry' = 0 /\ sock' = Closed(entry)
        \/ Exits
    BY <1>1, BroDelivers DEF do_expire
  <1>3. \A u \in Uses : Closed(entry)[u].sent = sock[u].sent
    BY <1>1 DEF Closed, TypeOK
  <1>. QED BY <1>1, <1>2, <1>3 DEF do_expire, Exits

\* The other handlers of Bro, which send no command.
LEMMA QuietFacts ==
  ASSUME TypeOK
  PROVE  /\ telex_send_init_data =>
              /\ entry \in Uses /\ bn[entry] \notin {"none", "gone"} /\ sock'[entry].sent = 1
              /\ \A u \in Uses : u # entry => sock'[u].sent = sock[u].sent
              /\ UNCHANGED <<bro, entry, use, bn, chan, link, why, FlowBlocker>>
         /\ HandOver =>
              /\ entry \in Uses /\ sock[entry].sent = 1 /\ sock'[entry].sent = 2 /\ entry' = 0
              /\ \A u \in Uses : u # entry => sock'[u].sent = sock[u].sent
              /\ UNCHANGED <<bro, use, bn, chan, link, why, FlowBlocker>>
         /\ ssl_conn_alert =>
              /\ entry \in Uses /\ entry' = 0
              /\ \A u \in Uses : sock'[u].sent = sock[u].sent
              /\ why' = [why EXCEPT ![entry] = @ \cup {"alert"}]
              /\ UNCHANGED <<bro, use, bn, chan, link, FlowBlocker>>
  <1>1. ASSUME entry # 0 PROVE entry \in Uses
    BY <1>1 DEF TypeOK
  <1>2. ASSUME telex_send_init_data
        PROVE  /\ entry \in Uses /\ bn[entry] \notin {"none", "gone"} /\ sock'[entry].sent = 1
               /\ \A u \in Uses : u # entry => sock'[u].sent = sock[u].sent
               /\ UNCHANGED <<bro, entry, use, bn, chan, link, why, FlowBlocker>>
    BY <1>1, <1>2 DEF telex_send_init_data, TypeOK
  <1>3. ASSUME HandOver
        PROVE  /\ entry \in Uses /\ sock[entry].sent = 1 /\ sock'[entry].sent = 2 /\ entry' = 0
               /\ \A u \in Uses : u # entry => sock'[u].sent = sock[u].sent
               /\ UNCHANGED <<bro, use, bn, chan, link, why, FlowBlocker>>
    BY <1>1, <1>3 DEF HandOver, TypeOK
  <1>4. ASSUME ssl_conn_alert
        PROVE  /\ entry \in Uses /\ entry' = 0
               /\ \A u \in Uses : sock'[u].sent = sock[u].sent
               /\ why' = [why EXCEPT ![entry] = @ \cup {"alert"}]
               /\ UNCHANGED <<bro, use, bn, chan, link, FlowBlocker>>
    BY <1>1, <1>4 DEF ssl_conn_alert, Closed, Note, TypeOK
  <1>. QED BY <1>2, <1>3, <1>4

\* The steps of bronnect's connections go with the records Bro has sent.
LEMMA OrderInv == ASSUME TypeOK, UsesInOrder, [Next]_vars PROVE UsesInOrder'
  <1>0. /\ use \in Nat /\ \A u \in Uses : u \in Nat /\ u > 0 /\ sock[u].sent \in 0..2
        /\ entry \in Nat
    BY UsesAssumption DEF TypeOK, Uses
  <1>1. CASE ssl_conn_attempt
    <2>1. CASE Delivered("bro", Block(use + 1)) /\ entry' = use + 1 /\ sock' = sock
               /\ (bn' = bn \/ bn' = [bn EXCEPT ![use + 1] = "open"])
      BY <1>0, <1>1, <2>1, AttemptFacts, SMTT(40) DEF UsesInOrder, TypeOK
    <2>2. CASE Exits /\ bn' = bn
      BY <1>0, <1>1, <2>2, AttemptFacts DEF UsesInOrder, Exits
    <2>. QED BY <1>1, <2>1, <2>2, AttemptFacts
  <1>2. CASE telex_send_init_data
    BY <1>0, <1>2, QuietFacts DEF UsesInOrder
  <1>3. CASE HandOver
    BY <1>0, <1>3, QuietFacts DEF UsesInOrder
  <1>4. CASE do_expire
    BY <1>0, <1>4, ExpireFacts DEF UsesInOrder
  <1>5. CASE ssl_conn_alert
    BY <1>0, <1>5, QuietFacts DEF UsesInOrder
  <1>6. ASSUME NEW u \in Uses, Bronnect(u) PROVE UsesInOrder'
    <2>1. BronnectStep(u)
      BY <1>6, BronnectSteps
    <2>. QED BY <1>0, <2>1 DEF BronnectStep, Rest, Live, UsesInOrder
  <1>7. ASSUME UNCHANGED <<entry, use, sock, bn>> PROVE UsesInOrder'
    BY <1>7 DEF UsesInOrder
  <1>8. ASSUME NEW p \in {"bro", "bronnect"}, on_read_ready(p) PROVE UsesInOrder'
    BY <1>7, <1>8, Zenon DEF on_read_ready
  <1>9. CASE unblock_flow \/ Die \/ router_sh \/ UNCHANGED vars
    BY <1>7, <1>9 DEF unblock_flow, Die, router_sh, vars
  <1>. QED BY <1>1, <1>2, <1>3, <1>4, <1>5, <1>6, <1>8, <1>9 DEF Next, Bro

\* A command that is sent joins its channel and changes nothing else there.
LEMMA DeliveredRange ==
  ASSUME TypeOK, NEW p \in {"bro", "bronnect"}, NEW m \in Command, Delivered(p, m)
  PROVE  /\ Range(chan[p]) \subseteq Range(chan'[p])
         /\ Range(chan'[p]) \subseteq Range(chan[p]) \cup {m}
         /\ \A q \in {"bro", "bronnect"} : q # p => chan'[q] = chan[q]
         /\ m \in Range(chan'[p]) \/ "lost" \in why'[m.use]
         /\ \A u \in Uses : why[u] \subseteq why'[u]
  <1>1. chan[p] \in Seq(Command) /\ chan \in [{"bro", "bronnect"} -> Seq(Command)]
    BY DEF TypeOK
  <1>2. Range(Append(chan[p], m)) = Range(chan[p]) \cup {m}
    BY <1>1, AppendFacts
  <1>3. CASE chan' = [chan EXCEPT ![p] = Append(@, m)]
    BY <1>1, <1>2, <1>3 DEF Delivered
  <1>4. CASE chan' = chan /\ "lost" \in why'[m.use]
    BY <1>4 DEF Delivered
  <1>. QED BY <1>3, <1>4 DEF Delivered

\* A command that is read leaves its channel.
LEMMA ReadRange ==
  ASSUME TypeOK, NEW p \in {"bro", "bronnect"}, on_read_ready(p)
  PROVE  /\ Range(chan[p]) = Range(chan'[p]) \cup {Head(chan[p])}
         /\ \A q \in {"bro", "bronnect"} : q # p => chan'[q] = chan[q]
  <1>1. chan[p] \in Seq(Command) /\ chan \in [{"bro", "bronnect"} -> Seq(Command)]
    BY DEF TypeOK
  <1>2. chan[p] # <<>> /\ chan' = [chan EXCEPT ![p] = Tail(@)]
    BY ReadReadyFacts, Zenon
  <1>3. Range(chan[p]) = Range(Tail(chan[p])) \cup {Head(chan[p])}
    BY <1>1, <1>2, TailFacts
  <1>. QED BY <1>1, <1>2, <1>3

\* A channel has commands in it.
LEMMA RangeType ==
  ASSUME TypeOK, NEW p \in {"bro", "bronnect"}
  PROVE  Range(chan[p]) \subseteq Command /\ \A m \in Range(chan[p]) : m.use \in Uses
  <1>1. Range(chan[p]) \subseteq Command
    BY DEF TypeOK, Range
  <1>. QED BY <1>1 DEF Command

\* Commands on the way stay those of their owner (do_expire,
\* cleanup_connection_after_ssl).
LEMMA OwnerInv ==
  ASSUME TypeOK, UsesInOrder, UnblockedByOwner, [Next]_vars PROVE UnblockedByOwner'
  <1>0. /\ use \in Nat /\ \A u \in Uses : u \in Nat /\ u > 0 /\ sock[u].sent \in 0..2
        /\ entry \in Nat
    BY UsesAssumption DEF TypeOK, Uses
  <1>1. ASSUME Range(chan'["bronnect"]) \subseteq Range(chan["bronnect"]),
               \A u \in Uses : bn[u] = "gone" => bn'[u] = "gone"
        PROVE  \A m \in Range(chan'["bronnect"]) : ~m.block /\ bn'[m.use] = "gone"
    BY <1>1, RangeType DEF UnblockedByOwner
  <1>2. ASSUME Range(chan'["bro"]) \subseteq Range(chan["bro"]), UNCHANGED <<entry, use, sock>>
        PROVE  \A u \in Uses : Unblock(u) \in Range(chan'["bro"]) =>
                 u <= use' /\ entry' # u /\ sock'[u].sent < 2
    BY <1>2 DEF UnblockedByOwner
  <1>3. CASE ssl_conn_attempt
    <2>1. use + 1 \in Uses /\ Block(use + 1) \in Command /\ bn[use + 1] = "none"
          /\ \A u \in Uses : Unblock(u) # Block(use + 1)
      BY <1>0, <1>3, AttemptFacts, CommandFacts DEF UsesInOrder
    <2>2. CASE Delivered("bro", Block(use + 1)) /\ entry' = use + 1 /\ sock' = sock
               /\ (bn' = bn \/ bn' = [bn EXCEPT ![use + 1] = "open"])
      <3>1. \A u \in Uses : bn[u] = "gone" => bn'[u] = "gone"
        BY <2>1, <2>2 DEF TypeOK
      <3>2. Range(chan'["bro"]) \subseteq Range(chan["bro"]) \cup {Block(use + 1)}
            /\ chan'["bronnect"] = chan["bronnect"]
        BY <2>1, <2>2, DeliveredRange
      <3>3. \A u \in Uses : Unblock(u) \in Range(chan'["bro"]) =>
              u <= use' /\ entry' # u /\ sock'[u].sent < 2
        BY <1>0, <1>3, <2>1, <2>2, <3>2, AttemptFacts DEF UnblockedByOwner
      <3>. QED BY <1>1, <3>1, <3>2, <3>3 DEF UnblockedByOwner
    <2>3. CASE Exits /\ bn' = bn
      BY <1>0, <1>1, <1>3, <2>3, AttemptFacts DEF Exits, UnblockedByOwner
    <2>. QED BY <1>3, <2>2, <2>3, AttemptFacts
  <1>4. CASE telex_send_init_data
    BY <1>0, <1>1, <1>4, QuietFacts DEF UnblockedByOwner
  <1>5. CASE HandOver
    BY <1>0, <1>1, <1>5, QuietFacts DEF UnblockedByOwner
  <1>6. CASE do_expire
    <2>1. entry \in Uses /\ Unblock(entry) \in Command
          /\ \A u \in Uses : Unblock(u) = Unblock(entry) => u = entry
      BY <1>6, ExpireFacts, CommandFacts
    <2>2. Range(chan'["bro"]) \subseteq Range(chan["bro"]) \cup {Unblock(entry)}
          /\ chan'["bronnect"] = chan["bronnect"]
      BY <1>6, <2>1, ExpireFacts, DeliveredRange, Zenon DEF Exits
    <2>3. sock[entry].sent < 2 /\ entry <= use
      BY <2>1, SMTT(40) DEF UsesInOrder
    <2>4. \A u \in Uses : Unblock(u) \in Range(chan'["bro"]) =>
            u <= use' /\ entry' # u /\ sock'[u].sent < 2
      <3>1. use' = use /\ entry' = 0 /\ \A u \in Uses : u # 0 /\ sock'[u].sent = sock[u].sent
        BY <1>6, ExpireFacts, SMTT(40) DEF Uses
      <3>2. \A u \in Uses : Unblock(u) \in Range(chan'["bro"]) =>
              Unblock(u) \in Range(chan["bro"]) \/ u = entry
        BY <2>1, <2>2, Zenon
      <3>. QED BY <2>3, <3>1, <3>2, SMTT(40) DEF UnblockedByOwner
    <2>. QED BY <1>1, <1>6, <2>2, <2>4, ExpireFacts, SMTT(40) DEF UnblockedByOwner
  <1>7. CASE ssl_conn_alert
    BY <1>0, <1>1, <1>7, QuietFacts DEF UnblockedByOwner
  <1>8. ASSUME NEW u \in Uses, Bronnect(u) PROVE UnblockedByOwner'
    <2>1. BronnectStep(u) /\ Unblock(u) \in Command /\ ~Unblock(u).block /\ Unblock(u).use = u
      BY <1>8, BronnectSteps, CommandFacts
    <2>2. /\ Range(chan'["bronnect"]) \subseteq Range(chan["bronnect"]) \cup {Unblock(u)}
          /\ chan'["bro"] = chan["bro"]
          /\ bn'[u] # "gone" => chan' = chan
      BY <2>1, DeliveredRange DEF BronnectStep
    <2>3. \A v \in Uses : bn[v] = "gone" => bn'[v] = "gone"
      BY <2>1 DEF BronnectStep, Live
    <2>4. \A m \in Range(chan'["bronnect"]) : ~m.block /\ bn'[m.use] = "gone"
      BY <2>1, <2>2, <2>3, RangeType, SMTT(40) DEF UnblockedByOwner
    <2>. QED BY <1>2, <2>1, <2>2, <2>4 DEF UnblockedByOwner, BronnectStep, Rest
  <1>9. ASSUME NEW p \in {"bro", "bronnect"}, on_read_ready(p) PROVE UnblockedByOwner'
    BY <1>1, <1>2, <1>9, ReadRange, ReadReadyFacts, Zenon DEF UnblockedByOwner
  <1>10. CASE unblock_flow \/ router_sh
    BY <1>1, <1>2, <1>10, UnblockFacts, Zenon DEF UnblockedByOwner
  <1>11. CASE Die
    BY <1>11, DieFacts DEF UnblockedByOwner
  <1>12. CASE UNCHANGED vars
    BY <1>12 DEF UnblockedByOwner, vars
  <1>. QED BY <1>3, <1>4, <1>5, <1>6, <1>7, <1>8, <1>9, <1>10, <1>11, <1>12 DEF Next, Bro

\* A use that is served stays blocked, but for the reasons that are noted.
LEMMA ServedInv ==
  ASSUME TypeOK, UsesInOrder, UnblockedByOwner, ServedIsBlocked, [Next]_vars
  PROVE  ServedIsBlocked'
  <1>. DEFINE Away == {"timer", "restart", "lost", "other use"}
  <1>0. /\ use \in Nat /\ \A u \in Uses : u \in Nat /\ u > 0 /\ sock[u].sent \in 0..2
        /\ entry \in Nat
    BY UsesAssumption DEF TypeOK, Uses
  <1>. SUFFICES ASSUME NEW u \in Uses, (entry' = u \/ sock'[u].sent = 2) /\ bn'[u] # "gone"
                PROVE  blocked' # 0 \/ Block(u) \in Range(chan'["bro"]) \/ why'[u] \cap Away # {}
    BY Zenon DEF ServedIsBlocked
  <1>1. CASE (entry = u \/ sock[u].sent = 2) /\ bn[u] # "gone" /\ blocked' = blocked
             /\ Range(chan["bro"]) \subseteq Range(chan'["bro"]) /\ why[u] \subseteq why'[u]
    BY <1>1, Zenon DEF ServedIsBlocked
  <1>2. CASE ssl_conn_attempt
    <2>1. use + 1 \in Uses /\ Block(use + 1) \in Command /\ Block(use + 1).use = use + 1
      BY <1>2, AttemptFacts, CommandFacts
    <2>2. CASE Delivered("bro", Block(use + 1)) /\ entry' = use + 1 /\ sock' = sock
               /\ (bn' = bn \/ bn' = [bn EXCEPT ![use + 1] = "open"])
      <3>1. /\ Range(chan["bro"]) \subseteq Range(chan'["bro"])
            /\ Block(use + 1) \in Range(chan'["bro"]) \/ "lost" \in why'[use + 1]
            /\ why[u] \subseteq why'[u]
        BY <2>1, <2>2, DeliveredRange
      <3>2. CASE u = use + 1
        BY <3>1, <3>2, Zenon
      <3>3. CASE u # use + 1
        <4>1. sock[u].sent = 2 /\ bn[u] # "gone" /\ blocked' = blocked
          BY <1>2, <2>1, <2>2, <3>3, AttemptFacts, SMTT(40) DEF FlowBlocker, TypeOK
        <4>. QED BY <1>1, <3>1, <4>1, Zenon
      <3>. QED BY <3>2, <3>3, Zenon
    <2>3. CASE Exits /\ bn' = bn
      BY <1>0, <1>1, <1>2, <2>3, AttemptFacts, Zenon DEF Exits, FlowBlocker
    <2>. QED BY <1>2, <2>2, <2>3, AttemptFacts, Zenon
  <1>3. CASE telex_send_init_data
    BY <1>0, <1>1, <1>3, QuietFacts, Zenon DEF FlowBlocker
  <1>4. CASE HandOver
    <2>1. entry' = 0 /\ bn' = bn /\ UNCHANGED <<chan, why, blocked>>
      BY <1>4, QuietFacts DEF FlowBlocker
    <2>2. entry = u \/ sock[u].sent = 2
      BY <1>0, <1>4, <2>1, QuietFacts, SMTT(40)
    <2>. QED BY <1>1, <2>1, <2>2, Zenon
  <1>5. CASE do_expire
    <2>1. /\ Range(chan["bro"]) \subseteq Range(chan'["bro"]) /\ why[u] \subseteq why'[u]
      BY <1>5, ExpireFacts, CommandFacts, DeliveredRange, Zenon DEF Exits
    <2>2. sock[u].sent = 2 /\ bn' = bn /\ blocked' = blocked
      BY <1>0, <1>5, ExpireFacts DEF FlowBlocker
    <2>. QED BY <1>1, <2>1, <2>2, Zenon
  <1>6. CASE ssl_conn_alert
    <2>1. why[u] \subseteq why'[u]
      BY <1>6, QuietFacts, SMTT(40) DEF TypeOK
    <2>2. sock[u].sent = 2 /\ bn' = bn /\ UNCHANGED <<chan, blocked>>
      BY <1>0, <1>6, QuietFacts DEF FlowBlocker
    <2>. QED BY <1>1, <2>1, <2>2, Zenon
  <1>7. ASSUME NEW v \in Uses, Bronnect(v)
        PROVE  blocked' # 0 \/ Block(u) \in Range(chan'["bro"]) \/ why'[u] \cap Away # {}
    <2>1. BronnectStep(v)
      BY <1>7, BronnectSteps, SMTT(40)
    <2>2. chan'["bro"] = chan["bro"] /\ why[u] \subseteq why'[u]
      BY <2>1, CommandFacts, DeliveredRange, SMTT(40) DEF BronnectStep
    <2>3. bn[u] # "gone"
      BY <2>1 DEF BronnectStep, Live
    <2>. QED BY <1>1, <2>1, <2>2, <2>3, Zenon DEF BronnectStep, Rest, FlowBlocker
  <1>8. ASSUME UNCHANGED <<entry, sock, bn>>, Block(u) \notin Range(chan["bro"])
        PROVE  u \in InUse
    <2>1. (entry = u \/ sock[u].sent = 2) /\ bn[u] # "gone"
      BY <1>8
    <2>2. entry = u \/ bn[u] \notin {"none", "gone"}
      BY <1>0, <2>1 DEF UsesInOrder
    <2>. QED BY <1>8, <2>2 DEF InUse
  <1>9. ASSUME NEW p \in {"bro", "bronnect"}, on_read_ready(p)
        PROVE  blocked' # 0 \/ Block(u) \in Range(chan'["bro"]) \/ why'[u] \cap Away # {}
    <2>. DEFINE m == Head(chan[p])
    <2>1. /\ m \in Command /\ m \in Range(chan[p]) /\ UNCHANGED <<entry, sock, bn>>
          /\ blocked' = IF m.block THEN m.use ELSE 0
      BY <1>9, ReadReadyFacts, ReadRange, Zenon
    <2>2. CASE m.block
      <3>1. m.use \in Uses
        BY <2>1 DEF Command
      <3>2. blocked' = m.use
        BY <2>1, <2>2, Zenon
      <3>3. \A v \in Uses : v # 0
        BY <1>0
      <3>. QED BY <3>1, <3>2, <3>3, Zenon
    <2>3. CASE ~m.block
      <3>1. m.use \in Uses /\ m = Unblock(m.use)
        BY <2>1, <2>3, CommandFacts DEF Command
      <3>2. m.use # u
        BY <1>0, <2>1, <3>1 DEF UnblockedByOwner
      <3>3. Block(u) # m
        BY <3>1, CommandFacts
      <3>4. Block(u) \in Range(chan["bro"]) => Block(u) \in Range(chan'["bro"])
        BY <1>9, <3>3, ReadRange
      <3>5. Block(u) \notin Range(chan["bro"]) => "other use" \in why'[u]
        BY <1>8, <1>9, <2>1, <2>3, <3>2, ReadReadyFacts, Zenon
      <3>. QED BY <3>4, <3>5, Zenon
    <2>. QED BY <2>2, <2>3, Zenon
  <1>10. CASE unblock_flow \/ router_sh
    BY <1>8, <1>10, UnblockFacts, Zenon
  <1>11. CASE Die
    <2>1. blocked' = blocked /\ UNCHANGED <<entry, sock, bn>> /\ why[u] \subseteq why'[u]
      BY <1>11, DieFacts, SMTT(40)
    <2>2. Block(u) \in Range(chan["bro"]) => "lost" \in why'[u]
      BY <1>11, DieFacts, CommandFacts
    <2>. QED BY <2>1, <2>2, Zenon DEF ServedIsBlocked
  <1>12. CASE UNCHANGED vars
    BY <1>1, <1>12, Zenon DEF vars
  <1>. QED BY <1>2, <1>3, <1>4, <1>5, <1>6, <1>7, <1>9, <1>10, <1>11, <1>12, Zenon
              DEF Next, Bro

\* Nothing that has been noted is forgotten.
LEMMA WhyGrows ==
  ASSUME TypeOK, [Next]_vars, NEW u \in Uses PROVE why[u] \subseteq why'[u]
  <1>1. CASE ssl_conn_attempt
    BY <1>1, AttemptFacts, Zenon DEF Delivered, Exits
  <1>2. CASE do_expire
    BY <1>2, ExpireFacts, Zenon DEF Delivered, Exits
  <1>3. CASE telex_send_init_data \/ HandOver
    BY <1>3, QuietFacts
  <1>4. CASE ssl_conn_alert
    BY <1>4, QuietFacts, SMTT(40) DEF TypeOK
  <1>5. ASSUME NEW v \in Uses, Bronnect(v) PROVE why[u] \subseteq why'[u]
    BY <1>5, BronnectSteps, SMTT(40) DEF BronnectStep, Delivered
  <1>6. ASSUME NEW p \in {"bro", "bronnect"}, on_read_ready(p) PROVE why[u] \subseteq why'[u]
    BY <1>6, ReadReadyFacts, Zenon
  <1>7. CASE unblock_flow \/ router_sh
    BY <1>7, UnblockFacts, Zenon
  <1>8. CASE Die
    BY <1>8, DieFacts
  <1>9. CASE UNCHANGED vars
    BY <1>9, SMTT(40) DEF vars
  <1>. QED BY <1>1, <1>2, <1>3, <1>4, <1>5, <1>6, <1>7, <1>8, <1>9 DEF Next, Bro

\* An excuse of a use stays one.
LEMMA ExcusedGrows ==
  ASSUME TypeOK, UsesInOrder, [Next]_vars, NEW u \in Uses, Excused(u) PROVE Excused(u)'
  <1>1. why[u] \subseteq why'[u]
    BY WhyGrows
  <1>2. ASSUME sock[u].sent = 2 PROVE sock'[u].sent = 2
    <2>0. entry # u
      BY <1>2 DEF UsesInOrder
    <2>1. CASE ssl_conn_attempt
      BY <1>2, <2>1, AttemptFacts, Zenon DEF Exits
    <2>2. CASE do_expire \/ telex_send_init_data \/ HandOver \/ ssl_conn_alert
      BY <1>2, <2>0, <2>2, ExpireFacts, QuietFacts
    <2>3. ASSUME NEW v \in Uses, Bronnect(v) PROVE sock' = sock
      BY <2>3, BronnectSteps DEF BronnectStep, Rest
    <2>4. ASSUME NEW p \in {"bro", "bronnect"}, on_read_ready(p) PROVE sock' = sock
      BY <2>4, Zenon DEF on_read_ready
    <2>5. CASE unblock_flow \/ Die \/ router_sh \/ UNCHANGED vars
      BY <1>2, <2>5 DEF unblock_flow, Die, router_sh, vars
    <2>. QED BY <1>2, <2>1, <2>2, <2>3, <2>4, <2>5 DEF Next, Bro
  <1>. QED BY <1>1, <1>2 DEF Excused

\* While the flow blocker is down nothing is sent to it.
LEMMA DownInv ==
  ASSUME TypeOK, DownIsCut, [Next]_vars PROVE DownIsCut'
  <1>. USE DEF FlowBlocker
  <1>1. ASSUME NEW p \in {"bro", "bronnect"}, NEW m \in Command, Delivered(p, m), fb' = fb
        PROVE  DownIsCut'
    <2>. SUFFICES ASSUME ~fb PROVE DownIsCut'
      BY <1>1 DEF DownIsCut
    <2>1. link[p] # "ok"
      BY DEF DownIsCut
    <2>2. chan' = chan /\ link'[p] = "dead" /\ \A q \in {"bro", "bronnect"} : q # p => link'[q] = link[q]
      BY <1>1, <2>1 DEF Delivered
    <2>. QED BY <2>2 DEF DownIsCut
  <1>2. ASSUME UNCHANGED <<fb, chan, link>> PROVE DownIsCut'
    BY <1>2 DEF DownIsCut
  <1>3. CASE ssl_conn_attempt
    <2>1. Block(use + 1) \in Command
      BY <1>3, AttemptFacts, CommandFacts
    <2>. QED BY <1>1, <1>2, <1>3, <2>1, AttemptFacts, Zenon DEF Exits
  <1>4. CASE do_expire
    <2>1. Unblock(entry) \in Command
      BY <1>4, ExpireFacts, CommandFacts
    <2>. QED BY <1>1, <1>2, <1>4, <2>1, ExpireFacts, Zenon DEF Exits
  <1>5. CASE telex_send_init_data \/ HandOver \/ ssl_conn_alert
    BY <1>2, <1>5, QuietFacts
  <1>6. ASSUME NEW v \in Uses, Bronnect(v) PROVE DownIsCut'
    <2>1. Unblock(v) \in Command /\ BronnectStep(v)
      BY <1>6, BronnectSteps, CommandFacts
    <2>. QED BY <1>1, <1>2, <2>1, Zenon DEF BronnectStep, Rest
  <1>7. ASSUME NEW p \in {"bro", "bronnect"}, on_read_ready(p) PROVE DownIsCut'
    <2>1. fb /\ fb' = fb
      BY <1>7, Zenon DEF on_read_ready
    <2>. QED BY <2>1 DEF DownIsCut
  <1>8. CASE unblock_flow \/ router_sh
    BY <1>8 DEF unblock_flow, router_sh, DownIsCut
  <1>9. CASE Die
    BY <1>9 DEF Die, DownIsCut, TypeOK
  <1>10. CASE UNCHANGED vars
    BY <1>2, <1>10 DEF vars
  <1>. QED BY <1>3, <1>4, <1>5, <1>6, <1>7, <1>8, <1>9, <1>10 DEF Next, Bro

\* A block never stays without somebody who is to lift it, but for the
\* reasons of Excused.
LEMMA OwedInv ==
  ASSUME TypeOK, TypeOK', UsesInOrder, UnblockedByOwner, DownIsCut, DownIsCut', BlockIsOwed,
         [Next]_vars
  PROVE  BlockIsOwed'
  <1>. DEFINE Kept == /\ blocked' # 0 => Owed(blocked)' \/ Excused(blocked)'
                      /\ \A i \in DOMAIN chan'["bro"] : \A u \in Uses :
                           chan'["bro"][i] = Block(u) => Followed(i, u)'
  <1>0. CASE ~fb'
    BY <1>0 DEF DownIsCut, BlockIsOwed
  <1>. SUFFICES ASSUME fb' PROVE Kept
    BY <1>0 DEF BlockIsOwed
  <1>1. /\ use \in Nat /\ \A u \in Uses : u \in Nat /\ u > 0 /\ sock[u].sent \in 0..2
        /\ entry \in Nat
    BY UsesAssumption DEF TypeOK, Uses
  <1>2. \A u \in Uses : why[u] \subseteq why'[u] /\ (Excused(u) => Excused(u)')
    BY WhyGrows, ExcusedGrows
  <1>3. chan["bro"] \in Seq(Command) /\ chan \in [{"bro", "bronnect"} -> Seq(Command)]
    BY SMTT(40) DEF TypeOK
  <1>4. /\ blocked # 0 => blocked \in Uses
        /\ fb /\ blocked # 0 => Owed(blocked) \/ Excused(blocked)
        /\ \A i \in DOMAIN chan["bro"] : \A u \in Uses :
             chan["bro"][i] = Block(u) => Followed(i, u)
    BY DEF TypeOK, BlockIsOwed
  <1>5. ASSUME fb, blocked' = blocked, \A u \in Uses : Owed(u) => Owed(u)' \/ Excused(u)'
        PROVE  blocked' # 0 => Owed(blocked)' \/ Excused(blocked)'
    BY <1>2, <1>4, <1>5
  <1>6. ASSUME chan'["bro"] = chan["bro"],
               \A u \in Uses : entry = u \/ sock[u].sent = 2 =>
                 entry' = u \/ sock'[u].sent = 2 \/ Excused(u)'
        PROVE  \A i \in DOMAIN chan'["bro"] : \A u \in Uses :
                 chan'["bro"][i] = Block(u) => Followed(i, u)'
    <2>1. ASSUME NEW i \in DOMAIN chan["bro"], NEW u \in Uses, Followed(i, u) PROVE Followed(i, u)'
      BY <1>2, <1>6, <2>1, SMTT(40) DEF Followed
    <2>. QED BY <1>4, <1>6, <2>1
  <1>7. CASE ssl_conn_attempt
    <2>. DEFINE v == use + 1
    <2>a. fb /\ blocked' = blocked
      BY <1>7, AttemptFacts, Zenon DEF FlowBlocker
    <2>0. v \in Uses /\ v > use /\ entry = 0
      BY <1>1, <1>7, AttemptFacts
    <2>1. v \in Uses /\ Block(v) \in Command /\ entry = 0 /\ blocked' = blocked /\ fb
          /\ bn[v] = "none" /\ \A u \in Uses : Block(v) = Block(u) => v = u
      BY <2>0, <2>a, CommandFacts DEF UsesInOrder
    <2>2. Delivered("bro", Block(v)) /\ entry' = v /\ sock' = sock
          /\ (bn' = bn \/ bn' = [bn EXCEPT ![v] = "open"])
      BY <1>7, <2>1, AttemptFacts DEF Exits
    <2>3. /\ Range(chan["bro"]) \subseteq Range(chan'["bro"])
          /\ chan'["bronnect"] = chan["bronnect"]
      BY <2>1, <2>2, DeliveredRange
    <2>4. \A u \in Uses : u # v => bn'[u] = bn[u]
      BY <2>1, <2>2 DEF TypeOK
    <2>5. ASSUME NEW u \in Uses, Owed(u) PROVE Owed(u)'
      <3>1. CASE entry = u
        BY <1>1, <2>1, <3>1
      <3>2. CASE bn[u] \in {"init", "relay"} \/ (bn[u] = "open" /\ sock[u].sent = 2)
        BY <2>1, <2>2, <2>4, <3>2 DEF Owed
      <3>3. CASE \E p \in {"bro", "bronnect"} : Unblock(u) \in Range(chan[p])
        BY <2>3, <3>3 DEF Owed
      <3>. QED BY <2>5, <3>1, <3>2, <3>3 DEF Owed
    <2>6. ASSUME NEW i \in DOMAIN chan'["bro"], NEW u \in Uses, chan'["bro"][i] = Block(u)
          PROVE  Followed(i, u)'
      <3>1. CASE chan' = chan
        <4>1. Followed(i, u)
          BY <1>4, <2>6, <3>1
        <4>. QED BY <1>1, <1>2, <2>1, <2>2, <3>1, <4>1 DEF Followed
      <3>2. CASE chan' = [chan EXCEPT !["bro"] = Append(@, Block(v))]
        <4>1. chan'["bro"] = Append(chan["bro"], Block(v))
          BY <1>3, <3>2
        <4>2. CASE i \in DOMAIN chan["bro"]
          <5>1. Followed(i, u)
            BY <1>3, <1>4, <2>1, <2>6, <4>1, <4>2, AppendFacts
          <5>2. \A k \in DOMAIN chan["bro"] : k \in DOMAIN chan'["bro"] /\ chan'["bro"][k] = chan["bro"][k]
            BY <1>3, <2>1, <4>1, AppendFacts
          <5>. QED BY <1>1, <1>2, <2>1, <2>2, <5>1, <5>2 DEF Followed
        <4>3. CASE i = Len(chan["bro"]) + 1
          BY <1>3, <2>1, <2>2, <2>6, <4>1, <4>3, AppendFacts DEF Followed
        <4>. QED BY <1>3, <2>1, <4>1, <4>2, <4>3, AppendFacts
      <3>. QED BY <2>2, <3>1, <3>2 DEF Delivered
    <2>. QED BY <1>5, <2>1, <2>5, <2>6
  <1>8. CASE do_expire
    <2>0. PICK v \in Uses : v = entry
      BY <1>8, ExpireFacts
    <2>1. v = entry /\ Unblock(v) \in Command /\ Unblock(v).use = v /\ entry' = 0
          /\ blocked' = blocked /\ fb /\ bn' = bn /\ \A u \in Uses : sock'[u].sent = sock[u].sent
      BY <1>8, <2>0, ExpireFacts, CommandFacts DEF FlowBlocker
    <2>2. Delivered("bro", Unblock(v))
      BY <1>8, <2>1, ExpireFacts DEF Exits
    <2>3. /\ Range(chan["bro"]) \subseteq Range(chan'["bro"])
          /\ Unblock(v) \in Range(chan'["bro"]) \/ Excused(v)'
          /\ chan'["bronnect"] = chan["bronnect"]
      BY <2>1, <2>2, DeliveredRange DEF Excused
    <2>4. ASSUME NEW u \in Uses, Owed(u) PROVE Owed(u)' \/ Excused(u)'
      <3>1. CASE u = v
        BY <2>3, <3>1 DEF Owed
      <3>2. CASE bn[u] \in {"init", "relay"} \/ (bn[u] = "open" /\ sock[u].sent = 2)
        BY <2>1, <3>2 DEF Owed
      <3>3. CASE \E p \in {"bro", "bronnect"} : Unblock(u) \in Range(chan[p])
        BY <2>3, <3>3 DEF Owed
      <3>. QED BY <2>1, <2>4, <3>1, <3>2, <3>3 DEF Owed
    <2>5. ASSUME NEW i \in DOMAIN chan'["bro"], NEW u \in Uses, chan'["bro"][i] = Block(u)
          PROVE  Followed(i, u)'
      <3>1. CASE chan' = chan /\ "lost" \in why'[v]
        <4>1. Followed(i, u)
          BY <1>4, <2>5, <3>1
        <4>2. Excused(v)'
          BY <3>1 DEF Excused
        <4>. QED BY <1>2, <2>1, <3>1, <4>1, <4>2 DEF Followed
      <3>2. CASE chan' = [chan EXCEPT !["bro"] = Append(@, Unblock(v))]
        <4>1. chan'["bro"] = Append(chan["bro"], Unblock(v))
          BY <1>3, <3>2, SMTT(40)
        <4>2. Block(u) # Unblock(v)
          BY <2>1, CommandFacts
        <4>3. i \in DOMAIN chan["bro"] /\ i < Len(chan["bro"]) + 1 /\ chan["bro"][i] = Block(u)
          BY <1>3, <2>1, <2>5, <4>1, <4>2, AppendFacts
        <4>4. Followed(i, u)
          BY <1>4, <4>3
        <4>5. \A k \in DOMAIN chan["bro"] : k \in DOMAIN chan'["bro"] /\ chan'["bro"][k] = chan["bro"][k]
          BY <1>3, <2>1, <4>1, AppendFacts
        <4>6. CASE u = v
          BY <1>3, <2>1, <4>1, <4>3, <4>6, AppendFacts DEF Followed
        <4>7. CASE u # v
          BY <1>2, <2>1, <4>4, <4>5, <4>7 DEF Followed
        <4>. QED BY <4>6, <4>7
      <3>. QED BY <2>1, <2>2, <3>1, <3>2 DEF Delivered
    <2>. QED BY <1>5, <2>1, <2>4, <2>5
  <1>9. CASE telex_send_init_data
    <2>1. /\ entry \in Uses /\ UNCHANGED <<entry, bn, chan, why, blocked>> /\ fb
          /\ \A u \in Uses : u # entry => sock'[u].sent = sock[u].sent
      BY <1>9, QuietFacts DEF FlowBlocker
    <2>2. sock[entry].sent # 2
      BY <2>1 DEF UsesInOrder
    <2>3. ASSUME NEW u \in Uses, Owed(u) PROVE Owed(u)'
      BY <2>1, <2>2, <2>3 DEF Owed, EndedKnown
    <2>. QED BY <1>5, <1>6, <2>1, <2>2, <2>3
  <1>10. CASE HandOver
    <2>1. /\ entry \in Uses /\ sock[entry].sent = 1 /\ sock'[entry].sent = 2 /\ entry' = 0
          /\ UNCHANGED <<bn, chan, why, blocked>> /\ fb
          /\ \A u \in Uses : u # entry => sock'[u].sent = sock[u].sent
      BY <1>10, QuietFacts DEF FlowBlocker
    <2>2. bn[entry] \in {"open", "init", "relay", "gone"}
      BY <2>1 DEF UsesInOrder, TypeOK
    <2>3. ASSUME NEW u \in Uses, Owed(u) PROVE Owed(u)' \/ Excused(u)'
      <3>1. CASE entry = u /\ u \notin EndedKnown
        <4>1. bn[u] = "gone" => "unknown" \in why[u]
          BY <3>1 DEF EndedKnown
        <4>. QED BY <2>1, <2>2, <3>1, <4>1 DEF Owed, Excused
      <3>2. CASE bn[u] \in {"init", "relay"} \/ (bn[u] = "open" /\ sock[u].sent = 2)
        BY <2>1, <3>2 DEF Owed
      <3>3. CASE \E p \in {"bro", "bronnect"} : Unblock(u) \in Range(chan[p])
        BY <2>1, <3>3 DEF Owed
      <3>. QED BY <2>3, <3>1, <3>2, <3>3 DEF Owed
    <2>. QED BY <1>5, <1>6, <2>1, <2>3
  <1>11. CASE ssl_conn_alert
    <2>1. /\ entry \in Uses /\ entry' = 0 /\ UNCHANGED <<bn, chan, blocked>> /\ fb
          /\ \A u \in Uses : sock'[u].sent = sock[u].sent
          /\ why' = [why EXCEPT ![entry] = @ \cup {"alert"}]
      BY <1>11, QuietFacts DEF FlowBlocker
    <2>2. ASSUME NEW u \in Uses, u = entry PROVE Excused(u)'
      <3>1. "alert" \in why'[u]
        BY <2>1, <2>2, SMTT(40) DEF TypeOK
      <3>. QED BY <3>1 DEF Excused
    <2>3. ASSUME NEW u \in Uses, u # entry, Owed(u) PROVE Owed(u)'
      BY <2>1, <2>3 DEF Owed
    <2>. QED BY <1>5, <1>6, <2>1, <2>2, <2>3
  <1>12. ASSUME NEW v \in Uses, Bronnect(v) PROVE Kept
    <2>1. BronnectStep(v) /\ Unblock(v) \in Command /\ Unblock(v).use = v
      BY <1>12, BronnectSteps, CommandFacts, SMTT(40)
    <2>2. /\ chan'["bro"] = chan["bro"] /\ UNCHANGED <<entry, sock, blocked>> /\ fb
          /\ Range(chan["bronnect"]) \subseteq Range(chan'["bronnect"])
          /\ \A u \in Uses : u # v => bn'[u] = bn[u]
      BY <2>1, DeliveredRange, SMTT(40) DEF BronnectStep, Rest, FlowBlocker
    <2>3. ASSUME NEW u \in Uses, u # v, Owed(u) PROVE Owed(u)'
      BY <1>2, <2>2, <2>3 DEF Owed, EndedKnown
    <2>4. ASSUME Owed(v) PROVE Owed(v)' \/ Excused(v)'
      <3>1. CASE bn'[v] \in {"init", "relay"}
        BY <3>1 DEF Owed
      <3>2. CASE Delivered("bronnect", Unblock(v))
        <4>1. Unblock(v) \in Range(chan'["bronnect"]) \/ "lost" \in why'[v]
          BY <2>1, <3>2, DeliveredRange
        <4>. QED BY <4>1 DEF Owed, Excused
      <3>3. CASE bn[v] = "open" /\ "unknown" \in why'[v] /\ UNCHANGED chan
        BY <2>2, <2>4, <3>3 DEF Owed, Excused, EndedKnown
      <3>. QED BY <2>1, <3>1, <3>2, <3>3 DEF BronnectStep
    <2>. QED BY <1>5, <1>6, <2>2, <2>3, <2>4
  <1>13. ASSUME NEW p \in {"bro", "bronnect"}, on_read_ready(p) PROVE Kept
    <2>. DEFINE m == Head(chan[p])
    <2>1. /\ chan[p] # <<>> /\ m \in Command /\ chan' = [chan EXCEPT ![p] = Tail(@)]
          /\ blocked' = (IF m.block THEN m.use ELSE 0) /\ UNCHANGED <<entry, sock, bn>>
          /\ m.block /\ m.use \in EndedKnown => "overtaken" \in why'[m.use]
      BY <1>13, ReadReadyFacts, Zenon
    <2>2. CASE p = "bronnect"
      <3>1. m \in Range(chan["bronnect"])
        BY <1>13, <2>2, ReadRange, SMTT(40)
      <3>2. blocked' = 0 /\ chan'["bro"] = chan["bro"]
        BY <1>3, <2>1, <2>2, <3>1 DEF UnblockedByOwner
      <3>. QED BY <1>6, <2>1, <3>2
    <2>3. CASE p = "bro"
      <3>. DEFINE s == chan["bro"]
      <3>1. /\ s \in Seq(Command) /\ s # <<>> /\ chan'["bro"] = Tail(s) /\ m = s[1] /\ 1 \in DOMAIN s
            /\ \A i \in DOMAIN Tail(s) : i + 1 \in DOMAIN s /\ Tail(s)[i] = s[i + 1]
            /\ \A i \in DOMAIN s : i # 1 => i - 1 \in DOMAIN Tail(s) /\ i = (i - 1) + 1
            /\ DOMAIN s \subseteq Nat /\ DOMAIN Tail(s) \subseteq Nat
        BY <1>3, <2>1, <2>3, TailFacts, SMTT(40)
      <3>2. ASSUME NEW i \in DOMAIN Tail(s), NEW u \in Uses, Tail(s)[i] = Block(u)
            PROVE  Followed(i, u)'
        <4>1. i + 1 \in DOMAIN s /\ s[i + 1] = Block(u)
          BY <3>1, <3>2
        <4>2. Followed(i + 1, u)
          BY <1>4, <4>1
        <4>3. CASE entry = u \/ sock[u].sent = 2 \/ Excused(u)
          BY <1>2, <2>1, <4>3 DEF Followed
        <4>4. ASSUME NEW j \in DOMAIN s, j > i + 1, s[j] = Unblock(u) PROVE Followed(i, u)'
          <5>0. i \in Nat /\ j \in Nat
            BY <3>1
          <5>1. j # 1 /\ j - 1 > i /\ (j - 1) + 1 = j
            BY <4>4, <5>0
          <5>2. j - 1 \in DOMAIN Tail(s)
            BY <3>1, <5>1
          <5>3. Tail(s)[j - 1] = s[(j - 1) + 1]
            BY <3>1, <5>2, Zenon
          <5>4. Tail(s)[j - 1] = Unblock(u)
            BY <4>4, <5>1, <5>3, Zenon
          <5>. QED BY <3>1, <5>1, <5>2, <5>4, Zenon DEF Followed
        <4>. QED BY <4>2, <4>3, <4>4, SMTT(40) DEF Followed
      <3>3. ASSUME NEW u \in Uses, m = Block(u) PROVE Owed(u)' \/ Excused(u)'
        <4>1. m = Block(u) /\ m.use = u /\ m.block
          BY <3>3, CommandFacts
        <4>2. u \in EndedKnown => Excused(u)'
          BY <2>1, <4>1 DEF Excused
        <4>3. Followed(1, u)
          BY <1>4, <3>1, <4>1
        <4>4. CASE entry = u
          <5>1. u \notin EndedKnown => u \notin EndedKnown'
            BY <1>2, <2>1 DEF EndedKnown
          <5>. QED BY <2>1, <4>1, <4>2, <4>4, <5>1 DEF Owed
        <4>5. CASE sock[u].sent = 2
          <5>1. bn[u] \in {"open", "init", "relay", "gone"}
            BY <4>5 DEF UsesInOrder, TypeOK
          <5>2. CASE bn[u] # "gone"
            BY <2>1, <4>1, <4>5, <5>1, <5>2 DEF Owed
          <5>3. CASE bn[u] = "gone"
            <6>1. u \in EndedKnown \/ Excused(u)
              BY <4>5, <5>3 DEF EndedKnown, Excused
            <6>. QED BY <1>2, <4>1, <4>2, <6>1
          <5>. QED BY <5>2, <5>3
        <4>6. CASE Excused(u)
          BY <1>2, <4>1, <4>6
        <4>7. ASSUME NEW j \in DOMAIN s, j > 1, s[j] = Unblock(u) PROVE Owed(u)'
          <5>0. j \in Nat
            BY <3>1
          <5>a. j # 1 /\ (j - 1) + 1 = j
            BY <4>7, <5>0
          <5>b. j - 1 \in DOMAIN Tail(s)
            BY <3>1, <5>a
          <5>1. j - 1 \in DOMAIN Tail(s) /\ Tail(s)[j - 1] = Unblock(u)
            BY <3>1, <4>7, <5>a, <5>b, Zenon
          <5>2. Unblock(u) \in Range(chan'["bro"])
            BY <3>1, <5>1, Zenon DEF Range
          <5>. QED BY <5>2, SMTT(40) DEF Owed
        <4>. QED BY <4>3, <4>4, <4>5, <4>6, <4>7 DEF Followed
      <3>4. ASSUME m.block PROVE Owed(blocked)' \/ Excused(blocked)'
        <4>1. m.use \in Uses /\ m = Block(m.use) /\ blocked' = m.use
          BY <2>1, <3>4, CommandFacts DEF Command
        <4>. QED BY <3>3, <4>1
      <3>. QED BY <2>1, <3>1, <3>2, <3>4
    <2>. QED BY <2>2, <2>3
  <1>14. CASE unblock_flow
    BY <1>6, <1>14, UnblockFacts
  <1>15. CASE router_sh
    <2>1. ~fb /\ blocked' = 0 /\ chan' = chan
      BY <1>15 DEF router_sh
    <2>. QED BY <2>1 DEF DownIsCut
  <1>16. ~Die
    BY DEF Die
  <1>17. CASE UNCHANGED vars
    <2>1. fb /\ blocked' = blocked /\ chan' = chan /\ UNCHANGED <<entry, bn, sock, why>>
      BY <1>17 DEF vars
    <2>2. ASSUME NEW u \in Uses, Owed(u) PROVE Owed(u)'
      BY <2>1, <2>2 DEF Owed, EndedKnown
    <2>. QED BY <1>5, <1>6, <2>1, <2>2
  <1>. HIDE DEF Kept
  <1>. QED BY <1>7, <1>8, <1>9, <1>10, <1>11, <1>12, <1>13, <1>14, <1>15, <1>16, <1>17,
              SMTT(40) DEF Next, Bro

-----------------------------------------------------------------------------
(* The theorems.                                                           *)

\* IInv holds in every state the three programs reach.
THEOREM StationInvariance == Spec => []IInv
  <1>1. IInv /\ [Next]_vars => IInv'
    <2>. SUFFICES ASSUME IInv, [Next]_vars PROVE IInv'
      OBVIOUS
    <2>1. TypeOK'
      BY TypeInv DEF IInv
    <2>2. DownIsCut'
      BY DownInv DEF IInv
    <2>. QED BY <2>1, <2>2, OrderInv, OwnerInv, ServedInv, OwedInv DEF IInv
  <1>. QED BY <1>1, InitInv, PTL DEF Spec

\* Types of the state of the station.
THEOREM StationTypes == Spec => []TypeOK
  BY StationInvariance, PTL DEF IInv

\* A flow that bronnect relays is blocked, but for the ways out that
\* RelayedIsBlocked names: Bro does not unblock what it has handed over,
\* however often the conn_id is used again (HandOver and do_expire).
THEOREM RelayedIsBlockedHolds == Spec => []RelayedIsBlocked
  <1>1. IInv => RelayedIsBlocked
    BY Zenon DEF IInv, UsesInOrder, ServedIsBlocked, RelayedIsBlocked
  <1>. QED BY <1>1, StationInvariance, PTL

\* When all are done the flow is not blocked, but for the ways that Excused
\* names, and those of the use whose block it is: every block is followed by
\* an unblock of its owner (do_expire, cleanup_connection_after_ssl).
THEOREM DoneIsUnblockedHolds == Spec => []DoneIsUnblocked
  <1>1. IInv => DoneIsUnblocked
    <2>. SUFFICES ASSUME IInv, fb, entry = 0, \A u \in Uses : bn[u] \in {"none", "gone"},
                         \A p \in DOMAIN chan : chan[p] = <<>>, blocked # 0
                  PROVE  Excused(blocked)
      BY DEF DoneIsUnblocked
    <2>1. \A p \in {"bro", "bronnect"} : Range(chan[p]) = {}
      BY DEF IInv, TypeOK, Range
    <2>2. blocked \in Uses
      BY DEF IInv, TypeOK
    <2>3. ~Owed(blocked)
      BY <2>1, <2>2 DEF Owed
    <2>. QED BY <2>3 DEF IInv, BlockIsOwed
  <1>. QED BY <1>1, StationInvariance, PTL
=============================================================================
