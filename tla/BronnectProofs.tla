--------------------------- MODULE BronnectProofs ---------------------------
(***************************************************************************)
(* Proofs about Bronnect for every finite set of connections and every set *)
(* of flows.  Every handler is first shown to end in one of two ways: it   *)
(* keeps its connection with a record that satisfies the invariant (Kept)  *)
(* or it ends it (Ended).  The invariant and the action property follow    *)
(* from that alone.                                                        *)
(***************************************************************************)
EXTENDS Bronnect, FiniteSetTheorems, TLAPS

\* The handler leaves connection c allocated.
Kept(c) ==
  \E r \in ConnectionState :
    /\ st' = [st EXCEPT ![c] = r]
    /\ RelayInv(r) /\ StageInv(r)
    /\ UNCHANGED <<connections, active, unblocks>>

\* The handler frees connection c and unblocks its flow when that is known.
Ended(c) ==
  \E r \in ConnectionState :
    /\ st' = [st EXCEPT ![c] = r]
    /\ r.mem = "FREED" /\ FreedInv(r)
    /\ connections' = connections \ {c}
    /\ active' = active - 1
    /\ unblocks' \in Seq(Flows \cup {ZeroFlow})
    /\ st[c].flow_state # ZeroFlow
         => unblocks' = Append(unblocks, st[c].flow_state)

\* The record s a handler has built still names the flow of connection c.
Owns(c, s) ==
  st[c].flow_state # ZeroFlow
    => s.state > 0 /\ s.flow_state = st[c].flow_state

-----------------------------------------------------------------------------
(* Values a record update may store *)

\* The memset record of handle_bro_connection has the record type.
LEMMA UnusedType == Unused \in ConnectionState
BY DEF Unused, ConnectionState

\* The states the handlers assign and the empty event set are in range.
LEMMA StateRange ==
  /\ 1 \in 0..6 /\ 2 \in 0..6 /\ 3 \in 0..6 /\ 5 \in 0..6 /\ 6 \in 0..6
  /\ {} \in SUBSET Events
OBVIOUS

-----------------------------------------------------------------------------
(* The cleanup chain *)

\* cleanup_connection_after_ssl unregisters every event that is registered,
\* given that registration follows the readiness flags.
LEMMA AfterSSLEnds ==
  ASSUME NEW c \in Conns, NEW s, NEW u \in BOOLEAN,
         unblocks \in Seq(Flows \cup {ZeroFlow}),
         RelayInv(s), ~s.in_use, Owns(c, s),
         st[c].flow_state # ZeroFlow => u,
         cleanup_connection_after_ssl(c, s, u)
  PROVE  Ended(c)
<1> DEFINE r == [Unused EXCEPT !.mem = "FREED", !.state = 6,
                               !.added = s.added \ Unregistered(s),
                               !.touched = s.in_use]
<1>1. s \in ConnectionState /\ EventsMatch(s)
  BY DEF RelayInv
<1>2. s.added \ Unregistered(s) = {}
  BY DEF RelayInv, EventsMatch, Unregistered, ConnectionState, Events,
         IOEvents, READ, WRITE
<1>3. r \in ConnectionState /\ r.mem = "FREED" /\ FreedInv(r)
  <2>1. s.in_use = FALSE
    BY <1>1 DEF ConnectionState
  <2>2. r = [Unused EXCEPT !.mem = "FREED", !.state = 6, !.added = {},
                           !.touched = FALSE]
    BY <1>2, <2>1
  <2> HIDE DEF r
  <2>3. r \in ConnectionState
    BY <2>1, <2>2, UnusedType, StateRange, Zenon DEF ConnectionState
  <2>4. r.mem = "FREED" /\ r.added = {} /\ r.touched = FALSE
    BY <2>2 DEF Unused
  <2> QED
    BY <2>3, <2>4 DEF FreedInv
<1>4. s.flow_state \in Flows \cup {ZeroFlow}
  BY <1>1 DEF ConnectionState
<1>5. unblocks' \in Seq(Flows \cup {ZeroFlow})
  BY <1>4 DEF cleanup_connection_after_ssl
<1>6. st[c].flow_state # ZeroFlow
        => unblocks' = Append(unblocks, st[c].flow_state)
  BY DEF cleanup_connection_after_ssl, Owns
<1> QED
  BY <1>3, <1>5, <1>6 DEF cleanup_connection_after_ssl, Ended

\* SSL shutdown that may wait: the connection is kept in state 5 or freed.
LEMMA TryShutdownEndsOrKeeps ==
  ASSUME NEW c \in Conns, NEW s,
         unblocks \in Seq(Flows \cup {ZeroFlow}),
         RelayInv(s), ~s.telex_conn, Owns(c, s),
         s.in_use => s.ssl # "NULL" /\ ~s.client_conn,
         cleanup_connection_ssl_try_shutdown(c, s)
  PROVE  Ended(c) \/ Kept(c)
<1>1. CASE s.ssl = "NULL"
  BY <1>1, AfterSSLEnds DEF cleanup_connection_ssl_try_shutdown
<1>2. CASE s.ssl # "NULL"
  <2>1. PICK r \in SSL_shutdown_again(s) :
          IF r = "END"
          THEN cleanup_connection_after_ssl(c, s, TRUE)
          ELSE Commit(c, [s EXCEPT !.state = 5, !.cleanup_waiting = r,
                                   !.in_use = FALSE])
    BY <1>2 DEF cleanup_connection_ssl_try_shutdown
  <2>2. CASE r = "END"
    <3>1. s.client_conn
      BY <2>2 DEF SSL_shutdown_again
    <3>2. ~s.in_use
      BY <3>1
    <3> QED
      BY <2>1, <2>2, <3>2, AfterSSLEnds
  <2>3. CASE r # "END"
    <3> DEFINE t == [s EXCEPT !.state = 5, !.cleanup_waiting = r,
                              !.in_use = FALSE]
    <3>1. r \in {"WANT_READ", "WANT_WRITE"}
      BY <2>3 DEF SSL_shutdown_again
    <3>2. t \in ConnectionState
      BY <3>1, StateRange, Zenon DEF RelayInv, ConnectionState
    <3>3. RelayInv(t)
      BY <3>2 DEF RelayInv, EventsMatch, ConnectionState
    <3>4. StageInv(t)
      <4>1. t.state = 5 /\ t.in_use = FALSE /\ t.telex_conn = s.telex_conn
        BY DEF RelayInv, ConnectionState
      <4> QED
        BY <4>1 DEF StageInv
    <3> QED
      BY <2>1, <2>3, <3>2, <3>3, <3>4 DEF Commit, Kept
  <2> QED
    BY <2>2, <2>3
<1> QED
  BY <1>1, <1>2

\* close_telex_connection only forgets the Bro socket and its event.
LEMMA CloseTelexKeepsRelay ==
  ASSUME NEW s, RelayInv(s)
  PROVE  LET t == close_telex_connection(s) IN
         /\ RelayInv(t) /\ t.telex_conn = FALSE
         /\ t.ssl = s.ssl /\ t.state = s.state /\ t.in_use = s.in_use
         /\ t.flow_state = s.flow_state /\ t.client_conn = s.client_conn
<1> DEFINE t == close_telex_connection(s)
<1>1. s \in ConnectionState
  BY DEF RelayInv
<1>2. s.alloc \ {"telex_read"} \in SUBSET Events
      /\ s.added \ {"telex_read"} \in SUBSET Events
  BY <1>1 DEF ConnectionState
<1>3. t \in ConnectionState
  BY <1>1, <1>2, Zenon DEF ConnectionState, close_telex_connection
<1>4. /\ t.telex_conn = FALSE
      /\ t.alloc = s.alloc \ {"telex_read"}
      /\ t.added = s.added \ {"telex_read"}
      /\ t.mem = s.mem /\ t.touched = s.touched
      /\ t.client_ready = s.client_ready /\ t.service_ready = s.service_ready
      /\ t.ssl = s.ssl /\ t.state = s.state /\ t.in_use = s.in_use
      /\ t.flow_state = s.flow_state /\ t.client_conn = s.client_conn
  BY <1>1 DEF ConnectionState, close_telex_connection
<1> HIDE DEF t
<1>5. RelayInv(t)
  BY <1>3, <1>4 DEF RelayInv, EventsMatch
<1> QED
  BY <1>4, <1>5 DEF t

\* cleanup_connection: the SSL shutdown is finished, waited for, or skipped.
LEMMA CleanupEndsOrKeeps ==
  ASSUME NEW c \in Conns, NEW s,
         unblocks \in Seq(Flows \cup {ZeroFlow}),
         RelayInv(s), Owns(c, s),
         s.in_use => s.ssl = "LIVE" /\ ~s.client_conn,
         cleanup_connection(c, s)
  PROVE  Ended(c) \/ Kept(c)
<1> DEFINE t == close_telex_connection(s)
<1>1. /\ RelayInv(t) /\ ~t.telex_conn
      /\ t.ssl = s.ssl /\ t.state = s.state /\ t.in_use = s.in_use
      /\ t.flow_state = s.flow_state /\ t.client_conn = s.client_conn
  BY CloseTelexKeepsRelay
<1>2. Owns(c, t)
  BY <1>1 DEF Owns
<1>3. /\ t.ssl = "NULL" => cleanup_connection_after_ssl(c, t, t.state > 0)
      /\ t.ssl # "NULL" =>
           \E r \in SSL_shutdown_first(t) :
             IF r = 0
             THEN cleanup_connection_ssl_try_shutdown(c, [t EXCEPT !.ssl = "SENT"])
             ELSE cleanup_connection_after_ssl(c, t, TRUE)
  BY DEF cleanup_connection
<1> HIDE DEF t
<1>4. CASE t.ssl = "NULL"
  <2>1. ~t.in_use
    BY <1>1, <1>4
  <2>2. st[c].flow_state # ZeroFlow => t.state > 0
    BY <1>2 DEF Owns
  <2>3. (t.state > 0) \in BOOLEAN /\ cleanup_connection_after_ssl(c, t, t.state > 0)
    BY <1>3, <1>4
  <2> QED
    BY <1>1, <1>2, <2>1, <2>2, <2>3, AfterSSLEnds, Zenon
<1>5. CASE t.ssl # "NULL"
  <2>1. PICK r \in SSL_shutdown_first(t) :
          IF r = 0
          THEN cleanup_connection_ssl_try_shutdown(c, [t EXCEPT !.ssl = "SENT"])
          ELSE cleanup_connection_after_ssl(c, t, TRUE)
    BY <1>3, <1>5
  <2>2. CASE r = 0
    <3> DEFINE u == [t EXCEPT !.ssl = "SENT"]
    <3>1. u \in ConnectionState
      BY <1>1, Zenon DEF RelayInv, ConnectionState
    <3>2. /\ u.ssl = "SENT" /\ u.telex_conn = t.telex_conn
          /\ u.in_use = t.in_use /\ u.client_conn = t.client_conn
          /\ u.state = t.state /\ u.flow_state = t.flow_state
          /\ u.mem = t.mem /\ u.touched = t.touched
          /\ u.alloc = t.alloc /\ u.added = t.added
          /\ u.client_ready = t.client_ready
          /\ u.service_ready = t.service_ready
      BY <1>1 DEF RelayInv, ConnectionState
    <3> HIDE DEF u
    <3>5. RelayInv(u)
      BY <1>1, <3>1, <3>2 DEF RelayInv, EventsMatch
    <3>3. Owns(c, u)
      BY <1>2, <3>2 DEF Owns
    <3>4. cleanup_connection_ssl_try_shutdown(c, u)
      BY <2>1, <2>2 DEF u
    <3> QED
      BY <1>1, <3>2, <3>3, <3>4, <3>5, TryShutdownEndsOrKeeps
  <2>3. CASE r # 0
    <3>1. ~t.in_use
      BY <1>1, <2>3 DEF SSL_shutdown_first
    <3> QED
      BY <1>1, <1>2, <2>1, <2>3, <3>1, AfterSSLEnds
  <2> QED
    BY <2>2, <2>3
<1> QED
  BY <1>4, <1>5

-----------------------------------------------------------------------------
(* Relaying *)

\* The fields of a record that no relay step touches but the ones named.
SameConnection(t, s) ==
  /\ t \in ConnectionState
  /\ t.mem = s.mem /\ t.touched = s.touched /\ t.in_use = s.in_use
  /\ t.telex_conn = s.telex_conn /\ t.client_conn = s.client_conn
  /\ t.ssl = s.ssl /\ t.alloc = s.alloc /\ t.flow_state = s.flow_state

\* pet_watchdog registers the watchdog and nothing else.
LEMMA PetKeepsRelay ==
  ASSUME NEW s, RelayInv(s)
  PROVE  LET t == pet_watchdog(s) IN
         /\ RelayInv(t) /\ SameConnection(t, s) /\ t.state = s.state
         /\ t.client_ready = s.client_ready
         /\ t.service_ready = s.service_ready
<1> DEFINE t == pet_watchdog(s)
<1>1. s \in ConnectionState /\ "watchdog" \in s.alloc
  BY DEF RelayInv
<1>2. s.added \cup {"watchdog"} \in SUBSET Events
  BY <1>1 DEF ConnectionState
<1>3. t = [s EXCEPT !.added = @ \cup {"watchdog"}]
  BY <1>1 DEF pet_watchdog, event_add
<1>4. t \in ConnectionState
  BY <1>1, <1>2, <1>3, Zenon DEF ConnectionState
<1>5. SameConnection(t, s) /\ t.state = s.state
      /\ t.added = s.added \cup {"watchdog"}
      /\ t.client_ready = s.client_ready /\ t.service_ready = s.service_ready
  BY <1>1, <1>3, <1>4 DEF ConnectionState, SameConnection
<1> HIDE DEF t
<1>6. RelayInv(t)
  BY <1>5 DEF RelayInv, EventsMatch, SameConnection
<1> QED
  BY <1>5, <1>6 DEF t

\* Clearing a pair of readiness flags and registering the two events again
\* restores the match between flags and events: upward direction.
LEMMA RearmUp ==
  ASSUME NEW s, RelayInv(s), WRITE \in s.service_ready, READ \in s.client_ready
  PROVE  LET t == event_add([s EXCEPT !.service_ready = @ \ {WRITE},
                                      !.client_ready = @ \ {READ}],
                            {"service_write", "client_read"})
         IN RelayInv(t) /\ SameConnection(t, s) /\ t.state = s.state
<1> DEFINE t == event_add([s EXCEPT !.service_ready = @ \ {WRITE},
                                    !.client_ready = @ \ {READ}],
                          {"service_write", "client_read"})
<1>1. s \in ConnectionState
  BY DEF RelayInv
<1>2. /\ s.service_ready \ {WRITE} \in SUBSET {READ, WRITE}
      /\ s.client_ready \ {READ} \in SUBSET {READ, WRITE}
      /\ s.added \cup {"service_write", "client_read"} \in SUBSET Events
  BY <1>1 DEF ConnectionState, Events, IOEvents
<1>3. t = [s EXCEPT !.service_ready = @ \ {WRITE}, !.client_ready = @ \ {READ},
                    !.added = @ \cup {"service_write", "client_read"}]
  BY <1>1 DEF event_add, ConnectionState
<1>4. t \in ConnectionState
  BY <1>1, <1>2, <1>3, Zenon DEF ConnectionState
<1>5. SameConnection(t, s) /\ t.state = s.state
      /\ t.added = s.added \cup {"service_write", "client_read"}
      /\ t.service_ready = s.service_ready \ {WRITE}
      /\ t.client_ready = s.client_ready \ {READ}
  BY <1>1, <1>3, <1>4 DEF ConnectionState, SameConnection
<1> HIDE DEF t
<1>6. RelayInv(t)
  BY <1>5 DEF RelayInv, EventsMatch, SameConnection, READ, WRITE
<1> QED
  BY <1>5, <1>6 DEF t

\* The same for the downward direction.
LEMMA RearmDown ==
  ASSUME NEW s, RelayInv(s), READ \in s.service_ready, WRITE \in s.client_ready
  PROVE  LET t == event_add([s EXCEPT !.service_ready = @ \ {READ},
                                      !.client_ready = @ \ {WRITE}],
                            {"service_read", "client_write"})
         IN RelayInv(t) /\ SameConnection(t, s) /\ t.state = s.state
<1> DEFINE t == event_add([s EXCEPT !.service_ready = @ \ {READ},
                                    !.client_ready = @ \ {WRITE}],
                          {"service_read", "client_write"})
<1>1. s \in ConnectionState
  BY DEF RelayInv
<1>2. /\ s.service_ready \ {READ} \in SUBSET {READ, WRITE}
      /\ s.client_ready \ {WRITE} \in SUBSET {READ, WRITE}
      /\ s.added \cup {"service_read", "client_write"} \in SUBSET Events
  BY <1>1 DEF ConnectionState, Events, IOEvents
<1>3. t = [s EXCEPT !.service_ready = @ \ {READ}, !.client_ready = @ \ {WRITE},
                    !.added = @ \cup {"service_read", "client_write"}]
  BY <1>1 DEF event_add, ConnectionState
<1>4. t \in ConnectionState
  BY <1>1, <1>2, <1>3, Zenon DEF ConnectionState
<1>5. SameConnection(t, s) /\ t.state = s.state
      /\ t.added = s.added \cup {"service_read", "client_write"}
      /\ t.service_ready = s.service_ready \ {READ}
      /\ t.client_ready = s.client_ready \ {WRITE}
  BY <1>1, <1>3, <1>4 DEF ConnectionState, SameConnection
<1> HIDE DEF t
<1>6. RelayInv(t)
  BY <1>5 DEF RelayInv, EventsMatch, SameConnection, READ, WRITE
<1> QED
  BY <1>5, <1>6 DEF t

\* A relay step runs only after the Bro socket is gone.
Relaying(c, s) ==
  RelayInv(s) /\ StageInv(s) /\ Owns(c, s) /\ s.state # 0

\* A record that differs in events, flags and a non-zero state only is still
\* between handlers, provided the Bro socket is closed.
LEMMA SameConnectionStage ==
  ASSUME NEW s, NEW t, StageInv(s), SameConnection(t, s),
         t.state # 0, t.state = s.state \/ ~s.telex_conn
  PROVE  StageInv(t)
BY DEF StageInv, SameConnection

\* Forwarding from the client to the service keeps or ends the connection.
LEMMA ForwardUpEndsOrKeeps ==
  ASSUME NEW c \in Conns, NEW s,
         unblocks \in Seq(Flows \cup {ZeroFlow}),
         Relaying(c, s), ForwardUp(c, s)
  PROVE  Ended(c) \/ Kept(c)
<1>1. CASE ~(WRITE \in s.service_ready /\ READ \in s.client_ready)
  <2>1. Commit(c, s)
    BY <1>1 DEF ForwardUp
  <2> QED
    BY <2>1 DEF Commit, Kept, Relaying, RelayInv
<1>2. CASE WRITE \in s.service_ready /\ READ \in s.client_ready
  <2> DEFINE l == [s EXCEPT !.state = 3]
             again(t) == event_add([t EXCEPT !.service_ready = @ \ {WRITE},
                                             !.client_ready = @ \ {READ}],
                                   {"service_write", "client_read"})
  <2>1. s \in ConnectionState /\ RelayInv(s) /\ StageInv(s) /\ Owns(c, s)
        /\ ~s.in_use /\ s.state # 0
    BY DEF Relaying, RelayInv, StageInv
  <2>2. ~s.telex_conn
    BY <1>2, <2>1 DEF RelayInv, StageInv
  <2>3. SameConnection(l, s) /\ l.state = 3 /\ l.added = s.added
        /\ l.client_ready = s.client_ready /\ l.service_ready = s.service_ready
    <3>1. l \in ConnectionState
      BY <2>1, StateRange, Zenon DEF ConnectionState
    <3> QED
      BY <2>1, <3>1, ZenonT(40) DEF SameConnection, ConnectionState
  <2> HIDE DEF l
  <2>4. RelayInv(l) /\ Owns(c, l) /\ ~l.in_use
    <3>1. RelayInv(l)
      BY <2>1, <2>3 DEF RelayInv, EventsMatch, SameConnection
    <3>2. Owns(c, l) /\ ~l.in_use
      BY <2>1, <2>3, SMTT(30) DEF Owns, SameConnection
    <3> QED
      BY <3>1, <3>2
  <2>5. RelayInv(again(l)) /\ SameConnection(again(l), l) /\ again(l).state = 3
    BY <1>2, <2>3, <2>4, RearmUp, ZenonT(40)
  <2>6. RelayInv(again(s)) /\ SameConnection(again(s), s)
        /\ again(s).state = s.state
    BY <1>2, <2>1, RearmUp
  <2>7. \/ Commit(c, again(l))
        \/ Commit(c, again(s))
        \/ cleanup_connection(c, l)
        \/ cleanup_connection(c, s)
        \/ cleanup_connection_after_ssl(c, s, TRUE)
    BY <1>2 DEF ForwardUp, forward_client_to_service, l
  <2> HIDE DEF again
  <2>8. CASE Commit(c, again(l))
    <3>1. SameConnection(again(l), s)
      BY <2>3, <2>5 DEF SameConnection
    <3>2. StageInv(again(l))
      BY <2>1, <2>2, <2>5, <3>1, SameConnectionStage
    <3> QED
      BY <2>5, <2>8, <3>2 DEF Commit, Kept, SameConnection
  <2>9. CASE Commit(c, again(s))
    <3>1. StageInv(again(s))
      BY <2>1, <2>6, SameConnectionStage
    <3> QED
      BY <2>6, <2>9, <3>1 DEF Commit, Kept, SameConnection
  <2>10. CASE cleanup_connection(c, l)
    BY <2>4, <2>10, CleanupEndsOrKeeps
  <2>11. CASE cleanup_connection(c, s)
    BY <2>1, <2>11, CleanupEndsOrKeeps
  <2>12. CASE cleanup_connection_after_ssl(c, s, TRUE)
    BY <2>1, <2>12, AfterSSLEnds
  <2> QED
    BY <2>7, <2>8, <2>9, <2>10, <2>11, <2>12
<1> QED
  BY <1>1, <1>2

\* So does a relay callback as a whole: both directions, then the watchdog.
LEMMA RelayEndsOrKeeps ==
  ASSUME NEW c \in Conns, NEW s,
         unblocks \in Seq(Flows \cup {ZeroFlow}),
         Relaying(c, s), Relay(c, s)
  PROVE  Ended(c) \/ Kept(c)
<1> DEFINE p == pet_watchdog(s)
           d == event_add([p EXCEPT !.service_ready = @ \ {READ},
                                    !.client_ready = @ \ {WRITE}],
                          {"service_read", "client_write"})
<1>1. try_to_forward(c, p)
  BY DEF Relay
<1>2. /\ RelayInv(p) /\ SameConnection(p, s) /\ p.state = s.state
  BY PetKeepsRelay DEF Relaying
<1> HIDE DEF p
<1>3. StageInv(p) /\ Owns(c, p) /\ ~p.in_use
  BY <1>2, SameConnectionStage DEF Relaying, Owns, SameConnection, StageInv
<1>4. Relaying(c, p)
  BY <1>2, <1>3 DEF Relaying
<1>5. CASE ~(READ \in p.service_ready /\ WRITE \in p.client_ready)
  <2>1. ForwardUp(c, p)
    BY <1>1, <1>5 DEF try_to_forward
  <2> QED
    BY <1>4, <2>1, ForwardUpEndsOrKeeps
<1>6. CASE READ \in p.service_ready /\ WRITE \in p.client_ready
  <2>1. ForwardUp(c, d) \/ cleanup_connection(c, p)
    BY <1>1, <1>6, SMTT(30) DEF try_to_forward
  <2>2. RelayInv(d) /\ SameConnection(d, p) /\ d.state = p.state
    BY <1>2, <1>6, RearmDown
  <2> HIDE DEF d
  <2>3. StageInv(d) /\ Owns(c, d) /\ d.state # 0
    BY <1>3, <1>4, <2>2, SameConnectionStage DEF Relaying, Owns, SameConnection
  <2>4. CASE ForwardUp(c, d)
    BY <2>2, <2>3, <2>4, ForwardUpEndsOrKeeps DEF Relaying
  <2>5. CASE cleanup_connection(c, p)
    BY <1>2, <1>3, <2>5, CleanupEndsOrKeeps
  <2> QED
    BY <2>1, <2>4, <2>5
<1> QED
  BY <1>5, <1>6

-----------------------------------------------------------------------------
(* The socket callbacks and the watchdog *)

\* What a callback finds when it runs on a live connection.
LEMMA LiveRecord ==
  ASSUME IInv, NEW c \in Conns, Live(c)
  PROVE  /\ st[c] \in ConnectionState
         /\ RelayInv(st[c]) /\ StageInv(st[c]) /\ Owns(c, st[c])
         /\ ~st[c].in_use
         /\ unblocks \in Seq(Flows \cup {ZeroFlow})
<1>1. RelayInv(st[c]) /\ StageInv(st[c])
  BY DEF IInv, RecordInv, Live
<1>2. st[c] \in ConnectionState /\ ~st[c].in_use
  BY <1>1 DEF RelayInv, StageInv
<1>3. Owns(c, st[c])
  BY <1>1, <1>2 DEF StageInv, Owns, ConnectionState
<1> QED
  BY <1>1, <1>2, <1>3 DEF IInv, TypeOK

\* A socket event that fires is unregistered and its flag set: one of the four
\* flags changes with its event.
LEMMA MarkReady ==
  ASSUME NEW s, NEW t, NEW e \in IOEvents, RelayInv(s), SameConnection(t, s),
         e \in s.added, t.added = s.added \ {e},
         t.client_ready =
           s.client_ready \cup (IF e = "client_read" THEN {READ} ELSE
                                IF e = "client_write" THEN {WRITE} ELSE {}),
         t.service_ready =
           s.service_ready \cup (IF e = "service_read" THEN {READ} ELSE
                                 IF e = "service_write" THEN {WRITE} ELSE {})
  PROVE  RelayInv(t)
BY DEF RelayInv, EventsMatch, SameConnection, IOEvents, READ, WRITE

\* A connection with a registered socket event has left state 0.
LEMMA SocketEventStage ==
  ASSUME NEW s, RelayInv(s), StageInv(s), NEW e \in IOEvents, e \in s.added
  PROVE  s.state # 0
BY DEF RelayInv, StageInv, EventsMatch, IOEvents

\* The client socket became readable.
LEMMA ClientReadMarks ==
  ASSUME IInv, NEW c \in Conns, Live(c), "client_read" \in st[c].added
  PROVE  LET s == event_del([st[c] EXCEPT !.client_ready = @ \cup {READ}],
                            {"client_read"})
         IN Relaying(c, s)
<1> DEFINE s == event_del([st[c] EXCEPT !.client_ready = @ \cup {READ}],
                          {"client_read"})
<1>1. /\ st[c] \in ConnectionState
      /\ RelayInv(st[c]) /\ StageInv(st[c]) /\ Owns(c, st[c])
  BY LiveRecord
<1>2. "client_read" \in IOEvents
  BY DEF IOEvents
<1>3. /\ st[c].client_ready \cup {READ} \in SUBSET {READ, WRITE}
      /\ st[c].added \ {"client_read"} \in SUBSET Events
  BY <1>1 DEF ConnectionState
<1>4. s = [st[c] EXCEPT !.client_ready = @ \cup {READ}, !.added = @ \ {"client_read"}]
  BY <1>1 DEF event_del, ConnectionState
<1>5. s \in ConnectionState
  BY <1>1, <1>3, <1>4, Zenon DEF ConnectionState
<1>6. SameConnection(s, st[c]) /\ s.state = st[c].state
      /\ s.added = st[c].added \ {"client_read"}
      /\ s.client_ready = st[c].client_ready \cup {READ}
      /\ s.service_ready = st[c].service_ready
  BY <1>1, <1>4, <1>5 DEF ConnectionState, SameConnection
<1> HIDE DEF s
<1>7. RelayInv(s)
  BY <1>1, <1>2, <1>6, MarkReady
<1>8. s.state # 0
  BY <1>1, <1>2, <1>6, SocketEventStage
<1>9. StageInv(s) /\ Owns(c, s)
  BY <1>1, <1>6, <1>8, SameConnectionStage DEF Owns, SameConnection
<1> QED
  BY <1>7, <1>8, <1>9 DEF Relaying, s

\* The client socket became writable.
LEMMA ClientWriteMarks ==
  ASSUME IInv, NEW c \in Conns, Live(c), "client_write" \in st[c].added
  PROVE  LET s == event_del([st[c] EXCEPT !.client_ready = @ \cup {WRITE}],
                            {"client_write"})
         IN Relaying(c, s)
<1> DEFINE s == event_del([st[c] EXCEPT !.client_ready = @ \cup {WRITE}],
                          {"client_write"})
<1>1. /\ st[c] \in ConnectionState
      /\ RelayInv(st[c]) /\ StageInv(st[c]) /\ Owns(c, st[c])
  BY LiveRecord
<1>2. "client_write" \in IOEvents
  BY DEF IOEvents
<1>3. /\ st[c].client_ready \cup {WRITE} \in SUBSET {READ, WRITE}
      /\ st[c].added \ {"client_write"} \in SUBSET Events
  BY <1>1 DEF ConnectionState
<1>4. s = [st[c] EXCEPT !.client_ready = @ \cup {WRITE}, !.added = @ \ {"client_write"}]
  BY <1>1 DEF event_del, ConnectionState
<1>5. s \in ConnectionState
  BY <1>1, <1>3, <1>4, Zenon DEF ConnectionState
<1>6. SameConnection(s, st[c]) /\ s.state = st[c].state
      /\ s.added = st[c].added \ {"client_write"}
      /\ s.client_ready = st[c].client_ready \cup {WRITE}
      /\ s.service_ready = st[c].service_ready
  BY <1>1, <1>4, <1>5 DEF ConnectionState, SameConnection
<1> HIDE DEF s
<1>7. RelayInv(s)
  BY <1>1, <1>2, <1>6, MarkReady
<1>8. s.state # 0
  BY <1>1, <1>2, <1>6, SocketEventStage
<1>9. StageInv(s) /\ Owns(c, s)
  BY <1>1, <1>6, <1>8, SameConnectionStage DEF Owns, SameConnection
<1> QED
  BY <1>7, <1>8, <1>9 DEF Relaying, s

\* The service socket became readable.
LEMMA ServiceReadMarks ==
  ASSUME IInv, NEW c \in Conns, Live(c), "service_read" \in st[c].added
  PROVE  LET s == event_del([st[c] EXCEPT !.service_ready = @ \cup {READ}],
                            {"service_read"})
         IN Relaying(c, s)
<1> DEFINE s == event_del([st[c] EXCEPT !.service_ready = @ \cup {READ}],
                          {"service_read"})
<1>1. /\ st[c] \in ConnectionState
      /\ RelayInv(st[c]) /\ StageInv(st[c]) /\ Owns(c, st[c])
  BY LiveRecord
<1>2. "service_read" \in IOEvents
  BY DEF IOEvents
<1>3. /\ st[c].service_ready \cup {READ} \in SUBSET {READ, WRITE}
      /\ st[c].added \ {"service_read"} \in SUBSET Events
  BY <1>1 DEF ConnectionState
<1>4. s = [st[c] EXCEPT !.service_ready = @ \cup {READ}, !.added = @ \ {"service_read"}]
  BY <1>1 DEF event_del, ConnectionState
<1>5. s \in ConnectionState
  BY <1>1, <1>3, <1>4, Zenon DEF ConnectionState
<1>6. SameConnection(s, st[c]) /\ s.state = st[c].state
      /\ s.added = st[c].added \ {"service_read"}
      /\ s.service_ready = st[c].service_ready \cup {READ}
      /\ s.client_ready = st[c].client_ready
  BY <1>1, <1>4, <1>5 DEF ConnectionState, SameConnection
<1> HIDE DEF s
<1>7. RelayInv(s)
  BY <1>1, <1>2, <1>6, MarkReady
<1>8. s.state # 0
  BY <1>1, <1>2, <1>6, SocketEventStage
<1>9. StageInv(s) /\ Owns(c, s)
  BY <1>1, <1>6, <1>8, SameConnectionStage DEF Owns, SameConnection
<1> QED
  BY <1>7, <1>8, <1>9 DEF Relaying, s

\* The service socket became writable.
LEMMA ServiceWriteMarks ==
  ASSUME IInv, NEW c \in Conns, Live(c), "service_write" \in st[c].added
  PROVE  LET s == event_del([st[c] EXCEPT !.service_ready = @ \cup {WRITE}],
                            {"service_write"})
         IN Relaying(c, s)
<1> DEFINE s == event_del([st[c] EXCEPT !.service_ready = @ \cup {WRITE}],
                          {"service_write"})
<1>1. /\ st[c] \in ConnectionState
      /\ RelayInv(st[c]) /\ StageInv(st[c]) /\ Owns(c, st[c])
  BY LiveRecord
<1>2. "service_write" \in IOEvents
  BY DEF IOEvents
<1>3. /\ st[c].service_ready \cup {WRITE} \in SUBSET {READ, WRITE}
      /\ st[c].added \ {"service_write"} \in SUBSET Events
  BY <1>1 DEF ConnectionState
<1>4. s = [st[c] EXCEPT !.service_ready = @ \cup {WRITE}, !.added = @ \ {"service_write"}]
  BY <1>1 DEF event_del, ConnectionState
<1>5. s \in ConnectionState
  BY <1>1, <1>3, <1>4, Zenon DEF ConnectionState
<1>6. SameConnection(s, st[c]) /\ s.state = st[c].state
      /\ s.added = st[c].added \ {"service_write"}
      /\ s.service_ready = st[c].service_ready \cup {WRITE}
      /\ s.client_ready = st[c].client_ready
  BY <1>1, <1>4, <1>5 DEF ConnectionState, SameConnection
<1> HIDE DEF s
<1>7. RelayInv(s)
  BY <1>1, <1>2, <1>6, MarkReady
<1>8. s.state # 0
  BY <1>1, <1>2, <1>6, SocketEventStage
<1>9. StageInv(s) /\ Owns(c, s)
  BY <1>1, <1>6, <1>8, SameConnectionStage DEF Owns, SameConnection
<1> QED
  BY <1>7, <1>8, <1>9 DEF Relaying, s

\* The four relay callbacks of on_read_ready and on_write_ready.
LEMMA RelayCallbacks ==
  ASSUME IInv, NEW c \in Conns,
         \/ on_read_ready_client(c) \/ on_read_ready_service(c)
         \/ on_write_ready_client(c) \/ on_write_ready_service(c)
  PROVE  Live(c) /\ st[c].state # 0 /\ (Ended(c) \/ Kept(c))
<1>0. Live(c)
  BY DEF on_read_ready_client, on_read_ready_service, on_write_ready_client,
         on_write_ready_service
<1> USE <1>0
<1>1. /\ st[c] \in ConnectionState
      /\ RelayInv(st[c]) /\ StageInv(st[c]) /\ Owns(c, st[c])
      /\ ~st[c].in_use /\ unblocks \in Seq(Flows \cup {ZeroFlow})
  BY LiveRecord
<1>2. st[c].state # 0
  <2>1. PICK e \in IOEvents : e \in st[c].added
    BY DEF on_read_ready_client, on_read_ready_service, on_write_ready_client,
           on_write_ready_service, IOEvents
  <2> QED
    BY <1>1, <2>1, SocketEventStage
<1>3. ASSUME "client_read" \in st[c].added \/ "client_write" \in st[c].added
      PROVE  ~st[c].telex_conn
  BY <1>1, <1>3 DEF RelayInv, StageInv, EventsMatch
<1>4. CASE on_read_ready_client(c)
  <2> DEFINE s == event_del([st[c] EXCEPT !.client_ready = @ \cup {READ}],
                            {"client_read"})
  <2>1. Relaying(c, s)
    BY <1>4, ClientReadMarks DEF on_read_ready_client
  <2>2. s.telex_conn = st[c].telex_conn
    BY <1>1 DEF event_del, ConnectionState
  <2>3. cleanup_connection_ssl_try_shutdown(c, s) \/ Relay(c, s)
    BY <1>4 DEF on_read_ready_client
  <2> HIDE DEF s
  <2>4. RelayInv(s) /\ Owns(c, s) /\ ~s.in_use /\ ~s.telex_conn
    BY <1>3, <1>4, <2>1, <2>2 DEF Relaying, StageInv, on_read_ready_client
  <2> QED
    BY <1>1, <1>2, <2>1, <2>3, <2>4, TryShutdownEndsOrKeeps, RelayEndsOrKeeps
<1>5. CASE on_read_ready_service(c)
  <2> DEFINE s == event_del([st[c] EXCEPT !.service_ready = @ \cup {READ}],
                            {"service_read"})
  <2>1. Relaying(c, s) /\ Relay(c, s)
    BY <1>5, ServiceReadMarks DEF on_read_ready_service
  <2> QED
    BY <1>1, <1>2, <2>1, RelayEndsOrKeeps
<1>6. CASE on_write_ready_client(c)
  <2> DEFINE s == event_del([st[c] EXCEPT !.client_ready = @ \cup {WRITE}],
                            {"client_write"})
  <2>1. Relaying(c, s)
    BY <1>6, ClientWriteMarks DEF on_write_ready_client
  <2>2. cleanup_connection_ssl_try_shutdown(c, st[c]) \/ Relay(c, s)
    BY <1>6 DEF on_write_ready_client
  <2>3. ~st[c].telex_conn
    BY <1>3, <1>6 DEF on_write_ready_client
  <2> HIDE DEF s
  <2> QED
    BY <1>1, <1>2, <2>1, <2>2, <2>3, TryShutdownEndsOrKeeps, RelayEndsOrKeeps
<1>7. CASE on_write_ready_service(c)
  <2> DEFINE s == event_del([st[c] EXCEPT !.service_ready = @ \cup {WRITE}],
                            {"service_write"})
  <2>1. Relaying(c, s) /\ Relay(c, s)
    BY <1>7, ServiceWriteMarks DEF on_write_ready_service
  <2> QED
    BY <1>1, <1>2, <2>1, RelayEndsOrKeeps
<1> QED
  BY <1>2, <1>4, <1>5, <1>6, <1>7

\* The connect to the service finished: the one-shot event is replaced by the
\* two persistent service events, or the connection is torn down.
LEMMA FinishConnectCallback ==
  ASSUME IInv, NEW c \in Conns, on_finish_connect(c)
  PROVE  Live(c) /\ st[c].state # 0 /\ (Ended(c) \/ Kept(c))
<1> DEFINE s == event_del([st[c] EXCEPT !.connecting = FALSE], {"service_write"})
           n == event_add(event_new([s EXCEPT !.service_ready = @ \ {READ}],
                                    {"service_read"}), {"service_write"})
<1>1. Live(c) /\ "service_write" \in st[c].added
  BY DEF on_finish_connect
<1>2. /\ st[c] \in ConnectionState
      /\ RelayInv(st[c]) /\ StageInv(st[c]) /\ Owns(c, st[c])
      /\ ~st[c].in_use /\ unblocks \in Seq(Flows \cup {ZeroFlow})
  BY <1>1, LiveRecord
<1>3. st[c].state # 0
  BY <1>1, <1>2, SocketEventStage DEF IOEvents
<1>4. /\ SameConnection(s, st[c]) /\ s.state = st[c].state
      /\ s.added = st[c].added \ {"service_write"}
      /\ s.client_ready = st[c].client_ready
      /\ s.service_ready = st[c].service_ready
  <2>1. st[c].added \ {"service_write"} \in SUBSET Events
    BY <1>2 DEF ConnectionState
  <2>2. s = [st[c] EXCEPT !.connecting = FALSE, !.added = @ \ {"service_write"}]
    BY <1>2 DEF event_del, ConnectionState
  <2>3. s \in ConnectionState
    BY <1>2, <2>1, <2>2, Zenon DEF ConnectionState
  <2> QED
    BY <1>2, <2>2, <2>3 DEF SameConnection, ConnectionState
<1>5. RelayInv(s) /\ Owns(c, s) /\ ~s.in_use
  <2> HIDE DEF s
  <2>1. RelayInv(s)
    BY <1>2, <1>4 DEF RelayInv, EventsMatch, SameConnection
  <2>2. Owns(c, s) /\ ~s.in_use
    BY <1>2, <1>4 DEF Owns, SameConnection
  <2> QED
    BY <2>1, <2>2
<1>6. cleanup_connection(c, s) \/ Commit(c, pet_watchdog(n))
  BY DEF on_finish_connect
<1> HIDE DEF s
<1>7. /\ n \in ConnectionState
      /\ n.alloc = s.alloc \cup {"service_read"}
      /\ n.added = s.added \cup {"service_read", "service_write"}
      /\ n.service_ready = s.service_ready \ {READ}
      /\ n.client_ready = s.client_ready /\ n.state = s.state
      /\ n.mem = s.mem /\ n.touched = s.touched /\ n.in_use = s.in_use
      /\ n.telex_conn = s.telex_conn /\ n.client_conn = s.client_conn
      /\ n.ssl = s.ssl /\ n.flow_state = s.flow_state
  <2>1. s \in ConnectionState
    BY <1>4 DEF SameConnection
  <2>2. /\ s.service_ready \ {READ} \in SUBSET {READ, WRITE}
        /\ s.alloc \cup {"service_read"} \in SUBSET Events
        /\ s.added \cup {"service_read", "service_write"} \in SUBSET Events
    BY <2>1 DEF ConnectionState, Events, IOEvents
  <2>3. n = [s EXCEPT !.service_ready = @ \ {READ},
                      !.alloc = @ \cup {"service_read"},
                      !.added = @ \cup {"service_read", "service_write"}]
    BY <2>1 DEF event_add, event_new, ConnectionState
  <2>4. n \in ConnectionState
    BY <2>1, <2>2, <2>3, Zenon DEF ConnectionState
  <2> QED
    BY <2>1, <2>3, <2>4 DEF ConnectionState
<1> HIDE DEF n
<1>8. RelayInv(n)
  BY <1>1, <1>2, <1>4, <1>5, <1>7, SMTT(30)
     DEF RelayInv, EventsMatch, SameConnection, READ, WRITE
<1>9. StageInv(n)
  BY <1>2, <1>3, <1>4, <1>7 DEF StageInv, SameConnection
<1>10. RelayInv(pet_watchdog(n)) /\ StageInv(pet_watchdog(n))
  BY <1>3, <1>4, <1>7, <1>8, <1>9, PetKeepsRelay, SameConnectionStage
<1>11. CASE cleanup_connection(c, s)
  BY <1>1, <1>2, <1>3, <1>5, <1>11, CleanupEndsOrKeeps
<1>12. CASE Commit(c, pet_watchdog(n))
  BY <1>1, <1>3, <1>10, <1>12 DEF Commit, Kept, RelayInv
<1> QED
  BY <1>6, <1>11, <1>12

\* The watchdog: the whole cleanup, or in state 0 the silent one.
LEMMA WatchdogCallback ==
  ASSUME IInv, NEW c \in Conns, on_watchdog(c)
  PROVE  Live(c) /\ (Ended(c) \/ (st[c].state # 0 /\ Kept(c)))
<1> DEFINE s == event_del(st[c], {"watchdog"})
<1>1. Live(c)
  BY DEF on_watchdog
<1>2. /\ st[c] \in ConnectionState
      /\ RelayInv(st[c]) /\ StageInv(st[c]) /\ Owns(c, st[c])
      /\ ~st[c].in_use /\ unblocks \in Seq(Flows \cup {ZeroFlow})
  BY <1>1, LiveRecord
<1>3. IF s.state >= 1 THEN cleanup_connection(c, s)
                      ELSE cleanup_connection_after_ssl(c, s, FALSE)
  BY DEF on_watchdog
<1>4. /\ SameConnection(s, st[c]) /\ s.state = st[c].state
      /\ s.added = st[c].added \ {"watchdog"}
      /\ s.client_ready = st[c].client_ready
      /\ s.service_ready = st[c].service_ready
  <2>1. st[c].added \ {"watchdog"} \in SUBSET Events
    BY <1>2 DEF ConnectionState
  <2>2. s \in ConnectionState
    BY <1>2, <2>1, Zenon DEF ConnectionState, event_del
  <2> QED
    BY <1>2, <2>2 DEF SameConnection, ConnectionState, event_del
<1> HIDE DEF s
<1>5. RelayInv(s)
  BY <1>2, <1>4 DEF RelayInv, EventsMatch, SameConnection
<1>6. Owns(c, s) /\ ~s.in_use
  BY <1>2, <1>4 DEF Owns, SameConnection
<1>7. CASE s.state >= 1
  <2>1. st[c].state # 0
    BY <1>4, <1>7
  <2>2. cleanup_connection(c, s)
    BY <1>3, <1>7
  <2>3. Ended(c) \/ Kept(c)
    BY <1>2, <1>5, <1>6, <2>2, CleanupEndsOrKeeps
  <2> QED
    BY <1>1, <2>1, <2>3
<1>8. CASE ~(s.state >= 1)
  <2>1. st[c].flow_state = ZeroFlow
    BY <1>2, <1>4, <1>8 DEF StageInv, ConnectionState
  <2> QED
    BY <1>1, <1>2, <1>3, <1>5, <1>6, <1>8, <2>1, AfterSSLEnds
<1> QED
  BY <1>7, <1>8

-----------------------------------------------------------------------------
(* Records from Bro *)

\* What on_telex_read finds when it runs.
LEMMA TelexReadRecord ==
  ASSUME IInv, NEW c \in Conns, Live(c), "telex_read" \in st[c].added
  PROVE  /\ st[c].telex_conn /\ ~st[c].client_conn /\ st[c].state \in {0, 1}
         /\ st[c].state = 1 => st[c].ssl = "LIVE"
BY LiveRecord DEF RelayInv, StageInv

\* End of file on the Bro socket.
LEMMA TelexEofEnds ==
  ASSUME IInv, NEW c \in Conns, Live(c), "telex_read" \in st[c].added,
         TelexEof(c)
  PROVE  Ended(c)
<1> DEFINE s == [st[c] EXCEPT !.ssl = "NULL"]
<1>1. /\ st[c] \in ConnectionState
      /\ RelayInv(st[c]) /\ StageInv(st[c]) /\ Owns(c, st[c])
      /\ ~st[c].in_use /\ unblocks \in Seq(Flows \cup {ZeroFlow})
  BY LiveRecord
<1>2. ~st[c].client_conn
  BY TelexReadRecord
<1>3. /\ s \in ConnectionState
      /\ s.state = st[c].state /\ s.added = st[c].added
      /\ s.client_ready = st[c].client_ready
      /\ s.service_ready = st[c].service_ready
      /\ s.mem = st[c].mem /\ s.touched = st[c].touched
      /\ s.in_use = st[c].in_use /\ s.telex_conn = st[c].telex_conn
      /\ s.client_conn = st[c].client_conn /\ s.alloc = st[c].alloc
      /\ s.flow_state = st[c].flow_state
  <2>1. s \in ConnectionState
    BY <1>1, Zenon DEF ConnectionState
  <2> QED
    BY <1>1, <2>1 DEF ConnectionState
<1>4. cleanup_connection_after_ssl(c, s, TRUE)
  BY DEF TelexEof
<1> HIDE DEF s
<1>5. RelayInv(s)
  BY <1>1, <1>2, <1>3 DEF RelayInv, EventsMatch
<1>6. Owns(c, s) /\ ~s.in_use
  BY <1>1, <1>3 DEF Owns
<1> QED
  BY <1>1, <1>4, <1>5, <1>6, AfterSSLEnds

\* The INIT record: it is read in state 0 and either sets the SSL object up or
\* tears the connection down.
LEMMA TelexInitEndsOrKeeps ==
  ASSUME IInv, NEW c \in Conns, Live(c), "telex_read" \in st[c].added,
         TelexInit(c), st[c].state = 0, Head(pipe[c]) \in Records
  PROVE  Ended(c) \/ Kept(c)
<1> DEFINE rec == Head(pipe[c])
           s == initialize_watchdog([st[c] EXCEPT !.state = 1])
<1>1. /\ st[c] \in ConnectionState
      /\ RelayInv(st[c]) /\ StageInv(st[c]) /\ Owns(c, st[c])
      /\ ~st[c].in_use /\ unblocks \in Seq(Flows \cup {ZeroFlow})
  BY LiveRecord
<1>2. /\ st[c].telex_conn /\ ~st[c].client_conn /\ st[c].ssl = "NULL"
      /\ st[c].alloc \subseteq {"telex_read", "watchdog"}
      /\ st[c].flow_state = ZeroFlow
  BY <1>1, TelexReadRecord DEF StageInv
<1>3. rec.flow \in Flows
  BY DEF Records
<1>4. /\ s \in ConnectionState
      /\ s.state = 1 /\ s.alloc = st[c].alloc \cup {"watchdog"}
      /\ s.added = st[c].added \cup {"watchdog"}
      /\ s.client_ready = st[c].client_ready
      /\ s.service_ready = st[c].service_ready
      /\ s.mem = st[c].mem /\ s.touched = st[c].touched
      /\ s.in_use = st[c].in_use /\ s.telex_conn = st[c].telex_conn
      /\ s.client_conn = st[c].client_conn /\ s.ssl = st[c].ssl
      /\ s.flow_state = st[c].flow_state
  <2>1. /\ st[c].alloc \cup {"watchdog"} \in SUBSET Events
        /\ st[c].added \cup {"watchdog"} \in SUBSET Events
        /\ rec.flow \in Flows \cup {ZeroFlow}
    BY <1>1, <1>3 DEF ConnectionState, Events
  <2> HIDE DEF rec
  <2>2. s = [st[c] EXCEPT !.state = 1,
                          !.alloc = @ \cup {"watchdog"},
                          !.added = @ \cup {"watchdog"}]
    BY <1>1 DEF initialize_watchdog, event_new, ConnectionState
  <2>3. s \in ConnectionState
    BY <1>1, <2>1, <2>2, StateRange, ZenonT(40) DEF ConnectionState
  <2> QED
    BY <1>1, <2>2, <2>3 DEF ConnectionState
<1>5. RelayInv(s)
  <2> HIDE DEF s
  <2> QED
    BY <1>1, <1>4 DEF RelayInv, EventsMatch
<1>6. CASE rec.type = "INIT_CUT"
  <2>1. cleanup_connection(c, st[c])
    BY <1>6 DEF TelexInit
  <2> QED
    BY <1>1, <2>1, CleanupEndsOrKeeps
<1>7. CASE rec.type = "INIT"
  <2>1. PICK r \in {"FAILED", "DONE", "PENDING"}, secret \in BOOLEAN :
          LET t == init_service_connection(s, r)
              u == [t EXCEPT !.flow_state = rec.flow]
          IN CASE r = "FAILED" -> cleanup_connection(c, t)
               [] r # "FAILED" /\ ~secret -> cleanup_connection(c, u)
               [] r # "FAILED" /\ secret ->
                  Commit(c, pet_watchdog([u EXCEPT !.ssl = "LIVE"]))
    <3>1. ~s.client_conn
      BY <1>2, <1>4
    <3> QED
      BY <1>7, <3>1 DEF TelexInit
  <2> DEFINE t == init_service_connection(s, r)
             u == [t EXCEPT !.flow_state = rec.flow]
             v == [u EXCEPT !.ssl = "LIVE"]
  <2>2. /\ t \in ConnectionState
        /\ t.state = 1 /\ t.client_ready = s.client_ready
        /\ t.service_ready = s.service_ready
        /\ t.mem = s.mem /\ t.touched = s.touched
        /\ t.in_use = s.in_use /\ t.telex_conn = s.telex_conn
        /\ t.client_conn = s.client_conn /\ t.ssl = s.ssl
        /\ \/ t.alloc = s.alloc /\ t.added = s.added
           \/ /\ t.alloc = s.alloc \cup {"service_write"}
              /\ t.added = s.added \cup {"service_write"}
    <3> HIDE DEF s
    <3>1. CASE r = "FAILED"
      <4>1. t = [s EXCEPT !.service_conn = FALSE]
        BY <3>1 DEF init_service_connection
      <4>2. t \in ConnectionState
        BY <1>4, <4>1, Zenon DEF ConnectionState
      <4> QED
        BY <1>4, <4>1, <4>2 DEF ConnectionState
    <3>2. CASE r = "DONE"
      <4>1. t = [s EXCEPT !.service_conn = TRUE, !.alloc = @ \ {"service_write"}]
        BY <3>2 DEF init_service_connection
      <4>2. s.alloc \ {"service_write"} = s.alloc
            /\ s.alloc \ {"service_write"} \in SUBSET Events
        BY <1>2, <1>4 DEF ConnectionState
      <4>3. t \in ConnectionState
        BY <1>4, <4>1, <4>2, ZenonT(40) DEF ConnectionState
      <4> QED
        BY <1>4, <4>1, <4>2, <4>3 DEF ConnectionState
    <3>3. CASE r = "PENDING"
      <4>1. t = [s EXCEPT !.service_conn = TRUE, !.connecting = TRUE,
                          !.alloc = @ \cup {"service_write"},
                          !.added = @ \cup {"service_write"}]
        BY <1>4, <3>3 DEF init_service_connection, event_new, ConnectionState
      <4>2. /\ s.alloc \cup {"service_write"} \in SUBSET Events
            /\ s.added \cup {"service_write"} \in SUBSET Events
        BY <1>4 DEF ConnectionState, Events, IOEvents
      <4>3. t \in ConnectionState
        BY <1>4, <4>1, <4>2, ZenonT(40) DEF ConnectionState
      <4> QED
        BY <1>4, <4>1, <4>3 DEF ConnectionState
    <3> QED
      BY <3>1, <3>2, <3>3
  <2>3. RelayInv(t) /\ Owns(c, t) /\ ~t.in_use
    <3> HIDE DEF s, t
    <3>1. WRITE \notin s.service_ready
      BY <1>1, <1>2, <1>4 DEF RelayInv
    <3>2. RelayInv(t)
      BY <1>5, <2>2, <3>1 DEF RelayInv, EventsMatch
    <3>3. Owns(c, t) /\ ~t.in_use
      BY <1>1, <1>2, <1>4, <2>2 DEF Owns
    <3> QED
      BY <3>2, <3>3
  <2>4. /\ u \in ConnectionState
        /\ u.state = 1 /\ u.client_ready = t.client_ready
        /\ u.service_ready = t.service_ready
        /\ u.mem = t.mem /\ u.touched = t.touched
        /\ u.in_use = t.in_use /\ u.telex_conn = t.telex_conn
        /\ u.client_conn = t.client_conn /\ u.ssl = t.ssl
        /\ u.alloc = t.alloc /\ u.added = t.added
    <3> HIDE DEF t
    <3>1. rec.flow \in Flows \cup {ZeroFlow}
      BY <1>3
    <3> HIDE DEF rec
    <3>2. u \in ConnectionState
      BY <2>2, <3>1, Zenon DEF ConnectionState
    <3> QED
      BY <2>2, <3>2 DEF ConnectionState
  <2>5. RelayInv(u) /\ Owns(c, u) /\ ~u.in_use
    <3> HIDE DEF t, u
    <3>1. RelayInv(u)
      BY <2>3, <2>4 DEF RelayInv, EventsMatch
    <3>2. Owns(c, u) /\ ~u.in_use
      BY <1>2, <2>3, <2>4 DEF Owns
    <3> QED
      BY <3>1, <3>2
  <2>6. RelayInv(v) /\ StageInv(v) /\ v.state = 1
    <3> HIDE DEF u
    <3>1. v \in ConnectionState
      BY <2>4, Zenon DEF ConnectionState
    <3>2. /\ v.state = 1 /\ v.client_ready = u.client_ready
          /\ v.service_ready = u.service_ready
          /\ v.mem = u.mem /\ v.touched = u.touched
          /\ v.in_use = u.in_use /\ v.telex_conn = u.telex_conn
          /\ v.client_conn = u.client_conn /\ v.ssl = "LIVE"
          /\ v.alloc = u.alloc /\ v.added = u.added
      BY <2>4 DEF ConnectionState
    <3> HIDE DEF v
    <3>3. RelayInv(v)
      BY <2>5, <3>1, <3>2, SMTT(30) DEF RelayInv, EventsMatch
    <3>4. ~v.client_conn
      <4> HIDE DEF s, t
      <4> QED
        BY <1>2, <1>4, <2>2, <2>4, <3>2
    <3>5. StageInv(v)
      BY <2>5, <3>2, <3>4 DEF StageInv
    <3> QED
      BY <3>2, <3>3, <3>5
  <2>7. cleanup_connection(c, t) \/ cleanup_connection(c, u)
        \/ Commit(c, pet_watchdog(v))
    BY <2>1
  <2> HIDE DEF t, u, v
  <2>8. CASE cleanup_connection(c, t)
    BY <1>1, <2>3, <2>8, CleanupEndsOrKeeps
  <2>9. CASE cleanup_connection(c, u)
    BY <1>1, <2>5, <2>9, CleanupEndsOrKeeps
  <2>10. CASE Commit(c, pet_watchdog(v))
    <3>1. RelayInv(pet_watchdog(v)) /\ StageInv(pet_watchdog(v))
      BY <2>6, PetKeepsRelay, SameConnectionStage
    <3> QED
      BY <2>10, <3>1 DEF Commit, Kept, RelayInv
  <2> QED
    BY <2>7, <2>8, <2>9, <2>10
<1> QED
  BY <1>6, <1>7 DEF TelexInit

\* The RAW_PKT record: the forged socket is set up, or the connection is torn
\* down; setup_fake_socket's caller never sees the record freed.
LEMMA TelexRawPktEndsOrKeeps ==
  ASSUME IInv, NEW c \in Conns, Live(c), "telex_read" \in st[c].added,
         TelexRawPkt(c)
  PROVE  Ended(c) \/ Kept(c)
<1> DEFINE s == [st[c] EXCEPT !.state = 2]
           n == event_new([s EXCEPT !.client_conn = TRUE],
                          {"client_read", "client_write"})
           f == [s EXCEPT !.in_use = TRUE]
<1>1. /\ st[c] \in ConnectionState
      /\ RelayInv(st[c]) /\ StageInv(st[c]) /\ Owns(c, st[c])
      /\ ~st[c].in_use /\ unblocks \in Seq(Flows \cup {ZeroFlow})
  BY LiveRecord
<1>2. ~st[c].client_conn /\ st[c].client_ready = {}
  BY <1>1, TelexReadRecord DEF RelayInv
<1>3. CASE st[c].state # 1
  <2>1. cleanup_connection(c, st[c])
    BY <1>3 DEF TelexRawPkt
  <2> QED
    BY <1>1, <2>1, CleanupEndsOrKeeps
<1>4. CASE st[c].state = 1
  <2>1. st[c].ssl = "LIVE"
    BY <1>4, TelexReadRecord
  <2>2. /\ s \in ConnectionState
        /\ s.state = 2 /\ s.alloc = st[c].alloc /\ s.added = st[c].added
        /\ s.client_ready = st[c].client_ready
        /\ s.service_ready = st[c].service_ready
        /\ s.mem = st[c].mem /\ s.touched = st[c].touched
        /\ s.in_use = st[c].in_use /\ s.telex_conn = st[c].telex_conn
        /\ s.client_conn = st[c].client_conn /\ s.ssl = st[c].ssl
        /\ s.flow_state = st[c].flow_state
    <3>1. s \in ConnectionState
      BY <1>1, StateRange, Zenon DEF ConnectionState
    <3> QED
      BY <1>1, <3>1 DEF ConnectionState
  <2>3. RelayInv(s) /\ Owns(c, s) /\ ~s.in_use
    <3> HIDE DEF s
    <3>1. RelayInv(s)
      BY <1>1, <2>2 DEF RelayInv, EventsMatch
    <3>2. Owns(c, s) /\ ~s.in_use
      BY <1>1, <2>2 DEF Owns
    <3> QED
      BY <3>1, <3>2, SMTT(30)
  <2>4. \/ cleanup_connection(c, s)
        \/ Commit(c, pet_watchdog(close_telex_connection(n)))
        \/ cleanup_connection(c, pet_watchdog(f))
    BY <1>4 DEF TelexRawPkt, setup_fake_socket
  <2> HIDE DEF s
  <2>5. CASE cleanup_connection(c, s)
    BY <1>1, <2>3, <2>5, CleanupEndsOrKeeps, SMTT(30)
  <2>6. CASE Commit(c, pet_watchdog(close_telex_connection(n)))
    <3> DEFINE t == close_telex_connection(n)
    <3>1. /\ n \in ConnectionState
          /\ n.state = 2 /\ n.client_conn = TRUE
          /\ n.alloc = s.alloc \cup {"client_read", "client_write"}
          /\ n.added = s.added \cup {"client_read", "client_write"}
          /\ n.client_ready = s.client_ready
          /\ n.service_ready = s.service_ready
          /\ n.mem = s.mem /\ n.touched = s.touched
          /\ n.in_use = s.in_use /\ n.telex_conn = s.telex_conn
          /\ n.ssl = s.ssl
      <4>1. /\ s.alloc \cup {"client_read", "client_write"} \in SUBSET Events
            /\ s.added \cup {"client_read", "client_write"} \in SUBSET Events
        BY <2>2 DEF ConnectionState, Events, IOEvents
      <4>2. n = [s EXCEPT !.client_conn = TRUE,
                          !.alloc = @ \cup {"client_read", "client_write"},
                          !.added = @ \cup {"client_read", "client_write"}]
        BY <2>2 DEF event_new, ConnectionState
      <4>3. n \in ConnectionState
        BY <2>2, <4>1, <4>2, ZenonT(40) DEF ConnectionState
      <4> QED
        BY <2>2, <4>2, <4>3, ZenonT(40) DEF ConnectionState
    <3> HIDE DEF n
    <3>2. RelayInv(n) /\ ~n.in_use
      BY <1>2, <2>1, <2>2, <2>3, <3>1 DEF RelayInv, EventsMatch
    <3>3. RelayInv(t) /\ ~t.telex_conn /\ t.state = 2 /\ ~t.in_use
      BY <3>1, <3>2, CloseTelexKeepsRelay
    <3> HIDE DEF t
    <3>4. StageInv(t)
      BY <3>3 DEF StageInv
    <3>5. RelayInv(pet_watchdog(t)) /\ StageInv(pet_watchdog(t))
      BY <3>3, <3>4, PetKeepsRelay, SameConnectionStage
    <3> QED
      BY <2>6, <3>5 DEF Commit, Kept, RelayInv, t
  <2>7. CASE cleanup_connection(c, pet_watchdog(f))
    <3>1. /\ f \in ConnectionState
          /\ f.state = 2 /\ f.client_conn = s.client_conn
          /\ f.alloc = s.alloc /\ f.added = s.added
          /\ f.client_ready = s.client_ready
          /\ f.service_ready = s.service_ready
          /\ f.mem = s.mem /\ f.touched = s.touched
          /\ f.telex_conn = s.telex_conn
          /\ f.ssl = s.ssl /\ f.flow_state = s.flow_state
      <4>1. f \in ConnectionState
        BY <2>2, Zenon DEF ConnectionState
      <4> QED
        BY <2>2, <4>1 DEF ConnectionState
    <3> HIDE DEF f
    <3>2. RelayInv(f)
      BY <2>3, <3>1 DEF RelayInv, EventsMatch
    <3>3. RelayInv(pet_watchdog(f)) /\ SameConnection(pet_watchdog(f), f)
          /\ pet_watchdog(f).state = f.state
      BY <3>2, PetKeepsRelay
    <3>4. pet_watchdog(f).ssl = "LIVE" /\ ~pet_watchdog(f).client_conn
      BY <1>2, <2>1, <2>2, <3>1, <3>3 DEF SameConnection
    <3>5. Owns(c, pet_watchdog(f))
      BY <2>2, <2>3, <3>1, <3>3 DEF Owns, SameConnection
    <3> QED
      BY <1>1, <2>7, <3>3, <3>4, <3>5, CleanupEndsOrKeeps
  <2> QED
    BY <2>4, <2>5, <2>6, <2>7
<1> QED
  BY <1>3, <1>4

\* The records that are still to be read: their shape before and after one is
\* taken off.
LEMMA TelexPipe ==
  ASSUME IInv, NEW c \in Conns, Live(c), pipe[c] # << >>
  PROVE  /\ bro[c] \notin {"IDLE", "OPEN"}
         /\ Head(pipe[c]) \in Records
         /\ Head(pipe[c]).type \in {"INIT", "INIT_CUT"} => st[c].state = 0
         /\ Tail(pipe[c]) \in Seq(Records)
         /\ \A i \in DOMAIN Tail(pipe[c]) :
              Tail(pipe[c])[i].type \notin {"INIT", "INIT_CUT"}
<1>1. pipe[c] \in Seq(Records) /\ PipeInv(c) /\ st[c].mem # "FREED"
  BY DEF IInv, TypeOK, Live
<1>2. bro[c] \notin {"IDLE", "OPEN"}
  BY <1>1 DEF PipeInv
<1>3. Head(pipe[c]) = pipe[c][1] /\ 1 \in DOMAIN pipe[c]
  BY <1>1
<1>4. Head(pipe[c]) \in Records /\ Tail(pipe[c]) \in Seq(Records)
  BY <1>1
<1>5. Head(pipe[c]).type \in {"INIT", "INIT_CUT"} => st[c].state = 0
  BY <1>1, <1>3 DEF PipeInv
<1>6. ASSUME NEW i \in DOMAIN Tail(pipe[c])
      PROVE  Tail(pipe[c])[i].type \notin {"INIT", "INIT_CUT"}
  <2>1. /\ i \in Nat \ {0} /\ i + 1 \in DOMAIN pipe[c]
        /\ Tail(pipe[c])[i] = pipe[c][i + 1]
    BY <1>1
  <2> QED
    BY <1>1, <2>1 DEF PipeInv
<1> QED
  BY <1>2, <1>4, <1>5, <1>6

-----------------------------------------------------------------------------
(* Every callback as one kind of step *)

\* A callback on a live connection c: it takes at most one record off c's
\* socket, and keeps or ends c.  A kept connection was past state 0, or a
\* record was read.
Callback(c) ==
  /\ Live(c)
  /\ UNCHANGED bro
  /\ \/ /\ UNCHANGED pipe
        /\ Ended(c) \/ (st[c].state # 0 /\ Kept(c))
     \/ /\ pipe[c] # << >>
        /\ pipe' = [pipe EXCEPT ![c] = Tail(@)]
        /\ Ended(c) \/ Kept(c)

\* Every libevent callback of bronnect but the accept is such a step.
LEMMA CallbackStep ==
  ASSUME IInv, NEW c \in Conns,
         Bronnect(c), ~handle_bro_connection(c)
  PROVE  Callback(c)
<1>1. CASE on_telex_read(c)
  <2>1. Live(c) /\ "telex_read" \in st[c].added /\ UNCHANGED bro
    BY <1>1 DEF on_telex_read
  <2>2. CASE TelexEof(c)
    BY <2>1, <2>2, TelexEofEnds DEF Callback, TelexEof
  <2>3. CASE TelexInit(c)
    <3>1. pipe[c] # << >> /\ Head(pipe[c]).type \in {"INIT", "INIT_CUT"}
          /\ pipe' = [pipe EXCEPT ![c] = Tail(@)]
      BY <2>3 DEF TelexInit
    <3>2. st[c].state = 0 /\ Head(pipe[c]) \in Records
      BY <2>1, <3>1, TelexPipe
    <3>3. Ended(c) \/ Kept(c)
      BY <2>1, <2>3, <3>2, TelexInitEndsOrKeeps
    <3> QED
      BY <2>1, <3>1, <3>3 DEF Callback
  <2>4. CASE TelexRawPkt(c)
    <3>1. pipe[c] # << >> /\ pipe' = [pipe EXCEPT ![c] = Tail(@)]
      BY <2>4 DEF TelexRawPkt
    <3>2. Ended(c) \/ Kept(c)
      BY <2>1, <2>4, TelexRawPktEndsOrKeeps
    <3> QED
      BY <2>1, <3>1, <3>2 DEF Callback
  <2> QED
    BY <1>1, <2>2, <2>3, <2>4 DEF on_telex_read
<1>2. CASE \/ on_read_ready_client(c) \/ on_read_ready_service(c)
           \/ on_write_ready_client(c) \/ on_write_ready_service(c)
  <2>1. UNCHANGED <<bro, pipe>>
    BY <1>2 DEF on_read_ready_client, on_read_ready_service,
                on_write_ready_client, on_write_ready_service
  <2> QED
    BY <1>2, <2>1, RelayCallbacks DEF Callback
<1>3. CASE on_finish_connect(c)
  BY <1>3, FinishConnectCallback DEF Callback, on_finish_connect
<1>4. CASE on_watchdog(c)
  BY <1>4, WatchdogCallback DEF Callback, on_watchdog
<1> QED
  BY <1>1, <1>2, <1>3, <1>4 DEF Bronnect

\* Such a step preserves the invariant.
LEMMA CallbackPreserves ==
  ASSUME IInv, NEW c \in Conns, Callback(c)
  PROVE  IInv'
<1>1. Live(c) /\ UNCHANGED bro /\ (Ended(c) \/ Kept(c))
  BY DEF Callback
<1>2. /\ TypeOK /\ connections = {d \in Conns : Live(d)}
      /\ active = Cardinality(connections) /\ c \in connections
      /\ IsFiniteSet(connections)
  <2>1. TypeOK /\ ConnectionsCounted
    BY DEF IInv
  <2>2. IsFiniteSet(connections)
    BY <2>1, BronnectAssumption, FS_Subset DEF TypeOK
  <2> QED
    BY <1>1, <2>1, <2>2 DEF ConnectionsCounted
<1>3. PICK r \in ConnectionState :
        /\ st' = [st EXCEPT ![c] = r]
        /\ \/ /\ r.mem = "LIVE" /\ RelayInv(r) /\ StageInv(r)
              /\ UNCHANGED <<connections, active, unblocks>>
           \/ /\ r.mem = "FREED" /\ FreedInv(r)
              /\ connections' = connections \ {c} /\ active' = active - 1
              /\ unblocks' \in Seq(Flows \cup {ZeroFlow})
  BY <1>1 DEF Ended, Kept, RelayInv
<1>4. /\ st'[c] = r /\ \A d \in Conns \ {c} : st'[d] = st[d]
      /\ st' \in [Conns -> ConnectionState]
  BY <1>2, <1>3 DEF TypeOK
<1>5. ConnectionsCounted' /\ active' \in Nat /\ connections' \subseteq Conns
  <2>1. CASE r.mem = "LIVE"
    <3>1. connections' = connections /\ active' = active
      BY <1>3, <2>1
    <3>2. connections = {d \in Conns : st'[d].mem = "LIVE"}
      BY <1>1, <1>2, <1>4, <2>1 DEF Live
    <3> QED
      BY <1>2, <3>1, <3>2 DEF ConnectionsCounted, Live, TypeOK
  <2>2. CASE r.mem = "FREED"
    <3>1. connections' = connections \ {c} /\ active' = active - 1
      BY <1>3, <2>2
    <3>2. connections \ {c} = {d \in Conns : st'[d].mem = "LIVE"}
      BY <1>2, <1>4, <2>2 DEF Live
    <3>3. /\ Cardinality(connections \ {c}) = Cardinality(connections) - 1
          /\ Cardinality(connections \ {c}) \in Nat
      BY <1>2, FS_RemoveElement, FS_CardinalityType
    <3> QED
      BY <1>2, <3>1, <3>2, <3>3 DEF ConnectionsCounted, Live, TypeOK
  <2> QED
    BY <1>3, <2>1, <2>2
<1>6. pipe' \in [Conns -> Seq(Records)]
  BY <1>1, <1>2, TelexPipe DEF Callback, TypeOK
<1>7. TypeOK'
  BY <1>1, <1>2, <1>3, <1>4, <1>5, <1>6 DEF TypeOK
<1>8. ASSUME NEW d \in Conns PROVE RecordInv(st[d])'
  <2>1. CASE d = c
    BY <1>3, <1>4, <2>1 DEF RecordInv
  <2>2. CASE d # c
    BY <1>4, <2>2 DEF RecordInv, IInv
  <2> QED
    BY <2>1, <2>2
<1>9. ASSUME NEW d \in Conns PROVE PipeInv(d)'
  <2>1. CASE d # c
    <3>1. pipe'[d] = pipe[d] /\ bro'[d] = bro[d] /\ st'[d] = st[d]
      BY <1>1, <1>2, <1>4, <2>1 DEF Callback, TypeOK
    <3>2. PipeInv(d)
      BY DEF IInv
    <3> QED
      BY <3>1, <3>2 DEF PipeInv
  <2>2. CASE d = c
    <3>1. PipeInv(c) /\ bro'[c] = bro[c] /\ st[c].mem = "LIVE"
      BY <1>1 DEF IInv, Live
    <3>2. bro[c] # "IDLE"
      BY <3>1 DEF PipeInv
    <3>3. CASE UNCHANGED pipe /\ r.mem = "FREED"
      BY <1>4, <2>2, <3>1, <3>2, <3>3 DEF PipeInv
    <3>4. CASE UNCHANGED pipe /\ st[c].state # 0
      BY <1>4, <2>2, <3>1, <3>2, <3>4, SMTT(30) DEF PipeInv
    <3>5. CASE pipe[c] # << >> /\ pipe' = [pipe EXCEPT ![c] = Tail(@)]
      <4>1. pipe'[c] = Tail(pipe[c])
        BY <1>2, <3>5 DEF TypeOK
      <4>2. bro[c] \notin {"IDLE", "OPEN"}
            /\ \A i \in DOMAIN Tail(pipe[c]) :
                 Tail(pipe[c])[i].type \notin {"INIT", "INIT_CUT"}
        BY <1>1, <3>5, TelexPipe
      <4> QED
        BY <2>2, <3>1, <4>1, <4>2 DEF PipeInv
    <3>6. Ended(c) => r.mem = "FREED"
      BY <1>2, <1>4 DEF Ended, TypeOK
    <3> QED
      BY <3>3, <3>4, <3>5, <3>6 DEF Callback
  <2> QED
    BY <2>1, <2>2
<1> QED
  BY <1>5, <1>7, <1>8, <1>9 DEF IInv

\* Accepting a connection preserves the invariant.
LEMMA AcceptPreserves ==
  ASSUME IInv, NEW c \in Conns, handle_bro_connection(c)
  PROVE  IInv'
<1> DEFINE a == [Unused EXCEPT !.mem = "LIVE", !.telex_conn = TRUE]
           r == initialize_watchdog(event_new(a, {"telex_read"}))
<1>1. /\ r \in ConnectionState
      /\ r.alloc = {"telex_read", "watchdog"} /\ r.added = r.alloc
      /\ r.mem = "LIVE" /\ r.state = 0 /\ r.telex_conn = TRUE
      /\ r.client_conn = FALSE /\ r.ssl = "NULL" /\ r.client_ready = {}
      /\ r.service_ready = {} /\ r.flow_state = ZeroFlow
      /\ r.in_use = FALSE /\ r.touched = FALSE
  <2>1. {"telex_read", "watchdog"} \in SUBSET Events
    BY DEF Events
  <2>2. a \in ConnectionState /\ a.alloc = {} /\ a.added = {}
    <3>1. a \in ConnectionState
      BY UnusedType, Zenon DEF ConnectionState
    <3> QED
      BY <3>1 DEF Unused
  <2>3. r = [a EXCEPT !.alloc = {"telex_read", "watchdog"},
                      !.added = {"telex_read", "watchdog"}]
    <3>1. {} \cup {"telex_read"} \cup {"watchdog"} = {"telex_read", "watchdog"}
      OBVIOUS
    <3> HIDE DEF a
    <3> QED
      BY <2>2, <3>1 DEF initialize_watchdog, event_new, ConnectionState
  <2>4. r \in ConnectionState
    <3> HIDE DEF a
    <3> QED
      BY <2>1, <2>2, <2>3, Zenon DEF ConnectionState
  <2>5. /\ a.mem = "LIVE" /\ a.state = 0 /\ a.telex_conn = TRUE
        /\ a.client_conn = FALSE /\ a.ssl = "NULL" /\ a.client_ready = {}
        /\ a.service_ready = {} /\ a.flow_state = ZeroFlow
        /\ a.in_use = FALSE /\ a.touched = FALSE
    BY DEF Unused
  <2> HIDE DEF a, r
  <2> QED
    BY <2>2, <2>3, <2>4, <2>5 DEF ConnectionState
<1>2. /\ bro[c] # "IDLE" /\ st[c].mem = "NONE"
      /\ st' = [st EXCEPT ![c] = r]
      /\ connections' = connections \cup {c} /\ active' = active + 1
      /\ UNCHANGED <<bro, pipe, unblocks>>
  BY DEF handle_bro_connection
<1> HIDE DEF r
<1>3. RelayInv(r)
  BY <1>1 DEF RelayInv, EventsMatch
<1>4. StageInv(r)
  BY <1>1 DEF StageInv
<1>5. /\ TypeOK /\ connections = {d \in Conns : Live(d)}
      /\ active = Cardinality(connections) /\ c \notin connections
      /\ IsFiniteSet(connections)
  <2>1. TypeOK /\ ConnectionsCounted
    BY DEF IInv
  <2>2. IsFiniteSet(connections)
    BY <2>1, BronnectAssumption, FS_Subset DEF TypeOK
  <2> QED
    BY <1>2, <2>1, <2>2 DEF ConnectionsCounted, Live
<1>6. /\ st'[c] = r /\ \A d \in Conns \ {c} : st'[d] = st[d]
      /\ st' \in [Conns -> ConnectionState]
  BY <1>1, <1>2, <1>5 DEF TypeOK
<1>7. ConnectionsCounted' /\ active' \in Nat
  <2>1. connections' = {d \in Conns : st'[d].mem = "LIVE"}
    BY <1>1, <1>2, <1>5, <1>6 DEF Live
  <2>2. /\ Cardinality(connections \cup {c}) = Cardinality(connections) + 1
        /\ Cardinality(connections) \in Nat
    BY <1>5, FS_AddElement, FS_CardinalityType
  <2> QED
    BY <1>2, <1>5, <2>1, <2>2 DEF ConnectionsCounted, Live
<1>8. TypeOK'
  BY <1>2, <1>5, <1>6, <1>7 DEF TypeOK
<1>9. ASSUME NEW d \in Conns PROVE RecordInv(st[d])' /\ PipeInv(d)'
  <2>1. RecordInv(st[d]) /\ PipeInv(d)
    BY DEF IInv
  <2>2. CASE d = c
    BY <1>1, <1>2, <1>3, <1>4, <1>6, <2>1, <2>2 DEF RecordInv, PipeInv
  <2>3. CASE d # c
    BY <1>2, <1>6, <2>1, <2>3, SMTT(30) DEF RecordInv, PipeInv
  <2> QED
    BY <2>2, <2>3
<1> QED
  BY <1>7, <1>8, <1>9 DEF IInv

\* So does every step of Bro: it sends INIT first and once.
LEMMA BroPreserves ==
  ASSUME IInv, NEW c \in Conns, Bro(c)
  PROVE  IInv'
<1>1. UNCHANGED <<st, connections, active, unblocks>>
  BY DEF Bro, BroConnect, BroSend, BroClose
<1>2. TypeOK /\ PipeInv(c) /\ RecordInv(st[c]) /\ pipe[c] \in Seq(Records)
  BY DEF IInv, TypeOK
<1>3. ASSUME NEW from, NEW type \in RecordTypes,
             NEW to \in {"INIT_SENT", "RAW_SENT", "CLOSED"},
             BroSend(c, from, type, to),
             \/ from = "OPEN"
             \/ from = "INIT_SENT" /\ type \notin {"INIT", "INIT_CUT"}
      PROVE  TypeOK' /\ \A d \in Conns : PipeInv(d)'
  <2>1. PICK f \in Flows :
          pipe' = [pipe EXCEPT ![c] = Append(@, [type |-> type, flow |-> f])]
    BY <1>3 DEF BroSend
  <2> DEFINE m == [type |-> type, flow |-> f]
  <2>2. m \in Records /\ m.type = type
    BY DEF Records
  <2> HIDE DEF m
  <2>3. /\ pipe'[c] = Append(pipe[c], m)
        /\ \A d \in Conns \ {c} : pipe'[d] = pipe[d]
    BY <1>2, <2>1 DEF TypeOK, m
  <2>4. /\ bro[c] = from /\ bro'[c] = to
        /\ \A d \in Conns \ {c} : bro'[d] = bro[d]
    BY <1>2, <1>3 DEF BroSend, TypeOK
  <2>5. TypeOK'
    <3>1. Append(pipe[c], m) \in Seq(Records)
      BY <1>2, <2>2
    <3>2. pipe' \in [Conns -> Seq(Records)]
      BY <1>2, <2>1, <3>1 DEF TypeOK, m
    <3>3. bro' \in [Conns -> {"IDLE", "OPEN", "INIT_SENT", "RAW_SENT", "CLOSED"}]
      BY <1>2, <1>3 DEF BroSend, TypeOK
    <3> QED
      BY <1>1, <1>2, <3>2, <3>3 DEF TypeOK
  <2>6. ASSUME NEW d \in Conns PROVE PipeInv(d)'
    <3>1. CASE d # c
      BY <1>1, <2>3, <2>4, <3>1, SMTT(30) DEF PipeInv, IInv
    <3>2. CASE d = c /\ from = "OPEN"
      <4>1. pipe[c] = << >> /\ (st[c].mem # "FREED" => st[c].state = 0)
        BY <1>2, <2>4, <3>2 DEF PipeInv
      <4>2. DOMAIN pipe'[c] = {1}
        BY <1>2, <2>2, <2>3, <4>1, SMTT(30)
      <4> QED
        BY <1>1, <1>3, <2>4, <3>2, <4>1, <4>2, SMTT(30) DEF PipeInv
    <3>3. CASE d = c /\ from = "INIT_SENT" /\ type \notin {"INIT", "INIT_CUT"}
      <4>1. ASSUME NEW i \in DOMAIN pipe'[c]
            PROVE  \/ pipe'[c][i].type = type
                   \/ i \in DOMAIN pipe[c] /\ pipe'[c][i] = pipe[c][i]
        BY <1>2, <2>2, <2>3
      <4> QED
        BY <1>1, <1>2, <1>3, <2>4, <3>3, <4>1, SMTT(30) DEF PipeInv
    <3> QED
      BY <1>3, <3>1, <3>2, <3>3, SMTT(30)
  <2> QED
    BY <2>5, <2>6
<1>4. TypeOK' /\ \A d \in Conns : PipeInv(d)'
  <2>1. CASE BroConnect(c)
    <3>1. TypeOK'
      BY <1>1, <1>2, <2>1 DEF BroConnect, TypeOK
    <3>2. ASSUME NEW d \in Conns PROVE PipeInv(d)'
      <4>1. PipeInv(d) /\ RecordInv(st[d])
        BY DEF IInv
      <4>2. CASE d = c
        <5>1. bro[c] = "IDLE" /\ bro'[c] = "OPEN" /\ pipe' = pipe
          BY <1>2, <2>1 DEF BroConnect, TypeOK
        <5>2. st[c].mem = "NONE" /\ st[c].state = 0 /\ pipe[c] = << >>
          BY <1>2, <5>1, SMTT(30) DEF PipeInv
        <5> QED
          BY <1>1, <4>2, <5>1, <5>2 DEF PipeInv
      <4>3. CASE d # c
        BY <1>1, <1>2, <2>1, <4>1, <4>3, SMTT(30) DEF BroConnect, PipeInv, TypeOK
      <4> QED
        BY <4>2, <4>3
    <3> QED
      BY <3>1, <3>2
  <2>2. CASE BroClose(c)
    <3>1. TypeOK'
      BY <1>1, <1>2, <2>2, SMTT(30) DEF BroClose, TypeOK
    <3>2. ASSUME NEW d \in Conns PROVE PipeInv(d)'
      <4>1. PipeInv(d)
        BY DEF IInv
      <4> QED
        BY <1>1, <1>2, <2>2, <4>1 DEF BroClose, PipeInv, TypeOK
    <3> QED
      BY <3>1, <3>2
  <2>3. CASE \/ BroSend(c, "OPEN", "INIT", "INIT_SENT")
             \/ BroSend(c, "INIT_SENT", "RAW_PKT", "RAW_SENT")
             \/ BroSend(c, "OPEN", "INIT_CUT", "CLOSED")
             \/ BroSend(c, "INIT_SENT", "RAW_PKT_CUT", "CLOSED")
    BY <1>3, <2>3 DEF RecordTypes
  <2> QED
    BY <2>1, <2>2, <2>3 DEF Bro
<1>5. ASSUME NEW d \in Conns PROVE RecordInv(st[d])'
  BY <1>1 DEF IInv, RecordInv
<1>6. ConnectionsCounted'
  BY <1>1 DEF IInv, ConnectionsCounted, Live
<1> QED
  BY <1>4, <1>5, <1>6 DEF IInv

-----------------------------------------------------------------------------
(* The theorems *)

\* The empty initial state satisfies the invariant.
LEMMA InitInvariant == Init => IInv
<1> SUFFICES ASSUME Init PROVE IInv
  OBVIOUS
<1>1. TypeOK
  BY UnusedType, SMTT(30) DEF Init, TypeOK
<1>2. ASSUME NEW c \in Conns PROVE RecordInv(st[c]) /\ PipeInv(c)
  BY DEF Init, RecordInv, PipeInv, Unused
<1>3. ConnectionsCounted
  <2>1. {c \in Conns : Live(c)} = {}
    BY DEF Init, Live, Unused
  <2> QED
    BY <2>1, FS_EmptySet DEF Init, ConnectionsCounted
<1> QED
  BY <1>1, <1>2, <1>3 DEF IInv

\* Every step preserves it.
LEMMA StepInvariant == IInv /\ [Next]_vars => IInv'
<1> SUFFICES ASSUME IInv, [Next]_vars PROVE IInv'
  OBVIOUS
<1>1. CASE UNCHANGED vars
  <2>1. UNCHANGED <<st, connections, active, bro, pipe, unblocks>>
    BY <1>1 DEF vars
  <2>2. TypeOK'
    BY <2>1 DEF IInv, TypeOK
  <2>3. ASSUME NEW c \in Conns PROVE RecordInv(st[c])'
    BY <2>1 DEF IInv, RecordInv
  <2>4. ASSUME NEW c \in Conns PROVE PipeInv(c)'
    BY <2>1 DEF IInv, PipeInv
  <2>5. ConnectionsCounted'
    BY <2>1 DEF IInv, ConnectionsCounted, Live
  <2> QED
    BY <2>2, <2>3, <2>4, <2>5 DEF IInv
<1>2. CASE Next
  <2>1. PICK c \in Conns : Bro(c) \/ Bronnect(c)
    BY <1>2 DEF Next
  <2> QED
    BY <2>1, BroPreserves, AcceptPreserves, CallbackStep, CallbackPreserves
<1> QED
  BY <1>1, <1>2

\* The inductive invariant holds in every reachable state of bronnect.
THEOREM Invariance == Spec => []IInv
BY InitInvariant, StepInvariant, PTL DEF Spec

\* Type correctness of the connection table, counters and socket contents.
THEOREM TypeCorrect == Spec => []TypeOK
<1>1. IInv => TypeOK
  BY DEF IInv
<1> QED
  BY <1>1, Invariance, PTL

\* The readiness flags and the libevent registrations of every live connection
\* agree, whatever order the callbacks ran in.
THEOREM EventsFollowReadinessHolds == Spec => []EventsFollowReadiness
<1>1. IInv => EventsFollowReadiness
  BY DEF IInv, RecordInv, RelayInv, EventsFollowReadiness, Live
<1> QED
  BY <1>1, Invariance, PTL

\* No event survives its connection: a freed record is never called back.
THEOREM NoDanglingEventsHolds == Spec => []NoDanglingEvents
<1>1. IInv => NoDanglingEvents
  BY DEF IInv, RecordInv, FreedInv, NoDanglingEvents, Freed
<1> QED
  BY <1>1, Invariance, PTL

\* The connection table and the active counter follow the allocated records:
\* no path frees a connection twice or forgets to count it down.
THEOREM ConnectionsCountedHolds == Spec => []ConnectionsCounted
<1>1. IInv => ConnectionsCounted
  BY SMTT(30) DEF IInv
<1> QED
  BY <1>1, Invariance, PTL

\* The Bro socket is open only before the forged socket exists.
THEOREM TelexClosedBeforeRelayHolds == Spec => []TelexClosedBeforeRelay
<1>1. IInv => TelexClosedBeforeRelay
  BY SMTT(30) DEF IInv, RecordInv, RelayInv, StageInv, TelexClosedBeforeRelay, Live
<1> QED
  BY <1>1, Invariance, PTL

\* A relay callback always finds an SSL object and a client socket.
THEOREM RelayHasSSLHolds == Spec => []RelayHasSSL
<1>1. IInv => RelayHasSSL
  BY DEF IInv, RecordInv, RelayInv, EventsMatch, RelayHasSSL, Live
<1> QED
  BY <1>1, Invariance, PTL

\* on_telex_read never goes on with a record that setup_fake_socket freed.
THEOREM RecordKeptForCallerHolds == Spec => []RecordKeptForCaller
<1>1. IInv => RecordKeptForCaller
  <2> SUFFICES ASSUME IInv, NEW c \in Conns PROVE ~st[c].touched
    BY DEF RecordKeptForCaller
  <2>1. st[c] \in ConnectionState /\ RecordInv(st[c])
    BY DEF IInv, TypeOK
  <2>2. st[c].mem \in {"NONE", "LIVE", "FREED"}
    BY <2>1, SMTT(30) DEF ConnectionState
  <2>3. CASE st[c].mem = "NONE"
    <3>1. st[c] = Unused
      BY <2>1, <2>3 DEF RecordInv
    <3> QED
      BY <3>1 DEF Unused
  <2>4. CASE st[c].mem = "LIVE"
    <3>1. RelayInv(st[c])
      BY <2>1, <2>4 DEF RecordInv
    <3> QED
      BY <3>1, Zenon DEF RelayInv
  <2>5. CASE st[c].mem = "FREED"
    <3>1. FreedInv(st[c])
      BY <2>1, <2>5 DEF RecordInv
    <3> QED
      BY <3>1, Zenon DEF FreedInv
  <2> QED
    BY <2>2, <2>3, <2>4, <2>5
<1> QED
  BY <1>1, Invariance, PTL

\* Tearing a connection down unblocks the flow it holds, on every path, and
\* nothing else sends an unblock.
THEOREM TeardownUnblocksHolds == Spec => TeardownUnblocks
<1> DEFINE Step ==
      /\ \A c \in Conns :
           Live(c) /\ Freed(c)' /\ st[c].flow_state # ZeroFlow
             => unblocks' = Append(unblocks, st[c].flow_state)
      /\ unblocks' # unblocks => \E c \in Conns : Live(c) /\ Freed(c)'
<1>1. IInv /\ [Next]_vars => [Step]_vars
  <2> SUFFICES ASSUME IInv, Next PROVE Step
    OBVIOUS
  <2>1. PICK c \in Conns : Bro(c) \/ Bronnect(c)
    BY DEF Next
  <2>2. TypeOK
    BY DEF IInv
  <2>3. CASE Bro(c)
    BY <2>3 DEF Bro, BroConnect, BroSend, BroClose, Live, Freed
  <2>4. CASE handle_bro_connection(c)
    <3>1. unblocks' = unblocks /\ st[c].mem = "NONE"
          /\ \A d \in Conns \ {c} : st'[d] = st[d]
      BY <2>2, <2>4 DEF handle_bro_connection, TypeOK
    <3> QED
      BY <3>1 DEF Live, Freed
  <2>5. CASE Callback(c)
    <3>1. CASE Kept(c)
      BY <2>2, <3>1 DEF Kept, RelayInv, TypeOK, Live, Freed
    <3>2. CASE Ended(c)
      <4>1. PICK r \in ConnectionState :
              st' = [st EXCEPT ![c] = r] /\ r.mem = "FREED"
        BY <3>2 DEF Ended
      <4>2. st'[c].mem = "FREED" /\ \A d \in Conns \ {c} : st'[d] = st[d]
        BY <2>2, <4>1 DEF TypeOK
      <4>3. st[c].flow_state # ZeroFlow
              => unblocks' = Append(unblocks, st[c].flow_state)
        BY <3>2 DEF Ended
      <4>4. Live(c) /\ Freed(c)'
        BY <2>5, <4>2 DEF Callback, Freed
      <4> QED
        BY <4>2, <4>3, <4>4 DEF Live, Freed
    <3> QED
      BY <2>5, <3>1, <3>2, SMTT(30) DEF Callback
  <2> QED
    BY <2>1, <2>3, <2>4, <2>5, CallbackStep
<1> QED
  BY <1>1, Invariance, PTL DEF Spec, TeardownUnblocks

=============================================================================
