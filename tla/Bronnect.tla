------------------------------ MODULE Bronnect ------------------------------
(***************************************************************************)
(* bronnect (station/net/bronnect.c, watchdog.c), the event-driven process *)
(* that takes a tagged TLS flow over from Bro, impersonates the server     *)
(* towards the client on a forged socket and relays to the Telex service.  *)
(*                                                                         *)
(* One libevent callback is one atomic step.  A handler that may end in    *)
(* the cleanup chain is written as an action on the connection record it   *)
(* has built so far (parameter s), because the chain either commits that   *)
(* record or frees it.  System calls and OpenSSL return any outcome their  *)
(* contract allows in the connection's state.                              *)
(***************************************************************************)
EXTENDS Integers, Sequences, FiniteSets

CONSTANTS
  Conns,      \* connections Bro opens over the unix socket, one per cnum
  Flows,      \* TCP flows an INIT record can name
  ZeroFlow    \* the all-zero flow_state of a fresh ConnectionState

ASSUME BronnectAssumption == IsFiniteSet(Conns) /\ ZeroFlow \notin Flows

VARIABLES
  st,           \* ConnectionState of every connection
  connections,  \* GHashTable of live connections
  active,       \* stats.active_connections
  bro,          \* Bro's end of the unix socket of every connection
  pipe,         \* records Bro has sent and bronnect has not read
  unblocks      \* unblock commands sent to the flow blocker, in order

vars == <<st, connections, active, bro, pipe, unblocks>>

READ == "READ"
WRITE == "WRITE"

\* The socket events, whose registration follows a readiness flag.
IOEvents == {"service_read", "service_write", "client_read", "client_write"}
Events == IOEvents \cup {"telex_read", "watchdog"}

RecordTypes == {"INIT", "INIT_CUT", "RAW_PKT", "RAW_PKT_CUT"}
Records == [type : RecordTypes, flow : Flows]

\* ConnectionState.  An event is non-NULL when in alloc and registered with
\* libevent when in added; ssl is "SENT" once close_notify has been sent;
\* connecting says that ev_service_write still calls on_finish_connect;
\* touched is history: on_telex_read went on using a record that was freed
\* under it.
ConnectionState ==
  [mem : {"NONE", "LIVE", "FREED"}, state : 0..6,
   telex_conn : BOOLEAN, service_conn : BOOLEAN, client_conn : BOOLEAN,
   ssl : {"NULL", "LIVE", "SENT"},
   client_ready : SUBSET {READ, WRITE}, service_ready : SUBSET {READ, WRITE},
   alloc : SUBSET Events, added : SUBSET Events, connecting : BOOLEAN,
   cleanup_waiting : {"NONE", "WANT_READ", "WANT_WRITE"},
   flow_state : Flows \cup {ZeroFlow}, in_use : BOOLEAN, touched : BOOLEAN]

Unused ==
  [mem |-> "NONE", state |-> 0,
   telex_conn |-> FALSE, service_conn |-> FALSE, client_conn |-> FALSE,
   ssl |-> "NULL", client_ready |-> {}, service_ready |-> {},
   alloc |-> {}, added |-> {}, connecting |-> FALSE,
   cleanup_waiting |-> "NONE", flow_state |-> ZeroFlow,
   in_use |-> FALSE, touched |-> FALSE]

Live(c) == st[c].mem = "LIVE"
Freed(c) == st[c].mem = "FREED"

Init ==
  /\ st = [c \in Conns |-> Unused]
  /\ connections = {}
  /\ active = 0
  /\ bro = [c \in Conns |-> "IDLE"]
  /\ pipe = [c \in Conns |-> << >>]
  /\ unblocks = << >>

-----------------------------------------------------------------------------
(* Registering and removing events *)

event_add(s, evs) == [s EXCEPT !.added = @ \cup evs]
event_del(s, evs) == [s EXCEPT !.added = @ \ evs]
event_new(s, evs) == [s EXCEPT !.alloc = @ \cup evs, !.added = @ \cup evs]

pet_watchdog(s) ==
  IF "watchdog" \in s.alloc THEN event_add(s, {"watchdog"}) ELSE s
initialize_watchdog_NotArmed(s) == [s EXCEPT !.alloc = @ \cup {"watchdog"}]
initialize_watchdog(s) == event_new(s, {"watchdog"})

close_telex_connection(s) ==
  [s EXCEPT !.telex_conn = FALSE, !.alloc = @ \ {"telex_read"},
            !.added = @ \ {"telex_read"}]

\* A handler that ends with st still allocated.
Commit(c, s) ==
  /\ st' = [st EXCEPT ![c] = s]
  /\ UNCHANGED <<connections, active, unblocks>>

-----------------------------------------------------------------------------
(* The cleanup chain *)

\* Results of SSL_shutdown.  Before the forged socket exists the object sits
\* on memory BIOs: close_notify is always written and nothing is ever read.
\* "END" stands for every result after which try_shutdown stops waiting.
SSL_shutdown_first(s) ==
  CASE s.client_conn /\ s.ssl = "LIVE" -> {-1, 0, 1}
    [] s.client_conn /\ s.ssl = "SENT" -> {-1, 1}
    [] ~s.client_conn /\ s.ssl = "LIVE" -> {0}
    [] OTHER -> {-1}
SSL_shutdown_again(s) ==
  IF s.client_conn THEN {"END", "WANT_READ", "WANT_WRITE"} ELSE {"WANT_READ"}

\* Events cleanup_connection_after_ssl unregisters before freeing them: the
\* socket events only when the readiness flag says they are registered.
Unregistered_NoWatchdog(s) == IOEvents \cup {"telex_read"}
Unregistered(s) ==
  {"watchdog", "telex_read"}
    \cup (IF READ \in s.service_ready THEN {} ELSE {"service_read"})
    \cup (IF WRITE \in s.service_ready THEN {} ELSE {"service_write"})
    \cup (IF READ \in s.client_ready THEN {} ELSE {"client_read"})
    \cup (IF WRITE \in s.client_ready THEN {} ELSE {"client_write"})

cleanup_connection_after_ssl_KeepInTable(c, s, unblock) ==
  /\ st' = [st EXCEPT ![c] = [Unused EXCEPT !.mem = "FREED", !.state = 6]]
  /\ active' = active - 1
  /\ unblocks' = IF unblock THEN Append(unblocks, s.flow_state) ELSE unblocks
  /\ UNCHANGED connections

cleanup_connection_after_ssl(c, s, unblock) ==
  /\ st' = [st EXCEPT ![c] =
              [Unused EXCEPT !.mem = "FREED", !.state = 6,
                             !.added = s.added \ Unregistered(s),
                             !.touched = s.in_use]]
  /\ connections' = connections \ {c}
  /\ active' = active - 1
  /\ unblocks' = IF unblock THEN Append(unblocks, s.flow_state) ELSE unblocks

cleanup_connection_ssl_try_shutdown(c, s) ==
  IF s.ssl = "NULL"
  THEN cleanup_connection_after_ssl(c, s, TRUE)
  ELSE \E r \in SSL_shutdown_again(s) :
         IF r = "END"
         THEN cleanup_connection_after_ssl(c, s, TRUE)
         ELSE Commit(c, [s EXCEPT !.state = 5, !.cleanup_waiting = r,
                                  !.in_use = FALSE])

cleanup_connection_NoWait(c, s) ==
  cleanup_connection_after_ssl(c, close_telex_connection(s), s.state > 0)

cleanup_connection(c, s) ==
  LET t == close_telex_connection(s) IN
  IF t.ssl = "NULL"
  THEN cleanup_connection_after_ssl(c, t, t.state > 0)
  ELSE \E r \in SSL_shutdown_first(t) :
         IF r = 0
         THEN cleanup_connection_ssl_try_shutdown(c, [t EXCEPT !.ssl = "SENT"])
         ELSE cleanup_connection_after_ssl(c, t, TRUE)

-----------------------------------------------------------------------------
(* The Bro side: accept, INIT, RAW_PKT, end of file *)

handle_bro_connection(c) ==
  /\ bro[c] # "IDLE"
  /\ st[c].mem = "NONE"
  /\ st' = [st EXCEPT ![c] =
              initialize_watchdog(
                event_new([Unused EXCEPT !.mem = "LIVE", !.telex_conn = TRUE],
                          {"telex_read"}))]
  /\ connections' = connections \cup {c}
  /\ active' = active + 1
  /\ UNCHANGED <<bro, pipe, unblocks>>

\* recv_msg_header finds end of file: shut down silently.
TelexEof_NoUnblock(c) ==
  /\ pipe[c] = << >> /\ bro[c] = "CLOSED"
  /\ cleanup_connection_after_ssl(c, [st[c] EXCEPT !.ssl = "NULL"], FALSE)
  /\ UNCHANGED pipe
TelexEof(c) ==
  /\ pipe[c] = << >> /\ bro[c] = "CLOSED"
  /\ cleanup_connection_after_ssl(c, [st[c] EXCEPT !.ssl = "NULL"], TRUE)
  /\ UNCHANGED pipe

\* init_service_connection: connect fails, completes at once or is pending.
init_service_connection(s, r) ==
  CASE r = "FAILED" -> [s EXCEPT !.service_conn = FALSE]
    [] r = "DONE" -> [s EXCEPT !.service_conn = TRUE,
                               !.alloc = @ \ {"service_write"}]
    [] r = "PENDING" -> event_new([s EXCEPT !.service_conn = TRUE,
                                            !.connecting = TRUE],
                                  {"service_write"})

TelexInit(c) ==
  /\ pipe[c] # << >> /\ Head(pipe[c]).type \in {"INIT", "INIT_CUT"}
  /\ pipe' = [pipe EXCEPT ![c] = Tail(@)]
  /\ LET rec == Head(pipe[c])
         s == initialize_watchdog([st[c] EXCEPT !.state = 1])
     IN CASE rec.type = "INIT_CUT" -> cleanup_connection(c, st[c])
          [] rec.type = "INIT" /\ s.client_conn -> Commit(c, s)
          [] rec.type = "INIT" /\ ~s.client_conn ->
             \E r \in {"FAILED", "DONE", "PENDING"}, secret \in BOOLEAN :
               LET t == init_service_connection(s, r)
                   u == [t EXCEPT !.flow_state = rec.flow]
               IN CASE r = "FAILED" -> cleanup_connection(c, t)
                    [] r # "FAILED" /\ ~secret -> cleanup_connection(c, u)
                    [] r # "FAILED" /\ secret ->
                       Commit(c, pet_watchdog([u EXCEPT !.ssl = "LIVE"]))

\* setup_fake_socket returns to its caller whether or not it succeeded, and
\* the caller goes on to write to st.
setup_fake_socket_TelexOpen(c, s, ok) ==
  IF ok
  THEN Commit(c, pet_watchdog(event_new([s EXCEPT !.client_conn = TRUE],
                                        {"client_read", "client_write"})))
  ELSE cleanup_connection(c, pet_watchdog([s EXCEPT !.in_use = TRUE]))
setup_fake_socket(c, s, ok) ==
  IF ok
  THEN Commit(c, pet_watchdog(close_telex_connection(
                   event_new([s EXCEPT !.client_conn = TRUE],
                       {"client_read", "client_write"}))))
  ELSE cleanup_connection(c, pet_watchdog([s EXCEPT !.in_use = TRUE]))

TelexRawPkt(c) ==
  /\ pipe[c] # << >> /\ Head(pipe[c]).type \in {"RAW_PKT", "RAW_PKT_CUT"}
  /\ pipe' = [pipe EXCEPT ![c] = Tail(@)]
  /\ LET s == [st[c] EXCEPT !.state = 2] IN
     IF st[c].state # 1
     THEN cleanup_connection(c, st[c])
     ELSE IF Head(pipe[c]).type = "RAW_PKT_CUT"
          THEN cleanup_connection(c, s)
          ELSE \E ok \in BOOLEAN : setup_fake_socket(c, s, ok)

on_telex_read(c) ==
  /\ Live(c) /\ "telex_read" \in st[c].added
  /\ st[c].state <= 2
  /\ TelexEof(c) \/ TelexInit(c) \/ TelexRawPkt(c)
  /\ UNCHANGED bro

-----------------------------------------------------------------------------
(* Relaying between client and service *)

\* SSL_read from the client and send to the service; log_data moves the
\* connection to state 3 whenever data was read.
forward_client_to_service(c, s) ==
  LET logged == [s EXCEPT !.state = 3]
      again(t) == event_add([t EXCEPT !.service_ready = @ \ {WRITE},
                                      !.client_ready = @ \ {READ}],
                            {"service_write", "client_read"})
  IN \/ Commit(c, again(logged))                   \* SSL_ERROR_NONE, sent
     \/ Commit(c, again(s))                        \* SSL_ERROR_WANT_*
     \/ cleanup_connection(c, logged)              \* sendall failed
     \/ cleanup_connection(c, s)                   \* closed by the client
     \/ cleanup_connection_after_ssl(c, s, TRUE)   \* SSL_ERROR_SYSCALL

ForwardUp(c, s) ==
  IF WRITE \in s.service_ready /\ READ \in s.client_ready
  THEN forward_client_to_service(c, s)
  ELSE Commit(c, s)

\* recv from the service and SSL_write to the client; FALSE stands for end of
\* file, a socket error or a fatal SSL error.
try_to_forward(c, s) ==
  IF READ \in s.service_ready /\ WRITE \in s.client_ready
  THEN \/ ForwardUp(c, event_add([s EXCEPT !.service_ready = @ \ {READ},
                                           !.client_ready = @ \ {WRITE}],
                                 {"service_read", "client_write"}))
       \/ cleanup_connection(c, s)
  ELSE ForwardUp(c, s)

\* pet_watchdog comes last in the code; the cleanup chain does not look at
\* the watchdog before it frees it, so petting first has the same effect.
Relay(c, s) == try_to_forward(c, pet_watchdog(s))

on_read_ready_client(c) ==
  LET s == event_del([st[c] EXCEPT !.client_ready = @ \cup {READ}], {"client_read"}) IN
  /\ Live(c) /\ "client_read" \in st[c].added
  /\ IF s.cleanup_waiting = "WANT_READ"
     THEN cleanup_connection_ssl_try_shutdown(c, s)
     ELSE Relay(c, s)
  /\ UNCHANGED <<bro, pipe>>

on_read_ready_service_KeepEvent(c) ==
  /\ Live(c) /\ "service_read" \in st[c].added
  /\ Relay(c, [st[c] EXCEPT !.service_ready = @ \cup {READ}])
  /\ UNCHANGED <<bro, pipe>>

on_read_ready_service(c) ==
  /\ Live(c) /\ "service_read" \in st[c].added
  /\ Relay(c, event_del([st[c] EXCEPT !.service_ready = @ \cup {READ}],
                  {"service_read"}))
  /\ UNCHANGED <<bro, pipe>>

on_write_ready_client(c) ==
  /\ Live(c) /\ "client_write" \in st[c].added
  /\ IF st[c].cleanup_waiting = "WANT_WRITE"
     THEN cleanup_connection_ssl_try_shutdown(c, st[c])
     ELSE Relay(c, event_del([st[c] EXCEPT !.client_ready = @ \cup {WRITE}],
                       {"client_write"}))
  /\ UNCHANGED <<bro, pipe>>

on_write_ready_service(c) ==
  /\ Live(c) /\ "service_write" \in st[c].added /\ ~st[c].connecting
  /\ Relay(c, event_del([st[c] EXCEPT !.service_ready = @ \cup {WRITE}],
                  {"service_write"}))
  /\ UNCHANGED <<bro, pipe>>

\* The one-shot connect event has left libevent when its callback runs.
on_finish_connect(c) ==
  LET s == event_del([st[c] EXCEPT !.connecting = FALSE], {"service_write"}) IN
  /\ Live(c) /\ "service_write" \in st[c].added /\ st[c].connecting
  /\ \/ cleanup_connection(c, s)
     \/ Commit(c, pet_watchdog(event_add(
                   event_new([s EXCEPT !.service_ready = @ \ {READ}],
                             {"service_read"}), {"service_write"})))
  /\ UNCHANGED <<bro, pipe>>

\* The timeout fires once; nothing in the callback re-arms it.
on_watchdog_NotWhileWaiting(c) ==
  LET s == event_del(st[c], {"watchdog"}) IN
  /\ Live(c) /\ "watchdog" \in st[c].added
  /\ CASE s.state >= 5 -> Commit(c, s)
       [] s.state \in 1..4 -> cleanup_connection(c, s)
       [] s.state = 0 -> cleanup_connection_after_ssl(c, s, FALSE)
  /\ UNCHANGED <<bro, pipe>>

on_watchdog(c) ==
  LET s == event_del(st[c], {"watchdog"}) IN
  /\ Live(c) /\ "watchdog" \in st[c].added
  /\ IF s.state >= 1 THEN cleanup_connection(c, s)
                     ELSE cleanup_connection_after_ssl(c, s, FALSE)
  /\ UNCHANGED <<bro, pipe>>

-----------------------------------------------------------------------------
(* Bro, as telex-ssl.bro uses the socket: connect, at most one INIT, at most *)
(* one RAW_PKT after it, close at any time; it may die inside a record.      *)

BroConnect(c) ==
  /\ bro[c] = "IDLE"
  /\ bro' = [bro EXCEPT ![c] = "OPEN"]
  /\ UNCHANGED <<st, connections, active, pipe, unblocks>>

BroSend(c, from, type, to) ==
  /\ bro[c] = from
  /\ bro' = [bro EXCEPT ![c] = to]
  /\ \E f \in Flows : pipe' = [pipe EXCEPT ![c] = Append(@, [type |-> type, flow |-> f])]
  /\ UNCHANGED <<st, connections, active, unblocks>>

BroClose(c) ==
  /\ bro[c] \in {"OPEN", "INIT_SENT", "RAW_SENT"}
  /\ bro' = [bro EXCEPT ![c] = "CLOSED"]
  /\ UNCHANGED <<st, connections, active, pipe, unblocks>>

Bro(c) ==
  \/ BroConnect(c)
  \/ BroSend(c, "OPEN", "INIT", "INIT_SENT")
  \/ BroSend(c, "INIT_SENT", "RAW_PKT", "RAW_SENT")
  \/ BroSend(c, "OPEN", "INIT_CUT", "CLOSED")
  \/ BroSend(c, "INIT_SENT", "RAW_PKT_CUT", "CLOSED")
  \/ BroClose(c)

Bronnect(c) ==
  \/ handle_bro_connection(c)
  \/ on_telex_read(c)
  \/ on_read_ready_client(c)
  \/ on_read_ready_service(c)
  \/ on_write_ready_client(c)
  \/ on_write_ready_service(c)
  \/ on_finish_connect(c)
  \/ on_watchdog(c)

Next == \E c \in Conns : Bro(c) \/ Bronnect(c)

Spec == Init /\ [][Next]_vars

\* libevent dispatches what stays ready, and an armed timeout expires once the
\* connection has been quiet for WATCHDOG_TIMEOUT.
FairSpec ==
  /\ Spec
  /\ \A c \in Conns :
       /\ WF_vars(handle_bro_connection(c))
       /\ WF_vars(on_telex_read(c))
       /\ WF_vars(on_watchdog(c))

-----------------------------------------------------------------------------
(* Properties *)

\* Every variable has the type the code gives it.
TypeOK ==
  /\ st \in [Conns -> ConnectionState]
  /\ connections \in SUBSET Conns
  /\ active \in Nat
  /\ bro \in [Conns -> {"IDLE", "OPEN", "INIT_SENT", "RAW_SENT", "CLOSED"}]
  /\ pipe \in [Conns -> Seq(Records)]
  /\ unblocks \in Seq(Flows \cup {ZeroFlow})

\* The invariant setup_service_read announces (bronnect.c:261), for every
\* socket event of a live connection: a non-NULL event is registered exactly
\* when its readiness flag is clear.  A failed connect leaves ev_service_write
\* unregistered with the flag clear, so only one direction holds for it.
EventsMatch(s) ==
  /\ s.added \subseteq s.alloc
  /\ "service_read" \in s.alloc =>
       ("service_read" \in s.added <=> READ \notin s.service_ready)
  /\ "client_read" \in s.alloc =>
       ("client_read" \in s.added <=> READ \notin s.client_ready)
  /\ "client_write" \in s.alloc =>
       ("client_write" \in s.added <=> WRITE \notin s.client_ready)
  /\ "service_write" \in s.added => WRITE \notin s.service_ready

EventsFollowReadiness == \A c \in Conns : Live(c) => EventsMatch(st[c])

\* cleanup_connection_after_ssl never frees an event that libevent still
\* holds, although it unregisters the socket events only when their flag is
\* clear: no callback can run on a freed connection.
NoDanglingEvents == \A c \in Conns : Freed(c) => st[c].added = {}

\* The hash table holds exactly the allocated connections and
\* stats.active_connections counts them: every connection is removed and
\* counted down once, whichever of the cleanup paths ends it (the WARNING of
\* cleanup_connection_after_ssl is never printed).
ConnectionsCounted ==
  /\ connections = {c \in Conns : Live(c)}
  /\ active = Cardinality(connections)

\* The Bro socket is closed by the time the connection leaves states 0 and 1
\* and before the forged client socket exists, so on_telex_read never returns
\* early on a descriptor that stays readable.
TelexClosedBeforeRelay ==
  \A c \in Conns : Live(c) /\ st[c].telex_conn =>
    /\ st[c].state \in {0, 1}
    /\ ~st[c].client_conn
    /\ "telex_read" \in st[c].added

\* Whenever a callback may touch st->ssl or assert that the client socket is
\* open, the SSL object and the socket exist.
RelayHasSSL ==
  \A c \in Conns :
    Live(c) /\ (st[c].client_ready # {}
                  \/ st[c].added \cap {"client_read", "client_write"} # {})
      => st[c].ssl # "NULL" /\ st[c].client_conn

\* on_telex_read goes on to send on st->client_conn and to close st's Bro
\* socket after setup_fake_socket has returned, also when that has called
\* cleanup_connection: st is never freed by then, because the SSL object still
\* sits on memory BIOs and its shutdown waits.
RecordKeptForCaller == \A c \in Conns : ~st[c].touched

\* Whichever path tears a connection down, if its flow_state is known that
\* very flow is unblocked, in the step that frees the connection; no other
\* step sends an unblock.
TeardownUnblocks ==
  [][ /\ \A c \in Conns :
           Live(c) /\ Freed(c)' /\ st[c].flow_state # ZeroFlow
             => unblocks' = Append(unblocks, st[c].flow_state)
      /\ unblocks' # unblocks => \E c \in Conns : Live(c) /\ Freed(c)' ]_vars

\* A connection for which Bro never sends INIT does not stay for ever: it
\* leaves state 0 or its watchdog (120 s) frees it.
InitOrReclaimed ==
  \A c \in Conns : (Live(c) /\ st[c].state = 0)
                     ~> ~(Live(c) /\ st[c].state = 0)

\* Once close_notify has been sent and the watchdog is armed, the connection
\* is freed, even when the event the shutdown waits for is not registered.
ShutdownCompletes ==
  \A c \in Conns :
    (Live(c) /\ st[c].ssl = "SENT" /\ "watchdog" \in st[c].added) ~> Freed(c)

-----------------------------------------------------------------------------
(* The inductive invariant *)

\* What every live connection record satisfies, also in the middle of a
\* handler: its events match its flags, a flag is only set for an event that
\* exists, and the client side exists only together with an SSL object.
RelayInv(s) ==
  /\ s \in ConnectionState
  /\ s.mem = "LIVE" /\ ~s.touched
  /\ EventsMatch(s)
  /\ "watchdog" \in s.alloc
  /\ s.telex_conn <=> "telex_read" \in s.added
  /\ s.telex_conn <=> "telex_read" \in s.alloc
  /\ READ \in s.service_ready => "service_read" \in s.alloc
  /\ WRITE \in s.service_ready => "service_write" \in s.alloc
  /\ s.client_conn <=> "client_read" \in s.alloc
  /\ s.client_conn <=> "client_write" \in s.alloc
  /\ s.client_ready # {} => s.client_conn
  /\ s.client_conn => s.ssl # "NULL"

\* What holds between handlers: how state, the Bro socket and the SSL object
\* go together.
StageInv(s) ==
  /\ ~s.in_use
  /\ s.telex_conn => s.state \in {0, 1} /\ ~s.client_conn
  /\ s.telex_conn /\ s.state = 1 => s.ssl = "LIVE"
  /\ s.state = 0 => /\ s.alloc \subseteq {"telex_read", "watchdog"}
                    /\ s.ssl = "NULL" /\ s.flow_state = ZeroFlow

FreedInv(s) == s \in ConnectionState /\ s.added = {} /\ ~s.touched

RecordInv(s) ==
  /\ s.mem = "LIVE" => RelayInv(s) /\ StageInv(s)
  /\ s.mem = "FREED" => FreedInv(s)
  /\ s.mem = "NONE" => s = Unused

\* Bro sends one INIT record at most: it is the first record of the socket and
\* bronnect reads it in state 0.
PipeInv(c) ==
  /\ bro[c] = "IDLE" => st[c].mem = "NONE"
  /\ bro[c] \in {"IDLE", "OPEN"} => pipe[c] = << >>
  /\ st[c].mem # "FREED" /\ bro[c] \in {"IDLE", "OPEN"} => st[c].state = 0
  /\ \A i \in DOMAIN pipe[c] :
       /\ pipe[c][i].type \in {"INIT", "INIT_CUT"} => i = 1
       /\ pipe[c][i].type \in {"INIT", "INIT_CUT"} /\ st[c].mem # "FREED"
            => st[c].state = 0

\* Holds in every reachable state and is preserved by every step.
IInv ==
  /\ TypeOK
  /\ \A c \in Conns : RecordInv(st[c]) /\ PipeInv(c)
  /\ ConnectionsCounted

=============================================================================
