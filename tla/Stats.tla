------------------------------- MODULE Stats --------------------------------
(***************************************************************************)
(* The statistics of bronnect (station/net/httpd.c): a timer writes a line *)
(* about the connections to a log every HTTPD_LOG_INTERVAL seconds, and a  *)
(* request for a chart turns the lines into rows.  The charts by key port  *)
(* take their columns from the last line and keep them in the globals      *)
(* port_list and port_list_len; rows of older lines, which may have other  *)
(* ports, are laid out on those columns.                                   *)
(*                                                                         *)
(* HTML, formatting of numbers, the window of time and the size of a line  *)
(* (MAX_HTTPD_LINE_SIZE, which cuts a line of more than about 20 ports;    *)
(* set_port_list aborts at MAX_PORTS, which is 15) are left out.           *)
(***************************************************************************)
EXTENDS Integers, Sequences, FiniteSets

CONSTANTS
  Conns,     \* struct ConnectionState allocations
  Ports,     \* the ports of the keys, natural numbers other than 0
  Ips,       \* addresses of clients
  MAX_PORTS, \* size of port_list
  MaxBytes,  \* bound on the bytes relayed in each direction
  MaxTotal,  \* bound on the connections ever made
  MaxLines,  \* bound on the lines of the log
  NoConn     \* an allocation not in use

ASSUME StatsAssumption ==
  /\ Ports \subseteq Nat \ {0} /\ MAX_PORTS \in Nat \ {0}
  /\ MaxBytes \in Nat /\ MaxTotal \in Nat
  /\ NoConn \notin [ip : Ips \cup {0}, port : Ports \cup {-1}]

VARIABLES
  connections,   \* the table, as it is seen here: client and key port
  stats,         \* struct bronnect_stats
  last,          \* last_up_bytes, last_down_bytes
  log,           \* the lines of HTTPD_LOG_FILE
  port_list,     \* ports of the columns; what a chart does not set is older
  port_list_len,
  chart,         \* the rows of the last chart, each with its line
  aborted        \* the assertion of set_port_list has failed

vars == <<connections, stats, last, log, port_list, port_list_len, chart, aborted>>

Active == {c \in Conns : connections[c] # NoConn}

Init ==
  /\ connections = [c \in Conns |-> NoConn]
  /\ stats = [up |-> 0, down |-> 0, active |-> 0, total |-> 0]
  /\ last = [up |-> 0, down |-> 0]
  /\ log = <<>> /\ chart = <<>> /\ aborted = FALSE
  /\ port_list = [i \in 0..MAX_PORTS |-> 0] /\ port_list_len = 0

-----------------------------------------------------------------------------
(* What bronnect does to the counters.                                     *)

handle_bro_connection(c) ==
  /\ connections[c] = NoConn /\ stats.total < MaxTotal
  /\ connections' = [connections EXCEPT ![c] = [ip |-> 0, port |-> -1]]
  /\ stats' = [stats EXCEPT !.active = @ + 1, !.total = @ + 1]
  /\ UNCHANGED <<last, log, port_list, port_list_len, chart, aborted>>

\* The INIT record names the client and the port of the key it used.
InitRecord(c, ip, p) ==
  /\ connections[c] = [ip |-> 0, port |-> -1]
  /\ connections' = [connections EXCEPT ![c] = [ip |-> ip, port |-> p]]
  /\ UNCHANGED <<stats, last, log, port_list, port_list_len, chart, aborted>>

Forwards(dir) ==
  /\ \E c \in Active : connections[c].ip # 0
  /\ stats[dir] < MaxBytes
  /\ stats' = [stats EXCEPT ![dir] = @ + 1]
  /\ UNCHANGED <<connections, last, log, port_list, port_list_len, chart, aborted>>

cleanup_connection_after_ssl_Twice(c) ==
  /\ connections[c] # NoConn
  /\ connections' = [connections EXCEPT ![c] = NoConn]
  /\ stats' = [stats EXCEPT !.active = @ - 2]
  /\ UNCHANGED <<last, log, port_list, port_list_len, chart, aborted>>
cleanup_connection_after_ssl(c) ==
  /\ connections[c] # NoConn
  /\ connections' = [connections EXCEPT ![c] = NoConn]
  /\ stats' = [stats EXCEPT !.active = @ - 1]
  /\ UNCHANGED <<last, log, port_list, port_list_len, chart, aborted>>

-----------------------------------------------------------------------------
(* httpd_log.                                                              *)

Clients(C) == {connections[c].ip : c \in C}

\* update_port_usage of every connection, then the sort by port.
Of(p) == {c \in Active : connections[c].port = p}
qsort(S) ==
  CHOOSE s \in [1..Cardinality(S) -> S] : \A i, j \in 1..Cardinality(S) : i < j => s[i] < s[j]
port_stats_ByClient ==
  LET ports == qsort({connections[c].port : c \in Active})
  IN [i \in DOMAIN ports |-> [port |-> ports[i], users |-> Cardinality(Clients(Of(ports[i]))),
                              connections |-> Cardinality(Clients(Of(ports[i])))]]
port_stats ==
  LET ports == qsort({connections[c].port : c \in Active})
  IN [i \in DOMAIN ports |-> [port |-> ports[i], users |-> Cardinality(Clients(Of(ports[i]))),
                              connections |-> Cardinality(Of(ports[i]))]]

Line ==
  [up |-> stats.up - last.up, down |-> stats.down - last.down,
   tot_up |-> stats.up, tot_down |-> stats.down,
   num |-> Cardinality(Active), clients |-> Cardinality(Clients(Active)),
   active |-> stats.active, total |-> stats.total, ports |-> port_stats]

httpd_log_KeepDown ==
  /\ Len(log) < MaxLines
  /\ log' = Append(log, Line)
  /\ last' = [last EXCEPT !.up = stats.up]
  /\ UNCHANGED <<connections, stats, port_list, port_list_len, chart, aborted>>
httpd_log ==
  /\ Len(log) < MaxLines
  /\ log' = Append(log, Line)
  /\ last' = [up |-> stats.up, down |-> stats.down]
  /\ UNCHANGED <<connections, stats, port_list, port_list_len, chart, aborted>>

-----------------------------------------------------------------------------
(* The charts by port.                                                     *)

\* The loops of httpd_log_fmt_port over the ports of a line, i, and the columns,
\* k (i + added in the code).  Every turn of either loop takes the next column.
\* The inner loop may look at the one after the last.
Turn_NoSkip(l, ps, list, len, k) ==
  CASE l.at = "end" \/ (l.at = "for" /\ ~(l.i < Len(ps) /\ k < len)) -> [l EXCEPT !.at = "end"]
    [] OTHER ->
         [i |-> l.i + 1, at |-> "for",
          row |-> IF ps[l.i + 1].port = list[k] THEN Append(l.row, ps[l.i + 1].users) ELSE l.row]
Turn(l, ps, list, len, k) ==
  CASE l.at = "end" \/ (l.at = "for" /\ ~(l.i < Len(ps) /\ k < len)) -> [l EXCEPT !.at = "end"]
    [] OTHER ->
         IF ps[l.i + 1].port > list[k]
         THEN [i |-> l.i, at |-> IF k + 1 > len THEN "end" ELSE "while", row |-> Append(l.row, 0)]
         ELSE [i |-> l.i + 1, at |-> "for",
               row |-> IF ps[l.i + 1].port = list[k] THEN Append(l.row, ps[l.i + 1].users) ELSE l.row]

httpd_log_fmt_port(line, list, len) ==
  LET loop[k \in 0..(len + 1)] ==
        IF k = 0 THEN [i |-> 0, at |-> "for", row |-> <<>>]
        ELSE Turn(loop[k - 1], line.ports, list, len, k - 1)
  IN [ports |-> line.ports, row |-> loop[len + 1].row]

\* httpd_log_to_js: every e-th line becomes a row.
httpd_log_to_js(e, list, len) ==
  [i \in 1..Len(log) \div e |-> httpd_log_fmt_port(log[i * e], list, len)]

\* httpd_port_users_handler: set_port_list, then the rows.  An empty log
\* leaves set_port_list with an uninitialized line; it is not asked for here.
httpd_port_users_handler(e) ==
  /\ log # <<>>
  /\ LET ps == log[Len(log)].ports
         list == [i \in 0..MAX_PORTS |-> IF i < Len(ps) THEN ps[i + 1].port ELSE port_list[i]]
     IN IF Len(ps) >= MAX_PORTS
        THEN aborted' = TRUE /\ UNCHANGED <<port_list, port_list_len, chart>>
        ELSE /\ port_list' = list /\ port_list_len' = Len(ps)
             /\ chart' = httpd_log_to_js(e, list, Len(ps))
             /\ UNCHANGED aborted
  /\ UNCHANGED <<connections, stats, last, log>>

Next ==
  /\ ~aborted
  /\ \/ \E c \in Conns : \/ handle_bro_connection(c)
                         \/ \E ip \in Ips, p \in Ports : InitRecord(c, ip, p)
                         \/ cleanup_connection_after_ssl(c)
     \/ \E d \in {"up", "down"} : Forwards(d)
     \/ httpd_log
     \/ \E e \in 1..2 : httpd_port_users_handler(e)

Spec == Init /\ [][Next]_vars

-----------------------------------------------------------------------------
(* Properties.                                                             *)

\* Every variable has its type; columns never outgrow port_list.
TypeOK ==
  /\ connections \in [Conns -> [ip : Ips \cup {0}, port : Ports \cup {-1}] \cup {NoConn}]
  /\ stats \in [up : 0..MaxBytes, down : 0..MaxBytes, active : 0..MaxTotal, total : 0..MaxTotal]
  /\ port_list_len \in 0..MAX_PORTS - 1
  /\ \A i \in 0..MAX_PORTS : port_list[i] \in Ports \cup {0, -1}

SumOf(s) ==
  LET upto[i \in 0..Len(s)] == IF i = 0 THEN 0 ELSE upto[i - 1] + s[i]
  IN upto[Len(s)]

\* The intervals of the log (since_last_up, since_last_down) cover all that
\* was ever relayed, once: they add up to the totals of the last line.
IntervalsAddUp ==
  log # <<>> => /\ SumOf([i \in DOMAIN log |-> log[i].up]) = log[Len(log)].tot_up
                /\ SumOf([i \in DOMAIN log |-> log[i].down]) = log[Len(log)].tot_down

Agrees(l) ==
  /\ l.num = SumOf([i \in DOMAIN l.ports |-> l.ports[i].connections])
  /\ l.num = l.active
  /\ \A i \in DOMAIN l.ports : l.ports[i].users <= l.clients /\ l.ports[i].users <= l.ports[i].connections

\* A line agrees with itself: the connections by port are all connections,
\* those bronnect counts as active, and no port has more users than there
\* are clients.
LinesConsistent == \A n \in DOMAIN log : Agrees(log[n])

Value(ps, port) == LET at == {i \in DOMAIN ps : ps[i].port = port}
                   IN IF at = {} THEN 0 ELSE ps[CHOOSE i \in at : TRUE].users
Aligned(r, list, len, c) ==
  /\ c = len => Len(r.row) <= len
  /\ \A j \in 1..c : (IF j <= Len(r.row) THEN r.row[j] ELSE 0) = Value(r.ports, list[j - 1])
Known(ps, list, len, c) ==
  \A i \in DOMAIN ps : c = len \/ ps[i].port < list[c] => \E j \in 0..(c - 1) : ps[i].port = list[j]

\* A row is laid out right up to its first port that has no column, and where
\* it ends early what is missing is zero, however the ports of the line and
\* of the columns differ otherwise.  A row whose ports all have a column is
\* right as a whole, and no longer than the columns.  (A port without a column
\* takes one, so what comes after it is one column too far left.)
KnownPortsAligned ==
  \A n \in DOMAIN chart : \A c \in 0..port_list_len :
    Known(chart[n].ports, port_list, port_list_len, c) => Aligned(chart[n], port_list, port_list_len, c)
=============================================================================
