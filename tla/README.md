# Telex in TLA+

Telex is an anticensorship proxy that lives in the network.  A client marks its
TLS handshake with a hidden tag; an ISP router copies traffic to a *station*; the
station recognises the tag, has the router stop forwarding the flow, carries the
handshake on by hand, and then answers the client in the server's name while
relaying to a proxy service.  This directory models the programs of the
repository that decide who owns a flow, when, and what is left behind when
something fails.

## The system

Paths are relative to `src/telex-station/` unless they start with `src/`.

| part | source | state | operations |
|---|---|---|---|
| detector | `station/brohome/site/telex-ssl.bro`, the `telex_*` functions of `station/bro-1.5.1/src/bro.bif` | `telex_table`: per flow a state 1..7, a forwarding flag, the DH fields collected so far, a socket to bronnect | tag check, block, forward by hand, INIT, hand-over, alert, expiry, removal, exit |
| brotocol | `bro.bif`, `station/net/bronnect.h` | one unix socket per tagged flow | connect, INIT record, RAW_PKT record, close |
| bronnect | `station/net/bronnect.c`, `watchdog.c` | one `ConnectionState` per hand-over (three sockets, SSL object, five events and a timeout, readiness flags, state 0..6), hash table, counters | accept, INIT and RAW_PKT records, end of file, four socket callbacks, connect completion, watchdog, three-stage cleanup |
| block protocol | `station/net/telex_block_flow.c` | one TCP connection per controller (Bro, bronnect) | connect, send a 13-byte command |
| flow blocker | `router/flow-blocker/flow_blocker.c`, `telex_ipset.c`, `common/libaddipportip.c`, `router.sh` | the kernel's ipset `OURSET`, one pending timer per command, one event per connection | accept, read a command, timer, SIGINT, restart |
| TLS by hand | `station/net/ssl_api.c` | an SSL object built in mid-connection | derive keys, set the state |
| forged socket | `station/linuxmod/tcp_sk_forge.c` | kernel sockets | make an established socket from given numbers |
| packets by hand | `common/telex_tcp.c` | none | forward, reset, checksums |
| statistics page | `station/net/httpd.c` | a log of lines, the columns of the last chart | a line at every interval, a chart on request |
| client tunnel | `src/telex-client/proxy.c`, `state.h` | two buffered sockets per tunnel, resource counters | accept, resolve, read, pause, drain, end of file, error |
| client set-up | `src/telex-client/listener.c`, `ssl.c`, `client.c` | listener, SSL context | start |
| tag | `src/tag/tag.c`, `station/tag/tag.c`, `ptwist168` | none | make and check a tag |

How they interact: Bro gets a copy of every packet on port 443, whatever the
router blocks.  A tagged ClientHello makes Bro send a *block* command on its TCP
connection to the flow blocker and open a unix socket to bronnect.  From then on
Bro forwards the packets of the flow itself.  When both Finished messages are
there it sends INIT to bronnect, then the packet with the server's Finished
message as RAW_PKT, closes the socket and forgets the flow.  bronnect connects
to the service on INIT, forges the client's socket on RAW_PKT, relays, and when
the connection ends sends the *unblock* command on a TCP connection of its own.

What is hard to get right: Bro's handlers for one packet each see the table in
the state the earlier ones left; packets may be missing from the copy; the packet
that finishes the handshake may have been caught before the block took effect;
conn_ids are reused; bronnect's callbacks free the record other callbacks are
registered with; its SSL shutdown may have to wait in the middle of a cleanup;
Bro and bronnect command the flow blocker on two connections that nothing orders;
client, server, router, Bro and bronnect take turns at one pair of TCP streams;
the flow blocker's only thread waits inside `recv`, its timers are never
cancelled, and the ipset outlives the process.  What must hold in spite of it:
no flow stays blocked without someone who will unblock it; no socket, event,
timer or record is forgotten or used after its end; no byte is lost, repeated or
out of place on its way; nothing waits for ever.

## The modules

| module | what it is |
|---|---|
| `Bronnect` | bronnect with its watchdog, and Bro as the peer of its unix sockets |
| `BronnectProofs` | theorems about `Bronnect` |
| `FlowBlocker` | the flow blocker, its timers and ipset, the controllers' side of the block protocol, `router.sh` |
| `FlowBlockerProofs` | theorems about `FlowBlocker` |
| `Brotocol` | abstract: what Bro promises on the sockets to bronnect |
| `Detector` | Bro with `telex-ssl.bro`, fed by the packets of TLS connections |
| `DetectorProofs` | theorems about `Detector`, that it implements `Brotocol` among them |
| `Station`, `StationProofs` | Bro, bronnect and the flow blocker together, on one conn_id that is used again, and theorems about them |
| `HandOver` | the two TCP streams of one flow, from the router's hands to Bro's to bronnect's |
| `Forwarding`, `ForwardingProofs` | the bytes that one connection of bronnect relays, and theorems about them |
| `ForgedSocket` | the ioctl that makes an established socket |
| `SocketProofs` | theorems about `HandOver` and `ForgedSocket` |
| `Stats` | the statistics of bronnect: lines and charts |
| `Checksum` | the checksum of packets made by hand |
| `ArithmeticProofs` | theorems about `Stats` and `Checksum` |
| `Relay` | abstract: what a tunnel of telex-client promises |
| `Tunnel` | a tunnel of telex-client |
| `TunnelProofs` | theorems about `Tunnel`, that it implements `Relay` among them |
| `MC...` | the instances TLC checks |

Operators whose names continue the name of a definition (`do_expire_NoUnblock`,
`main_KeepSet`, ...) are faulty variants of it.  They are part of no
specification; each is there to be put in place of the original, and then breaks
the property it belongs to.

### Bronnect

`st[c]` is the `ConnectionState` of connection `c`, with two sets for the events:
`alloc` (the pointer is not NULL) and `added` (registered with libevent).  There
is one action per libevent callback: `handle_bro_connection`, `on_telex_read`
(with the cases end of file, INIT and RAW_PKT), `on_read_ready` and
`on_write_ready` for either side, `on_finish_connect`, `on_watchdog`.  The cleanup
functions are operators on the record, so that a callback that calls them and goes
on with the record does so in the model too: the callback's result is one step,
as libevent runs callbacks one at a time.  Calls with several outcomes
(`SSL_read`, `SSL_shutdown`, `recv`, `sendall`, connect) take any of those the
code tells apart.  The bytes relayed are left out.

`on_read_ready` calls `pet_watchdog` after `try_to_forward`, which may have freed
the record.  The model pets first.  Nothing else in the callback looks at the
timeout, and when the record is freed its timeout is deleted with it, so the two
orders differ only in the read of freed memory, which has no modelled outcome.

### FlowBlocker

A command is read by `on_read_ready`, in the cases of `recv` with `MSG_WAITALL`:
whole command, nothing (end of file), short result (end of file inside a
command), and the wait in the middle of a command, during which nothing else
runs (`reading`).  Every command, block or unblock, arms a timer; `unblock_flow` is
its callback.  Time is counted in steps of `TICK` seconds.  `Key` is the ipset
element of a flow: it has no destination port, so two flows can share one (Bro's
own flows all go to port 443; the ones of other controllers need not).
`handle_sigint` ends the process and its timers and leaves the ipset; `main` is
the restart by `router.sh`, which makes a new one.

### Detector and Brotocol

`table` is `telex_table`.  A packet puts the events it raises into `queue`, in the
order of Bro's analyzers: `ssl_record` and then the parsed event of every record,
at last `new_packet_final`.  `Handle` runs one handler.  Inputs are what the two
TLS peers may send given what the other has sent, up to two records in a packet;
packets without records, alerts and repeated ClientHellos; packets missing from
the copy (`Missed`: Bro's TLS parser goes on after the gap, and `gap` notes the
flow); the end of the TCP
connection and the reuse of its id.  `past` stands for the comparison of
`network_time()` and `fwd_time`.  The four DH fields that INIT is built from are
booleans, set or not.  bronnect is one action, `BronnectEnds`, with what
`Bronnect` shows of it: the flow is unblocked when its connection ends, except
when the service could not be connected to.  The commands to the flow blocker are
taken as carried out; `Exit` is Bro's `exit(1)` when it cannot send one.

`Brotocol` says what bronnect may rely on: on each socket INIT at most once, after
it RAW_PKT at most once and together with the close, nothing after the close.
`Detector` implements it (`BrotocolFollowed`), where a socket that could not be
connected counts as one that bronnect never sees.

### Station

Each program is cut down to what it does to the block of a flow; the detail is in
the module of its own.  `chan` holds the commands of Bro and of bronnect that the
flow blocker has not read, `link` whether a controller knows that its connection is
gone (Bro reconnects or exits, bronnect does neither), `sock` and `bn` the unix
socket and the connection of each use.  Every command arms a timer, whose callback
unblocks whatever use is blocked by then.  `blocked` is the use whose block has put
the flow into the ipset, or 0, and `why` a history variable: it notes
for each use what has happened that takes its block away or leaves it behind, so
that the two invariants can name every way in which the ownership of a block fails,
and no other.  What happened to one use excuses no other: a block left behind has to
be explained by the use that it belongs to (`Excused`).

### HandOver

Either stream is counted in bytes, from the tagged ClientHello on.  It has three records
(key exchange with all before it, ChangeCipherSpec, Finished), which end at the positions
of `ClientEnds` and `ServerEnds`; the server's stream goes on with what bronnect writes.
Packets are ranges of bytes, any that `ClientSegments` and `ServerSegments` allow: a record
may be cut, and several may share a packet.  They may be lost, repeated and reordered.
The router carries them unless the flow
is blocked (`blocked`, with the command on its way in `cmds`), Bro carries them by
hand (`Forwards`, with `late` for the comparison of `network_time()` and `fwd_time`),
and Bro's reassembler delivers in order what it has seen: the packet that completes a
record runs its handler (`BlockInserted`).  At the hand-over the
server is reset, and bronnect's forged socket gets the numbers Bro noted
(`ssl_handshake`, `telex_send_init_data`) and sends the raw packet.  Bro's copy of
the packets is complete here and forging succeeds: `Detector` has missing packets,
`Bronnect` has failures.

### Forwarding

One connection in the relay, with the bytes that `Bronnect` leaves out: records, the
part of a record that `SSL_read` leaves in the SSL object, the record that
`SSL_write` has not sent whole, the send buffer of the service's socket.  `SSL_write`
is modelled from OpenSSL's contract and the way the code calls it, with an address
on the stack that may or may not be the same as in the last call.

### ForgedSocket

One action for each step of the ioctl that a packet can come between: `lock_sock`,
cloning, `local_bh_disable`, hashing, `local_bh_enable`, `sock_graft`,
`bh_unlock_sock`, `sock_put`, and the error exits.  `child` is the forged sock with its
reference count and spinlock.  A softirq interrupts the task of its CPU, and spins
while the lock of the child is held.  A packet that finds the lock free may be a RST,
which takes the child out of the hash table (`tcp_reset`).

### Stats

`httpd_log` appends a line, with the connections counted by key port; a chart takes
its columns from the last line into the globals `port_list` and `port_list_len` and
lays older lines out on them.  `Turn` is one turn of the two nested loops that do so, and
`httpd_log_fmt_port` takes turns until they end.

### Checksum

`csum` of `telex_tcp.c` as a loop over words of `Base` values (65536 in the code), a
sum of two words' width (`sum`), and two folds; the reference, `ref`, is one's
complement addition with the carry brought back at each word.  `MaxWords` bounds the words, at most as many as
the sum has room for.

### Tunnel and Relay

`bev` has the two bufferevents of a tunnel with their buffers, registered callbacks,
low watermark and pending marks, and the output of `remotetcp` under the SSL filter.
Callbacks are deferred, so input, output and events set marks and the loop runs them
later, in libevent's order, with the callback that is registered by then.  The
callbacks are operators on `bev`; `StateCleanup` is reached from every error path with
the pointers and counters as they are there.  `Relay` is what the two peers may rely
on: bytes in order and none twice, and an end without error only when one stream has
ended and has been handed on.  In the refinement a byte for the server is handed on
when the SSL filter takes it (`handed`); what the filter took may still be lost (see below).

## The runs

| run | instance | result |
|---|---|---|
| `bronnect` | 2 connections, 2 flows | `EventsFollowReadiness`, `NoDanglingEvents`, `ConnectionsCounted`, `TelexClosedBeforeRelay`, `RecordKeptForCaller`, `TeardownUnblocks` |
| `bronnect_live` | 1 connection | `InitOrReclaimed`, `ShutdownCompletes` |
| `flowblocker` | 2 controllers, 2 flows with one ipset element, 2 timers, clock steps of 15 hours | `BlockHasTimer`, `NeverOverdue`, `BlockExpires` |
| `detector` | 1 flow in two sessions, 2 sockets, 1 extra packet a session | `SocketsTracked`, `BlockOwned`, `CrashNeedsGap`, `TrackingEnds`, the refinement `BrotocolFollowed` |
| `station` | 2 uses of a conn_id, 2 commands in a channel, 4 timers, 1 death of the flow blocker | `RelayedIsBlocked`, `DoneIsUnblocked`: every way in which a relayed flow is not blocked, or the block of a use outlasts it; `FinallyUnblocked` |
| `handover` | five packets of the client's flight, ChangeCipherSpec and Finished of the server in one packet, the first of them perhaps before that on its own | `StreamIntact`, `FlightArrives`, `HandOverCompletes` |
| `handover_split` | ChangeCipherSpec and Finished in two packets | `RawPacketInPlace` is violated, see below |
| `forwarding` | 4 bytes each way, a buffer of 2, records up to 3, a send buffer of 2 | `UpIntact`, `DownInOrder`, `QuietMeansForwarded`, `EndIsLast` |
| `forge` | 2 tasks on 2 CPUs | `RefsAccounted`, `ForgeEnds` |
| `stats` | 3 connections, 2 ports and the -1 of a connection without INIT, a `port_list` of 3, 2 clients, 2 lines | `IntervalsAddUp`, `LinesConsistent`, `KnownPortsAligned` |
| `checksum` | words of 16 values, 17 words | `CsumIsReference` |
| `tunnel` | 3 bytes from each side, output buffers of 2 | the refinement `RelayImplemented`, `CountersCount`, `PausedHasWaker`, `BytesArrive`, `EofCloses` |

`forwarding`, `stats` and `handover` check the types of their modules (`TypeOK`) as well.
The inductive invariants (`IInv`, `ForgeInv`, `CsumInv`, `CopyInv`, `StreamsKept`, and `HInv`,
`PlaceInv` and `SInv` of the proof modules) and the invariants that are
conjuncts of them (`RelayHasSSL`, `NoPhantomBlock`, `StateFollowsRecords`,
`ReadOnlyWithRoom`, `FinishHasWaker`, `SuccessLeavesNoLock`, `FailureLeavesNoWay`) are
proved and not in a run.

Why the bounds are enough.  Connections of bronnect share only the hash table and
the counter, so two show every interaction; liveness is about one at a time.  In the
flow blocker two commands of different controllers for one element give every order
of block, unblock and stale timer, and what holds of more timers is proved; a clock step of half of FLOW_TIMEOUT
separates young timers from old; `held` stops counting one step past the timeout;
`MaxStream` bounds the commands in flight on a connection.  Flows meet in Bro only
in the queue, which holds one packet, so one flow suffices, but its id is used
twice: sockets and unblocks of the first session reach into the second.
`MaxPackets` bounds packets that carry no new record.  In `Station` two uses make
commands of one reach the block of the other, two commands in a channel let one
overtake another on the other channel, four timers are one for each block and
unblock, and one death comes at any point.  In `HandOver` the server's records end at bytes 2, 3
and 4 and the client's at 1, 2 and 4, so that packets cut a record, end with one and hold
several; other lengths and packets are proved.  In `Forwarding` a record longer than the
buffer leaves bytes in the SSL object, and four bytes are two buffers, so that a
record that was not sent whole meets another buffer.  In `ForgedSocket` a second task
is a second CPU, on which packets for the first child arrive.  Two lines of the log
can have different ports, and three connections let a port disappear and another
appear between them, or have as many ports as `port_list` has places, which ends
bronnect (`set_port_list`).  In `Tunnel` one byte more than an output buffer holds
makes the source pause and drain again.  With `Base = 16` the 17 words of `checksum`
take the sum to its last value.  All of these systems may stop (a connection is
used once, peers send finitely many bytes, Bro may exit, a kernel task may hang):
deadlock is not checked there.  The flow blocker's runs check it.

Fairness.  `Bronnect`: libevent dispatches an event that stays ready, and an armed
watchdog fires once the connection is quiet for its timeout.  `FlowBlocker`: the
clock goes on; a due timer and a readable connection are looked at in every pass
of the loop, so being ready again and again is enough (strong fairness); a peer's
kernel delivers the rest of a command or the connection breaks.  `Detector`: Bro
handles the events it has queued; an entry expires when no packet refreshes it,
which is the case in the end as the model's peers send finitely many packets.
`Station`: the flow blocker serves its sockets and timers, and somebody runs
`router.sh` again after it has died; nothing is assumed of Bro and bronnect.
`HandOver`: the TCP stacks of client, server and bronnect send again what is not
acknowledged, and a packet that is sent again and again gets through (strong
fairness); the flow blocker applies commands and time passes.  Nothing is assumed of
losses, which are steps without fairness.  `ForgedSocket`: a CPU runs its softirq, or
else its task.  `Tunnel`: the loop runs every deferred callback and serves every
socket that is ready; resolution and handshake come to an end.  Nothing is assumed of
what the peers send.

### Where the code does not do what its comments say

`handover_split` is a finding with a run of its own.  Bro notes the server's sequence
number at the client's Finished message (`telex-ssl.bro:221-226`); when the server's
ChangeCipherSpec comes in a packet of its own, that packet moves the number on, and
bronnect sends the Finished message at the number of the ChangeCipherSpec.

The other deviations are exceptions that the checked properties name: the property
holds with the exception and TLC refutes it without.

* `ShutdownCompletes` asks for an armed watchdog.  A shutdown that has to wait may wait
  for an event that is not registered, and when the one-shot watchdog has fired by
  then the connection is never freed (`bronnect.h:52`, `watchdog.c:26`).
* `TeardownUnblocks` is about a known flow.  When the service connect fails, the flow
  that INIT names is not stored yet and bronnect unblocks the all-zero one
  (`bronnect.c:497`); in `Station` this is the reason `unknown` of `DoneIsUnblocked`, which
  counts only for a use that Bro has handed over: until then Bro unblocks it itself.
* `BlockOwned` leaves out `orphans`, and `DoneIsUnblocked` has the reason `alert`:
  `ssl_conn_alert` gives up a flow in any state and leaves it blocked
  (`telex-ssl.bro:38`, `bro.init:199-200`).
* `CrashNeedsGap`: INIT is built in state 4 whether or not its fields are set
  (`telex-ssl.bro:244`); with a packet missing from the copy one may not be.
* `DownInOrder`, `QuietMeansForwarded` and `EndIsLast` allow for lost bytes once `SSL_write`
  has returned SSL_ERROR_WANT_WRITE: the buffer is dropped and the next one is offered in
  its place (`bronnect.c:161-168`).  `QuietMeansForwarded` also allows for bytes that wait
  in the SSL object until the client sends more (`bronnect.c:89`), but only for the rest of
  one record that is longer than the buffer.
* `ForgeEnds` names a close that hangs on a lock left behind (`tcp_sk_forge.c:276`) and
  CPUs that spin for the lock of a child that packets can find too early (`:290`);
  `MakersRefs` has the reference that is never dropped when a port cannot be
  inherited (`:283`).
* `KnownPortsAligned` is about a row up to its first port without a column; the values
  after it are shifted (`httpd.c:354`).  A chart asked for when `port_list` is too
  short ends bronnect with an assertion (`httpd.c:294`).
* In `RelayImplemented` a byte counts as handed on when the SSL filter has taken it.
  At the end of the browser's stream what has gone on to the socket below is freed
  with it (`proxy.c:317-321`).  `BytesArrive` and `EofCloses` have `ErrorsSwallowed`.
* FLOW_TIMEOUT, which `NeverOverdue` is about, is 30 hours and not the 30 minutes of the
  comment (`flow_blocker.c:33`).
* Not in a property: when the first bufferevent of a tunnel cannot be made, nothing
  closes the accepted socket, which no counter counts (`proxy.c:181`), and sockets that cannot be connected to
  bronnect are not closed (`bro.bif:3376`; phase `leaked` in `Detector`).

## What is proved

The theorems hold for every value of the constants under the named assumptions.

`BronnectProofs` (from `BronnectAssumption`: finitely many connections, the zero
flow is no real one).  `Invariance` proves `IInv`, which adds to the types what each
record satisfies in the middle of a handler (`RelayInv`), between handlers
(`StageInv`) and after its end (`FreedInv`), and that INIT is the first record of a
socket (`PipeInv`).  The checked invariants are not inductive without it: that no
event of a freed record stays registered needs that registration follows the
readiness flags, because `cleanup_connection_after_ssl` looks at the flags; that
`setup_fake_socket` never frees its caller's record needs that INIT is read only
in state 0, so that the SSL object is new.  Every handler is shown to end in one of
two ways, keeping its connection (`Kept`) or ending it (`Ended`), and everything
follows from those two; `EventsFollowReadinessHolds`, `NoDanglingEventsHolds`,
`ConnectionsCountedHolds`, `TelexClosedBeforeRelayHolds`, `RelayHasSSLHolds` and
`RecordKeptForCallerHolds` are its consequences, `TeardownUnblocksHolds` is the
action property.

`FlowBlockerProofs` (from `FlowsAssumption`, `TickAssumption`, `NamesAssumption`).
`Invariance` proves `IInv`: `BlockHasTimer` and `NoPhantomBlock`, strengthened by what
holds of unread streams (`WholeCommandsAsked`) and of the wait in `recv`
(`WaitsOnOpenConnection`).  The core is that a command that puts an element into
the ipset arms a timer with `left + held <= Timeout`, that the clock keeps the sum
until the timer is due, and that only a timer's own callback frees it, after it has
removed its element.  `NeverOverdueHolds` follows.

`DetectorProofs` (from `NoneAssumption`, `EntryAssumption`, `BoundsAssumption`).
`DetectorInvariance` proves `IInv`: `SocketsTracked`, `StateFollowsRecords` and `BlockOwned`
with three facts they need.  An entry's socket is open and belongs to its flow
(`OwnSocket`), so that closing one takes no socket away from another flow; sockets
not yet connected have no records and no end (`FreshSockets`); and when bronnect has
ended a connection that Bro is about to hand over, the flow is no longer blocked or
is given up (`EndedBeforeHandOver`), so that nobody is owed an unblock when
`new_packet_final` then forgets it.  The handlers change the state in few ways, each
an effect with a lemma of its own (the entry is kept, it expires, it is given up, the
flow is told to bronnect, handed over, a new one is started), and an action is shown
to be one of these.  `BrotocolFollowedHolds` is the refinement, `Spec => Peer!Spec`: each
effect is a step of `Brotocol` or leaves its sockets alone.

`CrashNeedsGapHolds` needs an invariant of its own, `CopyInv` (`CopyInvariance`), as it is
about what the handlers have not seen yet.  A field that INIT needs is set by one
handler and used by another, and records may share a packet, so `CopyInv` relates the
entry to what the two TLS peers have sent: the fields of all their records are there,
but for those whose events are still in `queue` (`EntryFollowsPeers`), and what may be in
the queue together, and in which order, is `QueueShape` and `QueueFollowsPeers`.  When
`ssl_handshake` finds state 4 the server has sent its ChangeCipherSpec, so the client's
Finished message has been handled, and with it all that came before.  A flow in `gap`
is exempt; no other is, for any number of flows, sessions and packets.

`SocketProofs`, the hand-over (from `EndsAssumption`: records of any length;
`SegmentsAssumption`: any packets).  `HInvHolds` proves `HInv`, for every way to cut the
streams.  An entry holds numbers that were noted some packets ago, so the types alone are
not inductive: `EntryInv` says which records Bro has seen in which state and that the
numbers fit once the client's flight is complete, and `SeenInv` that the client sends its
flight only after the server's key exchange, and the server its last messages only after
that flight, so that Bro had seen nothing beyond these two points when it noted the
numbers.  It gives the types
(`HandOverTypeOK`), the numbers of the forged socket (`SocketNumbers`), that the block of
a flow handed over is never taken back (`HandedOverStaysBlocked`, from `CmdsInv`) and the
action property that a flow is handed over once (`HandedOverOnce`).  None of these depends
on how the streams are cut.  What does is where the raw packet belongs: `StreamIsIntact`
and `RawPacketIsInPlace` have the hypothesis `LastFlightTogether`, that no packet of the
server begins within its last two messages, and `PlaceInv` as their invariant.  The
instance of `handover` satisfies the hypothesis; that of `handover_split` does not, and
there TLC refutes the conclusion.

`SocketProofs`, the ioctl (from `TasksAssumption`).  `RefsAccounted`, `SuccessLeavesNoLock`
and `FailureLeavesNoWay` for any number of tasks, from `StepInv`: which of the locks, hash
entry and descriptors exist at which step.  It is needed because a packet takes and
drops a reference at any step at which the child is hashed; the count of waiting
packets is the cardinality of a set that grows and shrinks by one.

`ArithmeticProofs`, the statistics (from `StatsAssumption`; any connections, clients, ports,
lines and columns).  `SInvHolds` proves `SInv`: `active_connections` is the number of
connections in the table (`CountInv`); every line of the log agrees with itself and goes on
where the one before it ended, and `last` is where the last one did (`LogInv`); the columns
ascend and each row is some line of the log, laid out on the present columns (`ChartInv`).
`LogAddsUp`, `LinesAgree` and `RowsAligned` are about sums and loops, for every length, and
so need induction over data.  It is had from sets: a set of numbers that has 0, and with a
number the next, has all (`SetInduction`, as every set of numbers has a least one).  With
it a recursion has a solution (`Recursion`), a sum is any function that grows by its terms
(`SumIs`), and sorting a finite set gives a sequence that ascends and leaves nothing out
(`QsortIs`).  For a line, the function is the number of connections on the first ports,
which are disjoint sets.  For a row, `Laid` is the loops' invariant: the columns so far have
their values, the ports so far are among these columns and the others are above them,
until the first port without a column, from where on the row only grows;
`TurnLaid` shows that a turn keeps it.

`ArithmeticProofs`, the checksum (from `BaseAssumption` and `MaxWordsAssumption`, for every
word size).  `LoopInvariance` proves that the sum never wraps around, is congruent to the
reference modulo `Base - 1` and is zero exactly when the reference is; `CsumCorrect`
that after two folds it is the reference.  That two folds are enough, and that the
sum has room for any IP packet, is what the code relies on and does not say.

`StationProofs` (from `UsesAssumption`: any number of uses of the conn_id, of commands in
flight, timers and deaths).  `RelayedIsBlocked` and `DoneIsUnblocked` look at the flow at
one moment and say nothing of commands on their way, so neither is inductive.  `IInv`
adds who may still send which command (`UnblockedByOwner`: Bro unblocks only what it has
not handed over, bronnect only what is over; `UsesInOrder`), that a use is blocked from
Bro's entry on and not only in the relay (`ServedIsBlocked`), that a flow blocker that is
down has no connections (`DownIsCut`), and `BlockIsOwed`: a block in force has somebody who
will unblock this very use or an unblock of it on its way (`Owed`), and one on its way is
still somebody's or has the unblock behind it in Bro's own channel, the only one whose
order counts (`Followed`).  `StationInvariance` takes each action by what it does
to the channels: a command is put at the end, taken from the front, or all are lost.

`ForwardingProofs` (from `SizesAssumption`: every size of buffer, record and send buffer,
and any number of bytes).  The bytes of a direction are numbered, and `IInv` says how they
are spread: for the client's, received, in the socket to the service, in the SSL object
and in records follow each other without a gap (`UpStream`); for the service's, what the
client has and what waits in the SSL object are increasing and below what was taken, and
without a gap unless `SSL_write` had to wait (`DownStream`).  `FlagsHold` says that a flag
that is set is right, which `QuietMeansForwarded` and `EndIsLast` need, because the callbacks
go by the flags and not by the sockets; that what waits in the SSL object is the rest of
one record is `RecordsFit`, an invariant by itself.  `ForwardingTypes`, `UpIntactHolds`,
`DownInOrderHolds`, `QuietMeansForwardedHolds` and `EndIsLastHolds` are the results.

`TunnelProofs` (from `SizeAssumption`: every MAX_OUTPUT_BUFFER, any number of bytes).
`TunnelInvariance` proves `IInv`.  `CountersCount` needs which pointers exist in which phase
(`Resources`), as the error paths of an opening tunnel free what there is so far.
`ReadOnlyWithRoom`, `PausedHasWaker` and `FinishHasWaker` need each other, and three facts:
nothing is registered before the connection is up (`Quiet`); `drained_write_cb` is
registered only while its source is paused with nothing left in its input, and is due
only once the buffer has drained (`DrainPaused`); `close_on_finished_write_cb` is never
replaced, as its source has ended and nothing reads it again (`FinishFinal`).  As
callbacks run later with whatever is registered by then, every combination of a pending
mark and a callback has to be looked at, field by field.

`RelayImplementedHolds` is the refinement, `Spec => R!Spec`.  Its invariant is `StreamsKept`
(`StreamsKeptHolds`): while the tunnel lasts, what a side has sent is what its partner was
handed, then the partner's output buffer, then its own input buffer, then what is unread.
Every step moves bytes across one of these borders, which leaves the whole alone: this is
associativity of concatenation and the cutting of a sequence in two, proved first for
`Bytes`.  So what is handed on is always a beginning of what was sent, and a step is
`HandOn` of `Relay` or one it does not see.  For `Close` of `Relay` the invariant `FinishFinal`
comes in: when `close_on_finished_write_cb` finds its buffer empty, nothing of the stream
is in the other three places.

Only model-checked is liveness: `InitOrReclaimed`, `ShutdownCompletes`, `BlockExpires`,
`TrackingEnds`, `FinallyUnblocked`, `FlightArrives`, `HandOverCompletes`, `ForgeEnds`,
`BytesArrive` and `EofCloses`, as fairness and ENABLED are beyond the proof system used.
Every invariant and every action property of a passing run is proved, and so are both
refinements.

## What is not modelled

Of the lines under `src/` nearly all are not the programs of Telex: `station/bro-1.5.1`
is the Bro network monitor, of which Telex adds a few functions to `bro.bif`, a table
type to `bro.init` and a policy script; ipset and other libraries are copies; and one
directory is an older state of the station that nothing builds.  They are modelled
only where the Telex code depends on what they do (the order of events of a packet,
reassembly, the ipset as a set, libevent's deferred callbacks, OpenSSL's results).
The parts of Telex itself that are left out:

* The tag and its curve.  The client puzzle is compiled out (`PTWIST_PUZZLE_STRENGTH`
  is 0).  What is left is that two multiplications of a point by 168-bit numbers
  commute, and a hash: a model would have to assume what it should show.
* `ssl_api.c`: a straight line of assignments into OpenSSL's structures.  Whether they
  are the values TLS prescribes is a question about cryptography, not about states.
* In `telex_tcp.c`, filling in headers, and the path for long payloads, which no caller
  takes; the extrapolation of TCP timestamps from two packets.
* In the detector, the TCP options and windows it collects on the way.
* In the flow blocker, an ipset command that fails on an element it should change
  (`libaddipportip.c:95-98`).
* In the statistics, the charts without ports, HTML and the HTTP server, and the cut of a
  line at MAX_HTTPD_LINE_SIZE (`httpd.c:532`, `:555`), which has room for about 20 ports.
* Setting up listener and SSL context in telex-client, and all logging.
