------------------------------- MODULE Tunnel -------------------------------
(***************************************************************************)
(* A tunnel of telex-client (telex-client/proxy.c, state.h): a browser     *)
(* that has connected to the local port, and the TLS connection to the     *)
(* unblocked server that carries its bytes.  Each is a bufferevent of      *)
(* libevent: an input and an output buffer, callbacks, a switch for        *)
(* reading and a low watermark below which the write callback runs.  The   *)
(* remote one is an SSL filter on top of a third, remotetcp: what leaves   *)
(* its output buffer enters the output buffer of remotetcp, encrypted.     *)
(*                                                                         *)
(* Callbacks are deferred (BEV_OPT_DEFER_CALLBACKS): input and output set  *)
(* a mark in `pend', and the loop later runs the callback that is          *)
(* registered then: reads first, then writes, then events.                 *)
(***************************************************************************)
EXTENDS Naturals, Sequences

CONSTANTS
  MAX_OUTPUT_BUFFER,  \* bytes in an output buffer at which its source pauses
  MaxBytes            \* bound on the bytes a side sends

ASSUME SizeAssumption == MAX_OUTPUT_BUFFER \in Nat \ {0} /\ MaxBytes \in Nat

Sides      == {"local", "remote"}
Partner(s) == IF s = "local" THEN "remote" ELSE "local"

VARIABLES
  phase,  \* "none", "resolving", "handshake", "open" or "closed"
  objs,   \* pointers of telex_state that are not NULL
  refs,   \* the resource counters __ref_STATE, __ref_BEV and __ref_SSL
  bev,    \* the two bufferevents
  net,    \* bytes of a side that the tunnel has not read yet
  sent, fin, got,  \* as in Relay; got: written to a side's socket
  end,    \* history: how the tunnel ended
  lost    \* history: what was freed with the output buffer of remotetcp

streams == <<sent, fin>>
ending  == <<end, lost>>
vars    == <<phase, objs, refs, bev, net, sent, fin, got, end, lost>>

\* tcp is the output buffer of remotetcp, below the filter.
Bev ==
  [in : Seq(Nat), out : Seq(Nat), tcp : Seq(Nat), on : BOOLEAN, dead : BOOLEAN,
   low : Nat, readcb : {"none", "read_cb"},
   writecb : {"none", "drained_write_cb", "close_on_finished_write_cb"},
   pend : SUBSET {"connected", "read", "write", "eof", "error"}]

NewBev ==
  [in |-> <<>>, out |-> <<>>, tcp |-> <<>>, on |-> FALSE, dead |-> FALSE,
   low |-> 0, readcb |-> "none", writecb |-> "none", pend |-> {}]

Init ==
  /\ phase = "none"
  /\ objs = {}
  /\ refs = [state |-> 0, bev |-> 0, ssl |-> 0]
  /\ bev = [s \in Sides |-> NewBev]
  /\ net = [s \in Sides |-> <<>>]
  /\ sent = [s \in Sides |-> <<>>]
  /\ fin = [s \in Sides |-> FALSE]
  /\ got = [s \in Sides |-> <<>>]
  /\ end = "no"
  /\ lost = <<>>

-----------------------------------------------------------------------------
(* Opening and closing.                                                    *)

\* The bufferevents and SSL objects among the pointers o.
Held(o, p) == IF p \in o THEN 1 ELSE 0
BevsOf(o) == Held(o, "local") + Held(o, "remote") + Held(o, "remotetcp")
SslsOf(o) == Held(o, "ssl")

\* Everything is freed, with what the buffers hold.  b, o and r are the
\* bufferevents, pointers and counters as they are when StateCleanup is called.
StateCleanup_KeepTcp(b, o, r, why) ==
  /\ phase' = "closed"
  /\ objs' = o \cap {"remotetcp"}
  /\ refs' = [state |-> r.state - 1,
              bev   |-> r.bev - Held(o, "local") - Held(o, "remote"),
              ssl   |-> r.ssl - SslsOf(o)]
  /\ bev' = [s \in Sides |-> NewBev]
  /\ end' = why
  /\ lost' = b["remote"].tcp
StateCleanup(b, o, r, why) ==
  /\ phase' = "closed"
  /\ objs' = {}
  /\ refs' = [state |-> r.state - 1,
              bev   |-> r.bev - BevsOf(o),
              ssl   |-> r.ssl - SslsOf(o)]
  /\ bev' = [s \in Sides |-> NewBev]
  /\ end' = why
  /\ lost' = b["remote"].tcp

\* The tunnel goes on in phase p with pointers o and counters r.
Proceed(p, o, r) ==
  /\ phase' = p
  /\ objs' = o
  /\ refs' = r
  /\ UNCHANGED ending

\* A browser connects.  Either bufferevent may fail to be made; otherwise the
\* lookup of the server's name is under way.
proxy_accept_cb ==
  /\ phase = "none"
  /\ \/ StateCleanup(bev, {}, [refs EXCEPT !.state = @ + 1], "failed")
     \/ StateCleanup(bev, {"local"}, [refs EXCEPT !.state = @ + 1, !.bev = @ + 1], "failed")
     \/ /\ Proceed("resolving", {"local", "remotetcp"},
                   [refs EXCEPT !.state = @ + 1, !.bev = @ + 2])
        /\ UNCHANGED bev
  /\ UNCHANGED <<net, streams, got>>

\* The lookup is over: it may have failed, and so may making the SSL object
\* or the filter.
proxy_notblocked_getaddrinfo_cb ==
  /\ phase = "resolving"
  /\ \/ StateCleanup(bev, objs, refs, "failed")
     \/ StateCleanup(bev, objs \cup {"ssl"}, [refs EXCEPT !.ssl = @ + 1], "failed")
     \/ /\ Proceed("handshake", objs \cup {"ssl", "remote"},
                   [refs EXCEPT !.ssl = @ + 1, !.bev = @ + 1])
        /\ bev' = [bev EXCEPT !["local"].readcb = "read_cb", !["remote"].readcb = "read_cb"]
  /\ UNCHANGED <<net, streams, got>>

-----------------------------------------------------------------------------
(* The callbacks, as operators on the bufferevents b.                      *)

\* k bytes leave the output buffer of s; the write callback is due when few
\* enough are left.  The filter's bytes go to remotetcp.
Written(b, s, k) ==
  LET rest == SubSeq(b[s].out, k + 1, Len(b[s].out)) IN
  [b EXCEPT ![s].out = rest,
            ![s].pend = IF Len(rest) <= b[s].low /\ b[s].writecb # "none"
                          THEN @ \cup {"write"} ELSE @,
            ![s].tcp = IF s = "remote" THEN @ \o SubSeq(b[s].out, 1, k) ELSE @]

\* Bytes have been added to the output of p: the SSL filter takes as many of
\* them as it can at once, a socket waits until it is writable.
Added(b, p) ==
  {b} \cup IF p = "remote" THEN {Written(b, p, k) : k \in 1..Len(b[p].out)} ELSE {}

\* The input of s goes to the output of its partner.
Moved(b, s) == [b EXCEPT ![Partner(s)].out = @ \o b[s].in, ![s].in = <<>>]

\* The source s of a full buffer pauses, until drained_write_cb.
Paused_NoDrainCb(b, s) ==
  IF Len(b[Partner(s)].out) < MAX_OUTPUT_BUFFER THEN b
  ELSE [b EXCEPT ![Partner(s)].low = MAX_OUTPUT_BUFFER \div 2, ![s].on = FALSE]
Paused(b, s) ==
  IF Len(b[Partner(s)].out) < MAX_OUTPUT_BUFFER THEN b
  ELSE [b EXCEPT ![Partner(s)].readcb = "read_cb",
                 ![Partner(s)].writecb = "drained_write_cb",
                 ![Partner(s)].low = MAX_OUTPUT_BUFFER \div 2,
                 ![s].on = FALSE]

read_cb(b, s) == {Paused(m, s) : m \in Added(Moved(b, s), Partner(s))}

drained_write_cb_NoEnable(b, s) ==
  [b EXCEPT ![s].readcb = "read_cb", ![s].writecb = "none", ![s].low = 0]
drained_write_cb(b, s) ==
  [b EXCEPT ![s].readcb = "read_cb", ![s].writecb = "none", ![s].low = 0,
            ![Partner(s)].on = TRUE]

\* The partner p of a side that has ended: written out, then closed.
CloseWhenWritten_KeepCb(b, p) == [b EXCEPT ![p].readcb = "none", ![p].on = FALSE]
CloseWhenWritten(b, p) ==
  [b EXCEPT ![p].readcb = "none", ![p].writecb = "close_on_finished_write_cb",
            ![p].on = FALSE]

\* End of file at s: what it has sent before is flushed first.
AfterFlush_NoFlush(b, s) == {b}
AfterFlush(b, s) == IF b[s].in # <<>> THEN read_cb(b, s) ELSE {b}

-----------------------------------------------------------------------------
(* The loop runs deferred callbacks.                                       *)

Alive == phase \in {"handshake", "open"}

\* The callback for mark m of side s can run now.
Due(s, m) ==
  /\ Alive /\ m \in bev[s].pend
  /\ CASE m = "read"  -> bev[s].readcb # "none"
       [] m = "write" -> bev[s].writecb # "none"
       [] OTHER       -> TRUE

Clear(s, marks) == [bev EXCEPT ![s].pend = @ \ marks]

RunReadCb(s) ==
  /\ Due(s, "read")
  /\ bev' \in read_cb(Clear(s, {"read"}), s)
  /\ UNCHANGED <<phase, objs, refs, net, streams, got, ending>>

\* close_on_finished_write_cb: nothing to do while bytes are left.
close_on_finished_write_cb(s) ==
  IF bev[s].out = <<>>
    THEN StateCleanup(bev, objs, refs, "clean")
    ELSE /\ bev' = Clear(s, {"write"})
         /\ UNCHANGED <<phase, objs, refs, ending>>

RunWriteCb(s) ==
  /\ Due(s, "write") /\ ~Due(s, "read")
  /\ \/ /\ bev[s].writecb = "drained_write_cb"
        /\ bev' = drained_write_cb(Clear(s, {"write"}), s)
        /\ UNCHANGED <<phase, objs, refs, ending>>
     \/ /\ bev[s].writecb = "close_on_finished_write_cb"
        /\ close_on_finished_write_cb(s)
  /\ UNCHANGED <<net, streams, got>>

\* event_cb with BEV_EVENT_CONNECTED, which only the remote side raises.
OnConnected ==
  /\ Due("remote", "connected")
  /\ phase' = "open"
  /\ bev' = [Clear("remote", {"connected"}) EXCEPT !["local"].on = TRUE, !["remote"].on = TRUE]
  /\ UNCHANGED <<objs, refs, net, streams, got, ending>>

\* event_cb with BEV_EVENT_EOF, whatever other event has joined it.
OnEof(s) ==
  \E b \in AfterFlush(Clear(s, {"eof", "error"}), s) :
    IF b[Partner(s)].out # <<>>
      THEN /\ bev' = CloseWhenWritten(b, Partner(s))
           /\ UNCHANGED <<phase, objs, refs, ending>>
      ELSE StateCleanup(b, objs, refs, "clean")

OnError(s) == StateCleanup(bev, objs, refs, "failed")

RunEventCb(s) ==
  /\ ~Due(s, "read") /\ ~Due(s, "write") /\ ~Due(s, "connected")
  /\ \/ Due(s, "eof") /\ OnEof(s)
     \/ Due(s, "error") /\ "eof" \notin bev[s].pend /\ OnError(s)
  /\ UNCHANGED <<net, streams, got>>

-----------------------------------------------------------------------------
(* libevent: input and output.                                             *)

Usable(s) == Alive /\ ~bev[s].dead

\* The TLS handshake is complete.
Connected ==
  /\ phase = "handshake" /\ Usable("remote")
  /\ ~bev["remote"].on /\ "connected" \notin bev["remote"].pend
  /\ bev' = [bev EXCEPT !["remote"].pend = @ \cup {"connected"}]
  /\ UNCHANGED <<phase, objs, refs, net, streams, got, ending>>

ReadSocket(s) ==
  /\ Usable(s) /\ bev[s].on
  /\ \E k \in 1..Len(net[s]) :
       /\ bev' = [bev EXCEPT ![s].in = @ \o SubSeq(net[s], 1, k),
                             ![s].pend = IF bev[s].readcb # "none"
                                           THEN @ \cup {"read"} ELSE @]
       /\ net' = [net EXCEPT ![s] = SubSeq(@, k + 1, Len(@))]
  /\ UNCHANGED <<phase, objs, refs, streams, got, ending>>

ReadEof(s) ==
  /\ Usable(s) /\ bev[s].on
  /\ fin[s] /\ net[s] = <<>>
  /\ bev' = [bev EXCEPT ![s].on = FALSE, ![s].pend = @ \cup {"eof"}]
  /\ UNCHANGED <<phase, objs, refs, net, streams, got, ending>>

WriteLocal ==
  /\ Usable("local")
  /\ \E k \in 1..Len(bev["local"].out) :
       /\ bev' = Written(bev, "local", k)
       /\ got' = [got EXCEPT !["local"] = @ \o SubSeq(bev["local"].out, 1, k)]
  /\ UNCHANGED <<phase, objs, refs, net, streams, ending>>

Encrypt ==
  /\ Usable("remote") /\ phase = "open"
  /\ \E k \in 1..Len(bev["remote"].out) : bev' = Written(bev, "remote", k)
  /\ UNCHANGED <<phase, objs, refs, net, streams, got, ending>>

WriteRemotetcp ==
  /\ Usable("remote")
  /\ \E k \in 1..Len(bev["remote"].tcp) :
       /\ bev' = [bev EXCEPT !["remote"].tcp = SubSeq(@, k + 1, Len(@))]
       /\ got' = [got EXCEPT !["remote"] = @ \o SubSeq(bev["remote"].tcp, 1, k)]
  /\ UNCHANGED <<phase, objs, refs, net, streams, ending>>

\* A connection breaks; the next read or write notices.
SocketError(s) ==
  /\ Usable(s)
  /\ s = "local" => phase = "open"
  /\ bev' = [bev EXCEPT ![s].dead = TRUE, ![s].pend = @ \cup {"error"}]
  /\ UNCHANGED <<phase, objs, refs, net, streams, got, ending>>

(* The two peers.                                                          *)

PeerSends(s) ==
  /\ phase \notin {"none", "closed"} /\ ~fin[s] /\ Len(sent[s]) < MaxBytes
  /\ s = "local" \/ phase = "open"
  /\ sent' = [sent EXCEPT ![s] = Append(@, Len(@) + 1)]
  /\ net' = [net EXCEPT ![s] = Append(@, Len(sent[s]) + 1)]
  /\ UNCHANGED <<phase, objs, refs, bev, fin, got, ending>>

PeerEnds(s) ==
  /\ phase \notin {"none", "closed"} /\ ~fin[s]
  /\ s = "local" \/ phase = "open"
  /\ fin' = [fin EXCEPT ![s] = TRUE]
  /\ UNCHANGED <<phase, objs, refs, bev, net, sent, got, ending>>

-----------------------------------------------------------------------------
Next ==
  \/ proxy_accept_cb \/ proxy_notblocked_getaddrinfo_cb
  \/ OnConnected \/ Connected
  \/ WriteLocal \/ Encrypt \/ WriteRemotetcp
  \/ \E s \in Sides :
       \/ RunReadCb(s) \/ RunWriteCb(s) \/ RunEventCb(s)
       \/ ReadSocket(s) \/ ReadEof(s) \/ SocketError(s)
       \/ PeerSends(s) \/ PeerEnds(s)

Spec == Init /\ [][Next]_vars

\* Scheduling.  The loop runs every deferred callback, resolution and the
\* handshake end in success or failure, and libevent serves every socket that
\* is readable or writable: both peers go on reading, or their connections
\* break.  Nothing is assumed of what the peers send.
Fairness ==
  /\ WF_vars(proxy_notblocked_getaddrinfo_cb)
  /\ WF_vars(phase = "handshake" /\ (Connected \/ SocketError("remote")))
  /\ WF_vars(OnConnected)
  /\ WF_vars(WriteLocal) /\ WF_vars(Encrypt) /\ WF_vars(WriteRemotetcp)
  /\ \A s \in Sides :
       /\ WF_vars(RunReadCb(s)) /\ WF_vars(RunWriteCb(s)) /\ WF_vars(RunEventCb(s))
       /\ WF_vars(ReadSocket(s)) /\ WF_vars(ReadEof(s))

FairSpec == Spec /\ Fairness

-----------------------------------------------------------------------------
(* Properties.                                                             *)

\* Every variable has its type (struct telex_state, the resource counters
\* and the callbacks that proxy.c registers).
TypeOK ==
  /\ phase \in {"none", "resolving", "handshake", "open", "closed"}
  /\ objs \subseteq {"local", "remotetcp", "ssl", "remote"}
  /\ refs \in [state : Nat, bev : Nat, ssl : Nat]
  /\ bev \in [Sides -> Bev]
  /\ net \in [Sides -> Seq(Nat)]
  /\ sent \in [Sides -> Seq(Nat)]
  /\ fin \in [Sides -> BOOLEAN]
  /\ got \in [Sides -> Seq(Nat)]
  /\ end \in {"no", "clean", "failed"}
  /\ lost \in Seq(Nat)

\* The resource counters tell leaks, as the comment on them says
\* (proxy.c:41): they count the bufferevents, SSL objects and states that
\* exist, and all are zero when the tunnel is closed, on every path.
CountersCount ==
  /\ refs.bev = BevsOf(objs)
  /\ refs.ssl = SslsOf(objs)
  /\ refs.state = IF phase \in {"none", "closed"} THEN 0 ELSE 1
  /\ phase = "closed" => objs = {}

\* A side is read only while its partner's output buffer has room, so that
\* no output buffer grows without bound: read_cb pauses its source in time,
\* and no other callback switches it on again too early.
ReadOnlyWithRoom ==
  \A s \in Sides : Alive /\ bev[s].on => Len(bev[Partner(s)].out) < MAX_OUTPUT_BUFFER

\* A paused side has someone to wake it.  When a side of an open tunnel is
\* not read, its end of file or error has been seen, or its partner's, or
\* the drain callback is registered and either due or still to become due.
PausedHasWaker ==
  phase = "open" =>
    \A s \in Sides :
      LET p == Partner(s) IN
      \/ bev[s].on
      \/ "eof" \in bev[s].pend \/ bev[s].dead
      \/ "close_on_finished_write_cb" \in {bev[s].writecb, bev[p].writecb}
      \/ /\ bev[p].writecb = "drained_write_cb"
         /\ Len(bev[p].out) > bev[p].low \/ "write" \in bev[p].pend

\* A tunnel that is to close when a side is written out does close: bytes
\* are left to write, or the callback is due, or the side is broken.
FinishHasWaker ==
  \A s \in Sides :
    bev[s].writecb = "close_on_finished_write_cb" =>
      bev[s].out # <<>> \/ "write" \in bev[s].pend \/ bev[s].dead

\* The tunnel keeps the promise of Relay: what a side sends is handed on in
\* order, and a tunnel that ends without an error has handed on all of the
\* stream that ended ("flush pending data", proxy.c:317).  Bytes for the
\* server count as handed on once the SSL filter has taken them.
handed == [got EXCEPT !["remote"] = @ \o bev["remote"].tcp \o lost]
R == INSTANCE Relay WITH got <- handed
RelayImplemented == R!Spec

\* An error that joins an end of file in one deferred callback is not seen:
\* event_cb looks at BEV_EVENT_EOF first.  When that happens on both sides
\* with bytes left for both, the tunnel waits for writes that never come.
ErrorsSwallowed ==
  \A s \in Sides : bev[s].dead /\ bev[s].writecb = "close_on_finished_write_cb"

\* Every byte a side sends is handed on in the end or the tunnel closes:
\* pausing and draining never leave the two sides waiting for each other
\* (read_cb and drained_write_cb).  A side sends finitely many bytes here, so
\* that it is enough to say that all it has sent gets handed on.
BytesArrive ==
  \A s \in Sides :
    handed[Partner(s)] # sent[s] ~>
      (handed[Partner(s)] = sent[s] \/ phase = "closed" \/ ErrorsSwallowed)

\* A tunnel closes when one of its sides has ended its stream, whatever the
\* other goes on sending (event_cb and close_on_finished_write_cb).
EofCloses ==
  \A s \in Sides : fin[s] ~> (phase = "closed" \/ ErrorsSwallowed)

-----------------------------------------------------------------------------
(* The inductive invariant that TunnelProofs is about.                     *)

\* The pointers and counters of each phase.
Resources ==
  /\ phase \in {"none", "closed"} =>
       objs = {} /\ refs.state = 0 /\ refs.bev = 0 /\ refs.ssl = 0
  /\ phase = "resolving" =>
       objs = {"local", "remotetcp"} /\ refs.state = 1 /\ refs.bev = 2 /\ refs.ssl = 0
  /\ Alive => /\ objs = {"local", "remotetcp", "ssl", "remote"}
              /\ refs.state = 1 /\ refs.bev = 3 /\ refs.ssl = 1

\* Nothing is read or written before BEV_EVENT_CONNECTED.
Untouched(b) == b.in = <<>> /\ b.out = <<>> /\ ~b.on /\ b.writecb = "none"
Quiet ==
  /\ ~Alive => \A s \in Sides : Untouched(bev[s]) /\ bev[s].pend = {} /\ ~bev[s].dead
  /\ phase = "handshake" =>
       \A s \in Sides : /\ Untouched(bev[s]) /\ bev[s].readcb = "read_cb"
                        /\ bev[s].pend \subseteq {"connected", "error"}
  /\ phase = "open" => \A s \in Sides : "connected" \notin bev[s].pend
  /\ "connected" \notin bev["local"].pend

\* A side that waits for its buffer to drain has its source paused, with
\* nothing left in its input, and is due only when it has drained.
DrainPaused ==
  \A s \in Sides :
    /\ bev[s].writecb = "none" => "write" \notin bev[s].pend
    /\ bev[s].writecb = "drained_write_cb" =>
         /\ ~bev[Partner(s)].on /\ bev[Partner(s)].in = <<>>
         /\ bev[s].low = MAX_OUTPUT_BUFFER \div 2
         /\ "write" \in bev[s].pend => Len(bev[s].out) <= bev[s].low

\* A side that closes when it is written out has a source that has ended and
\* will never be read again; so it goes on waiting to close.
FinishFinal ==
  \A s \in Sides :
    /\ "eof" \in bev[s].pend => fin[s] /\ net[s] = <<>>
    /\ Alive /\ bev[s].readcb = "none" => bev[s].writecb = "close_on_finished_write_cb"
    /\ bev[s].writecb = "close_on_finished_write_cb" =>
         LET p == Partner(s) IN
         /\ bev[s].readcb = "none" /\ bev[p].in = <<>> /\ fin[p] /\ net[p] = <<>>
         /\ "read" \notin bev[p].pend \/ bev[p].readcb = "none"

IInv ==
  /\ TypeOK /\ Resources /\ Quiet /\ DrainPaused /\ FinishFinal
  /\ ReadOnlyWithRoom /\ PausedHasWaker /\ FinishHasWaker

\* While a tunnel lasts, what a side has sent is, in this order, handed on, in
\* the output buffer of its partner, in its own input buffer, and unread.
Carried(s) ==
  LET p == Partner(s) IN ((handed[p] \o bev[p].out) \o bev[s].in) \o net[s]
StreamsKept ==
  /\ end = "no" <=> phase # "closed"
  /\ end = "no" => lost = <<>> /\ \A s \in Sides : Carried(s) = sent[s]

=============================================================================
