---------------------------- MODULE FlowBlocker ----------------------------
(***************************************************************************)
(* The flow blocker that runs on the router                                *)
(* (telex-station/router/flow-blocker/flow_blocker.c) with its glue to the *)
(* kernel's ipset OURSET (telex_ipset.c, libaddipportip.c).  Controllers,  *)
(* that is Bro and bronnect, hold TCP connections on which they send       *)
(* 13-byte commands: block or unblock one flow.  Every command is applied  *)
(* to the set and arms a timer that removes the flow again.                *)
(*                                                                         *)
(* One thread runs libevent.  Its recv() waits for a whole command         *)
(* (MSG_WAITALL on a blocking socket), so a command of which only a part   *)
(* has arrived stops the loop: `reading' names the connection it waits on. *)
(* The set lives in the kernel and outlives the process; router.sh, which  *)
(* starts the process, builds the set anew.                                *)
(***************************************************************************)
EXTENDS Integers, Sequences

CONSTANTS
  Addrs,      \* IPv4 addresses
  Ports,      \* TCP ports
  Flows,      \* the flows that controllers name in commands
  Conns,      \* TCP connections of controllers, each used once
  Slots,      \* the struct flow allocations, one for each armed timer
  NoConn,     \* the loop does not wait inside recv()
  NoTimer,    \* a slot that is not allocated
  TICK,       \* seconds in one step of the model's clock
  MaxStream   \* bound on the commands in flight on one connection

\* A flow as a command spells it: address and port of either end.
Flow == [sip : Addrs, sport : Ports, dip : Addrs, dport : Ports]

ASSUME FlowsAssumption == Flows \subseteq Flow
ASSUME TickAssumption  == TICK \in Nat \ {0}
ASSUME NamesAssumption == NoConn \notin Conns /\ NoTimer \notin [flow : Flows, left : Nat]

\* The life of a flow entry, in seconds and in steps of the clock.
FLOW_TIMEOUT == 30 * 60 * 60
Timeout      == FLOW_TIMEOUT \div TICK

\* The element of OURSET that stands for a flow: the destination port is
\* not part of it.
Key(f) == <<f.dip, f.sport, f.sip>>
Keys   == {Key(f) : f \in Flows}

Commands == [flow : Flows, block : BOOLEAN]
Timers   == [flow : Flows, left : 0..Timeout]

VARIABLES
  alive,    \* the flow_blocker process runs
  fd,       \* state of a connection: "none", "backlog", "open" or "closed"
  eof,      \* the controller has closed its end
  in,       \* commands in a connection's stream, not read yet
  part,     \* the last one of them has arrived only in part
  reading,  \* the connection recv() waits on, or NoConn
  timers,   \* the armed timers
  blocked,  \* the elements of OURSET
  held,     \* history: clock steps since an element entered OURSET
  asked     \* history: elements some controller asked in full to block

streams == <<eof, in, part>>
vars    == <<alive, fd, eof, in, part, reading, timers, blocked, held, asked>>

Init ==
  /\ alive = TRUE
  /\ fd = [c \in Conns |-> "none"]
  /\ eof = [c \in Conns |-> FALSE]
  /\ in = [c \in Conns |-> <<>>]
  /\ part = [c \in Conns |-> FALSE]
  /\ reading = NoConn
  /\ timers = [s \in Slots |-> NoTimer]
  /\ blocked = {}
  /\ held = [k \in Keys |-> 0]
  /\ asked = {}

-----------------------------------------------------------------------------
(* Applying a command.                                                     *)

\* add_ipportip: the set gains or loses the element, or the kernel or the
\* parser refuses the command (an element already there, or not there, or
\* the set full) and the set stays as it was.  An element that is there is
\* removed: that the kernel refuses this, which the code would only report,
\* is left out.
add_ipportip(k, block) ==
  \/ blocked' = IF block THEN blocked \cup {k} ELSE blocked \ {k}
  \/ block /\ blocked' = blocked
  \/ ~block /\ k \notin blocked /\ blocked' = blocked

\* telex_local_mod_flow, with the history of when the element came in.
telex_local_mod_flow(f, block) ==
  /\ add_ipportip(Key(f), block)
  /\ held' = [k \in Keys |-> IF k \in blocked \cap blocked' THEN held[k] ELSE 0]

\* A struct flow is allocated and its timer armed for Timeout; none is ever
\* cancelled, and a command that unblocks arms one too.
timeout_add_IfArmed(s, f, block) ==
  /\ timers[s] = NoTimer
  /\ timers' = IF block /\ Key(f) \in blocked
                 THEN [r \in Slots |-> IF timers[r] # NoTimer /\ Key(timers[r].flow) = Key(f)
                                         THEN [timers[r] EXCEPT !.left = Timeout]
                                         ELSE timers[r]]
                 ELSE [timers EXCEPT ![s] = [flow |-> f, left |-> Timeout]]
timeout_add(s, f, block) ==
  /\ timers[s] = NoTimer
  /\ timers' = [timers EXCEPT ![s] = [flow |-> f, left |-> Timeout]]

-----------------------------------------------------------------------------
(* The process: callbacks of the event loop.                               *)

\* The loop is free to run a callback.
Idle == alive /\ reading = NoConn

on_accept_ready(c) ==
  /\ Idle
  /\ fd[c] = "backlog"
  /\ fd' = [fd EXCEPT ![c] = "open"]
  /\ UNCHANGED <<alive, streams, reading, timers, blocked, held, asked>>

cleanup_connection(c) ==
  /\ fd' = [fd EXCEPT ![c] = "closed"]
  /\ reading' = NoConn
  /\ UNCHANGED <<streams, timers, blocked, held>>

\* recv() has only the first bytes of a command.
OnlyPart(c) == Len(in[c]) = 1 /\ part[c]

\* recv(MSG_WAITALL): more bytes must come, the loop stands still.  (That a
\* slot is free is the model's bound: memory for one more timer.)
RecvWaits(c) ==
  /\ OnlyPart(c) /\ ~eof[c]
  /\ \E s \in Slots : timers[s] = NoTimer
  /\ reading = NoConn
  /\ reading' = c
  /\ UNCHANGED <<fd, streams, timers, blocked, held>>

\* recv() gives fewer bytes than a command, but some: return.
RecvShort_Retry(c) ==
  /\ OnlyPart(c) /\ eof[c]
  /\ reading' = c
  /\ UNCHANGED <<fd, streams, timers, blocked, held>>
RecvShort(c) ==
  /\ OnlyPart(c) /\ eof[c]
  /\ in' = [in EXCEPT ![c] = <<>>]
  /\ part' = [part EXCEPT ![c] = FALSE]
  /\ reading' = NoConn
  /\ UNCHANGED <<fd, eof, timers, blocked, held>>

\* recv() gives 0 bytes, or an error.
RecvNothing(c) ==
  /\ in[c] = <<>> /\ eof[c]
  /\ cleanup_connection(c)

\* recv() gives a whole command.
RecvCommand(c) ==
  /\ in[c] # <<>> /\ ~OnlyPart(c)
  /\ LET m == Head(in[c]) IN
       /\ telex_local_mod_flow(m.flow, m.block)
       /\ \E s \in Slots : timeout_add(s, m.flow, m.block)
  /\ in' = [in EXCEPT ![c] = Tail(@)]
  /\ reading' = NoConn
  /\ UNCHANGED <<fd, eof, part>>

on_read_ready(c) ==
  /\ alive /\ fd[c] = "open" /\ reading \in {NoConn, c}
  /\ RecvWaits(c) \/ RecvShort(c) \/ RecvNothing(c) \/ RecvCommand(c)
  /\ UNCHANGED <<alive, asked>>

\* The timer of slot s runs out: the flow it names leaves the set, whatever
\* commands came after the one that armed it; the slot is freed.
unblock_flow(s) ==
  /\ Idle
  /\ timers[s] # NoTimer /\ timers[s].left = 0
  /\ telex_local_mod_flow(timers[s].flow, FALSE)
  /\ timers' = [timers EXCEPT ![s] = NoTimer]
  /\ UNCHANGED <<alive, fd, streams, reading, asked>>

\* The process ends, on SIGINT or SIGTERM or when libipset fails for no
\* reason it can name.  Its timers are gone; OURSET is not.
handle_sigint ==
  /\ alive
  /\ alive' = FALSE
  /\ fd' = [c \in Conns |-> IF fd[c] = "none" THEN "none" ELSE "closed"]
  /\ eof' = [c \in Conns |-> FALSE]
  /\ in' = [c \in Conns |-> <<>>]
  /\ part' = [c \in Conns |-> FALSE]
  /\ reading' = NoConn
  /\ timers' = [s \in Slots |-> NoTimer]
  /\ UNCHANGED <<blocked, held, asked>>

\* router.sh destroys and creates OURSET, then starts the process.
main_KeepSet ==
  /\ ~alive
  /\ alive' = TRUE
  /\ UNCHANGED <<fd, streams, reading, timers, blocked, held, asked>>
main ==
  /\ ~alive
  /\ alive' = TRUE
  /\ blocked' = {}
  /\ held' = [k \in Keys |-> 0]
  /\ UNCHANGED <<fd, streams, reading, timers, asked>>

-----------------------------------------------------------------------------
(* The controllers: the other end of the connections.                      *)

telex_connect_to_flow_blocker(c) ==
  /\ alive /\ fd[c] = "none"
  /\ fd' = [fd EXCEPT ![c] = "backlog"]
  /\ UNCHANGED <<alive, streams, reading, timers, blocked, held, asked>>

\* A command is sent, and arrives in whole or, for now, in part.
telex_remote_mod_flow(c) ==
  /\ fd[c] \in {"backlog", "open"} /\ ~eof[c]
  /\ ~part[c] /\ Len(in[c]) < MaxStream
  /\ \E m \in Commands, cut \in BOOLEAN :
       /\ in' = [in EXCEPT ![c] = Append(@, m)]
       /\ part' = [part EXCEPT ![c] = cut]
       /\ asked' = IF m.block /\ ~cut THEN asked \cup {Key(m.flow)} ELSE asked
  /\ UNCHANGED <<alive, fd, eof, reading, timers, blocked, held>>

\* The rest of a command arrives.
RestArrives(c) ==
  /\ fd[c] \in {"backlog", "open"} /\ ~eof[c] /\ part[c]
  /\ part' = [part EXCEPT ![c] = FALSE]
  /\ LET m == in[c][Len(in[c])] IN
       asked' = IF m.block THEN asked \cup {Key(m.flow)} ELSE asked
  /\ UNCHANGED <<alive, fd, eof, in, reading, timers, blocked, held>>

\* The controller ends, possibly in the middle of a command.
ControllerCloses(c) ==
  /\ fd[c] \in {"backlog", "open"} /\ ~eof[c]
  /\ eof' = [eof EXCEPT ![c] = TRUE]
  /\ UNCHANGED <<alive, fd, in, part, reading, timers, blocked, held, asked>>

-----------------------------------------------------------------------------
(* Time.                                                                   *)

Due(s) == timers[s] # NoTimer /\ timers[s].left = 0

\* The clock moves on.  An idle loop runs the timers that are due first, so
\* time passes a due timer only while the loop waits in recv().  The history
\* of an element stops counting one past Timeout.
Tick ==
  /\ reading = NoConn => \A s \in Slots : ~Due(s)
  /\ timers' = [s \in Slots |->
                  IF timers[s] = NoTimer \/ Due(s) THEN timers[s]
                  ELSE [timers[s] EXCEPT !.left = @ - 1]]
  /\ held' = [k \in Keys |->
                IF k \in blocked /\ held[k] <= Timeout THEN held[k] + 1 ELSE held[k]]
  /\ UNCHANGED <<alive, fd, streams, reading, blocked, asked>>

Next ==
  \/ \E c \in Conns :
       \/ on_accept_ready(c) \/ on_read_ready(c)
       \/ telex_connect_to_flow_blocker(c) \/ telex_remote_mod_flow(c)
       \/ RestArrives(c) \/ ControllerCloses(c)
  \/ \E s \in Slots : unblock_flow(s)
  \/ handle_sigint \/ main
  \/ Tick

Spec == Init /\ [][Next]_vars

\* Scheduling.  The clock never stops.  Every pass of the event loop runs the
\* timers that are due and looks at every connection (libevent's select or
\* epoll backends), so a callback that is ready again and again runs.  The
\* controller's kernel delivers the rest of a command, or the connection
\* breaks.
Fairness ==
  /\ WF_vars(Tick)
  /\ \A s \in Slots : SF_vars(unblock_flow(s))
  /\ \A c \in Conns : /\ SF_vars(on_read_ready(c))
                       /\ WF_vars(RestArrives(c) \/ ControllerCloses(c))

FairSpec == Spec /\ Fairness

-----------------------------------------------------------------------------
(* Properties.                                                             *)

\* Every variable has its type: a timer never has more than FLOW_TIMEOUT to
\* run (struct flow and flow_blocker.c:94).
TypeOK ==
  /\ alive \in BOOLEAN
  /\ fd \in [Conns -> {"none", "backlog", "open", "closed"}]
  /\ eof \in [Conns -> BOOLEAN]
  /\ in \in [Conns -> Seq(Commands)]
  /\ part \in [Conns -> BOOLEAN]
  /\ reading \in Conns \cup {NoConn}
  /\ timers \in [Slots -> Timers \cup {NoTimer}]
  /\ blocked \in SUBSET Keys
  /\ held \in [Keys -> 0..Timeout + 1]
  /\ asked \in SUBSET Keys

\* Timer s is set to remove element k by the time k has been in OURSET for
\* Timeout, or is due now.
Removes(s, k) ==
  /\ timers[s] # NoTimer
  /\ Key(timers[s].flow) = k
  /\ timers[s].left = 0 \/ timers[s].left + held[k] <= Timeout

\* No element of OURSET is left without a timer while the process runs: the
\* timer of the command that put it there (on_read_ready always arms one,
\* unblock_flow is the only place that frees one) is still armed, also when
\* later commands name the same element, an unblock was in between, another
\* flow shares the element, or the process was restarted by router.sh.
BlockHasTimer ==
  alive => \A k \in blocked : \E s \in Slots : Removes(s, k)

\* What cannot be part of a command is not applied as one: an element is in
\* OURSET only if some controller sent a whole command to block it, even when
\* connections break in the middle of a command (the test of recv's result
\* in on_read_ready).
NoPhantomBlock == blocked \subseteq asked

\* A command is only left half read while its sender is connected: the loop
\* never waits in recv on a connection it has closed, and an unfinished
\* command is the last one of its stream.
WaitsOnOpenConnection ==
  /\ reading # NoConn => alive /\ fd[reading] = "open" /\ in[reading] # <<>>
  /\ \A c \in Conns : part[c] => in[c] # <<>>

\* Whoever sent a whole command to block an element is on record.
WholeCommandsAsked ==
  \A c \in Conns : \A i \in 1..Len(in[c]) :
    in[c][i].block /\ ~(part[c] /\ i = Len(in[c])) => Key(in[c][i].flow) \in asked

\* The strengthening under which the invariants above are inductive: what
\* on_read_ready will take from a stream is as good as what it has taken.
IInv ==
  TypeOK /\ BlockHasTimer /\ NoPhantomBlock /\ WaitsOnOpenConnection /\ WholeCommandsAsked

\* With a loop that does not stand still in recv, no element is in OURSET
\* for longer than FLOW_TIMEOUT, however often commands renew it: the timer
\* of the first command is never cancelled or moved (unblock_flow).
NeverOverdue ==
  [][Tick /\ alive /\ reading = NoConn => \A k \in blocked : held'[k] <= Timeout]_vars

\* Every element leaves OURSET in the end, unless the process dies: a loop
\* that waits in recv for the rest of a command is always released, by the
\* bytes or by the end of the connection, and then runs unblock_flow.
BlockExpires ==
  \A k \in Keys : k \in blocked ~> (k \notin blocked \/ ~alive)

=============================================================================
