------------------------------ MODULE Station -------------------------------
(***************************************************************************)
(* Bro, bronnect and the flow blocker together, as far as the block of one *)
(* flow goes.  Bro blocks the flow when it sees a tagged ClientHello, and  *)
(* hands it over to bronnect or gives it up; bronnect relays and unblocks  *)
(* it at the end.  Both send commands to the flow blocker, each on its own *)
(* connection: nothing orders the two.  The flow's conn_id may be used     *)
(* again by a later connection of the same client.                         *)
(*                                                                         *)
(* The modules Detector, Bronnect and FlowBlocker have each program in     *)
(* detail with the other two abstracted; here every program is small and   *)
(* the channels, the crash of the flow blocker and the reuse are real.     *)
(***************************************************************************)
EXTENDS Naturals, Sequences, Functions

CONSTANTS
  NUses,       \* number of TCP connections that have this conn_id, one by one
  MaxCommands, \* bound on the commands in flight on a connection
  MaxTimers,   \* bound on the timers of the flow blocker
  MaxDeaths    \* bound on the deaths of the flow blocker

ASSUME UsesAssumption ==
  NUses \in Nat /\ MaxCommands \in Nat /\ MaxTimers \in Nat /\ MaxDeaths \in Nat

Uses == 1..NUses

VARIABLES
  bro,      \* FALSE: the Bro process has exited
  entry,    \* the use telex_table has, or 0
  use,      \* the latest use
  sock,     \* Bro's socket to bronnect, of each use: records sent, closed
  bn,       \* bronnect's connection, of each use
  chan,     \* commands on the way from Bro and from bronnect
  link,     \* those connections: "ok", "fin" (the other end is gone) or "dead"
  fb,       \* the flow blocker runs
  deaths,
  blocked,  \* the use whose block has put the flow in OURSET, or 0
  timers,   \* timers that will remove it
  why       \* history, of each use: what has happened to its commands

vars == <<bro, entry, use, sock, bn, chan, link, fb, deaths, blocked, timers, why>>

Command == [block : BOOLEAN, use : Uses]
Block(u) == [block |-> TRUE, use |-> u]
Unblock(u) == [block |-> FALSE, use |-> u]

Init ==
  /\ bro = TRUE /\ entry = 0 /\ use = 0
  /\ sock = [u \in Uses |-> [sent |-> 0, closed |-> FALSE]]
  /\ bn = [u \in Uses |-> "none"]
  /\ chan = [p \in {"bro", "bronnect"} |-> <<>>]
  /\ link = [p \in {"bro", "bronnect"} |-> "ok"]
  /\ fb = TRUE /\ deaths = 0 /\ blocked = 0 /\ timers = 0
  /\ why = [u \in Uses |-> {}]

Reasons == {"alert", "lost", "other use", "overtaken", "restart", "timer", "unknown"}

Note(u, what) == why' = [why EXCEPT ![u] = @ \cup {what}]

-----------------------------------------------------------------------------
(* Sending commands.                                                       *)

Put(p, m) == Len(chan[p]) < MaxCommands /\ chan' = [chan EXCEPT ![p] = Append(@, m)]

\* sendall to the flow blocker.  The first send after the other end has gone
\* is taken by the kernel and lost; the next one fails.
Sent(p, m) ==
  \/ link[p] = "ok" /\ Put(p, m) /\ UNCHANGED <<link, why>>
  \/ link[p] = "fin" /\ link' = [link EXCEPT ![p] = "dead"] /\ Note(m.use, "lost") /\ UNCHANGED chan

\* telex_mod_block: Bro connects anew when sending fails, and exits when it
\* cannot; its sockets to bronnect end with it.
BroSends(m, newentry, newsock) ==
  \/ /\ \/ Sent("bro", m)
        \/ /\ link["bro"] = "dead" /\ fb /\ Put("bro", m)
           /\ link' = [link EXCEPT !["bro"] = "ok"] /\ UNCHANGED why
     /\ entry' = newentry /\ sock' = newsock /\ UNCHANGED bro
  \/ /\ link["bro"] = "dead" /\ ~fb
     /\ bro' = FALSE /\ entry' = 0
     /\ sock' = [u \in Uses |-> [sock[u] EXCEPT !.closed = TRUE]]
     /\ UNCHANGED <<chan, link, why>>

\* cleanup_connection_after_ssl: bronnect does not look at the result.
BronnectSends(m) ==
  \/ Sent("bronnect", m)
  \/ link["bronnect"] = "dead" /\ Note(m.use, "lost") /\ UNCHANGED <<chan, link>>

-----------------------------------------------------------------------------
(* Bro.                                                                    *)

Closed(u) == [sock EXCEPT ![u].closed = TRUE]
FlowBlocker == <<fb, deaths, blocked, timers>>

\* ssl_conn_attempt with a tagged ClientHello, on a new TCP connection;
\* bronnect may be out of reach.
ssl_conn_attempt ==
  /\ bro /\ entry = 0 /\ use + 1 \in Uses
  /\ use' = use + 1
  /\ BroSends(Block(use + 1), use + 1, sock)
  /\ \/ bro' /\ bn' = [bn EXCEPT ![use + 1] = "open"]
     \/ UNCHANGED bn
  /\ UNCHANGED FlowBlocker

\* The INIT record; then the raw packet, with which the flow is bronnect's,
\* also when bronnect is gone by then.
telex_send_init_data ==
  /\ entry # 0 /\ bn[entry] \notin {"none", "gone"} /\ sock[entry].sent = 0
  /\ sock' = [sock EXCEPT ![entry].sent = 1]
  /\ UNCHANGED <<bro, entry, use, bn, chan, link, why, FlowBlocker>>

HandOver_Unblock ==
  /\ entry # 0 /\ sock[entry].sent = 1
  /\ BroSends(Unblock(entry), 0, [sock EXCEPT ![entry] = [sent |-> 2, closed |-> TRUE]])
  /\ UNCHANGED <<use, bn, FlowBlocker>>
HandOver ==
  /\ entry # 0 /\ sock[entry].sent = 1
  /\ sock' = [sock EXCEPT ![entry] = [sent |-> 2, closed |-> TRUE]]
  /\ entry' = 0
  /\ UNCHANGED <<bro, use, bn, chan, link, why, FlowBlocker>>

\* do_expire, from wherever it is called: unblock and forget.
do_expire_Forget ==
  /\ entry # 0
  /\ sock' = Closed(entry) /\ entry' = 0
  /\ UNCHANGED <<bro, use, bn, chan, link, why, FlowBlocker>>
do_expire ==
  /\ entry # 0
  /\ BroSends(Unblock(entry), 0, Closed(entry))
  /\ UNCHANGED <<use, bn, FlowBlocker>>

\* ssl_conn_alert from the client: forget, but do not unblock.
ssl_conn_alert ==
  /\ entry # 0
  /\ sock' = Closed(entry) /\ entry' = 0
  /\ Note(entry, "alert")
  /\ UNCHANGED <<bro, use, bn, chan, link, FlowBlocker>>

-----------------------------------------------------------------------------
(* bronnect.                                                               *)

Rest == <<bro, entry, use, sock, FlowBlocker>>

\* The connection ends and unblocks the flow it knows of.
End(u) ==
  /\ bn' = [bn EXCEPT ![u] = "gone"]
  /\ BronnectSends(Unblock(u))

\* Before the flow is known, what it unblocks is not this flow.
EndUnknown(u) ==
  /\ bn' = [bn EXCEPT ![u] = "gone"]
  /\ Note(u, "unknown") /\ UNCHANGED <<chan, link>>

\* on_telex_read, INIT: the flow is stored once the service is being
\* connected to.
ReadInit(u) ==
  /\ bn[u] = "open" /\ sock[u].sent > 0
  /\ \/ bn' = [bn EXCEPT ![u] = "init"] /\ UNCHANGED <<chan, link, why>>
     \/ EndUnknown(u)
  /\ UNCHANGED Rest

\* on_telex_read, RAW_PKT: the forged socket, or the end.
ReadRaw(u) ==
  /\ bn[u] = "init" /\ sock[u].sent = 2
  /\ \/ bn' = [bn EXCEPT ![u] = "relay"] /\ UNCHANGED <<chan, link, why>>
     \/ End(u)
  /\ UNCHANGED Rest

\* End of file on Bro's socket, or the watchdog, before the relay.
EofOrWatchdog(u) ==
  /\ \/ bn[u] = "open" /\ EndUnknown(u)
     \/ bn[u] = "init" /\ End(u)
  /\ UNCHANGED Rest

cleanup_connection(u) ==
  /\ bn[u] = "relay" /\ End(u)
  /\ UNCHANGED Rest

-----------------------------------------------------------------------------
(* The flow blocker.                                                       *)

\* The uses whose block has been applied and that are not over.
InUse == {u \in Uses : (entry = u \/ bn[u] \notin {"none", "gone"}) /\ Block(u) \notin Range(chan["bro"])}
\* The uses that bronnect has sent the unblock of.
EndedKnown == {u \in Uses : bn[u] = "gone" /\ "unknown" \notin why[u]}
NoteAll(U, what) == why' = [u \in Uses |-> why[u] \cup (IF u \in U THEN {what} ELSE {})]

\* A command is applied: an unblock of one use may meet the block of another,
\* a block may come after bronnect's unblock of the same use.
on_read_ready(p) ==
  /\ fb /\ chan[p] # <<>> /\ timers < MaxTimers
  /\ LET m == Head(chan[p])
     IN /\ blocked' = IF m.block THEN m.use ELSE 0
        /\ IF m.block THEN NoteAll({m.use} \cap EndedKnown, "overtaken")
                      ELSE NoteAll(InUse \ {m.use}, "other use")
  /\ chan' = [chan EXCEPT ![p] = Tail(@)]
  /\ timers' = timers + 1
  /\ UNCHANGED <<bro, entry, use, sock, bn, link, fb, deaths>>

unblock_flow ==
  /\ fb /\ timers > 0
  /\ timers' = timers - 1 /\ blocked' = 0
  /\ NoteAll(InUse, "timer")
  /\ UNCHANGED <<bro, entry, use, sock, bn, chan, link, fb, deaths>>

\* The process dies: commands not yet read are lost, the set stays.
Die ==
  /\ fb /\ deaths < MaxDeaths
  /\ fb' = FALSE /\ deaths' = deaths + 1 /\ timers' = 0
  /\ chan' = [p \in DOMAIN chan |-> <<>>]
  /\ link' = [p \in DOMAIN link |-> IF link[p] = "ok" THEN "fin" ELSE link[p]]
  /\ NoteAll({m.use : m \in UNION {Range(chan[p]) : p \in DOMAIN chan}}, "lost")
  /\ UNCHANGED <<bro, entry, use, sock, bn, blocked>>

\* router.sh makes the set anew.
router_sh_KeepSet ==
  /\ ~fb /\ fb' = TRUE
  /\ UNCHANGED <<bro, entry, use, sock, bn, chan, link, deaths, timers, blocked, why>>
router_sh ==
  /\ ~fb /\ fb' = TRUE /\ blocked' = 0
  /\ NoteAll(InUse, "restart")
  /\ UNCHANGED <<bro, entry, use, sock, bn, chan, link, deaths, timers>>

-----------------------------------------------------------------------------
Bro == ssl_conn_attempt \/ telex_send_init_data \/ HandOver \/ do_expire \/ ssl_conn_alert
Bronnect(u) == ReadInit(u) \/ ReadRaw(u) \/ EofOrWatchdog(u) \/ cleanup_connection(u)

Next ==
  \/ Bro \/ (\E u \in Uses : Bronnect(u))
  \/ (\E p \in {"bro", "bronnect"} : on_read_ready(p))
  \/ unblock_flow \/ Die \/ router_sh

Spec == Init /\ [][Next]_vars

\* The flow blocker serves its sockets, its timers run, and somebody starts
\* it again.
FairSpec ==
  /\ Spec
  /\ \A p \in {"bro", "bronnect"} : WF_vars(on_read_ready(p))
  /\ WF_vars(unblock_flow) /\ WF_vars(router_sh)

-----------------------------------------------------------------------------
(* Properties.                                                             *)

\* Every variable has its type, and only a running flow blocker has timers.
TypeOK ==
  /\ bro \in BOOLEAN /\ fb \in BOOLEAN /\ blocked \in Uses \cup {0}
  /\ entry \in Uses \cup {0} /\ use \in Uses \cup {0}
  /\ sock \in [Uses -> [sent : 0..2, closed : BOOLEAN]]
  /\ bn \in [Uses -> {"none", "open", "init", "relay", "gone"}]
  /\ chan \in [{"bro", "bronnect"} -> Seq(Command)]
  /\ link \in [{"bro", "bronnect"} -> {"ok", "fin", "dead"}]
  /\ deaths \in 0..MaxDeaths
  /\ timers \in 0..MaxTimers /\ (~fb => timers = 0)
  /\ why \in [Uses -> SUBSET Reasons]

\* A flow that bronnect relays is blocked, or will be, for the client must
\* not get packets of two servers.  The only ways out, for this use: a timer
\* has run out since the block (a relay may take longer than FLOW_TIMEOUT), the
\* flow blocker lost the block, router.sh has made the set anew, or the
\* unblock of another use of the conn_id was applied.  In particular Bro does
\* not unblock what it has handed over.
RelayedIsBlocked ==
  \A u \in Uses : bn[u] = "relay" =>
    blocked # 0 \/ Block(u) \in Range(chan["bro"])
            \/ why[u] \cap {"timer", "restart", "lost", "other use"} # {}

\* Why the block of u may outlast u: a command of u was lost, the client's
\* alert made Bro forget u, bronnect's unblock of u overtook Bro's block, or
\* Bro handed u over to a bronnect that had ended without knowing the flow.
Excused(u) ==
  \/ why[u] \cap {"lost", "alert", "overtaken"} # {}
  \/ "unknown" \in why[u] /\ sock[u].sent = 2

\* When Bro and bronnect are done with every use and all commands have been
\* applied, the flow is not blocked, unless something went wrong with the very
\* use whose block is in force (Excused): what happened to the commands of
\* another use of the conn_id is no excuse.
DoneIsUnblocked ==
  /\ fb /\ entry = 0 /\ \A u \in Uses : bn[u] \in {"none", "gone"}
  /\ \A p \in DOMAIN chan : chan[p] = <<>>
  /\ blocked # 0
  => Excused(blocked)

\* Whatever is lost or overtaken, the flow does not stay blocked when both
\* programs are done with it: a timer or router.sh removes it.
FinallyUnblocked ==
  (entry = 0 /\ \A u \in Uses : bn[u] \in {"none", "gone"}) ~>
    (blocked = 0 \/ entry # 0 \/ \E u \in Uses : bn[u] \notin {"none", "gone"})

-----------------------------------------------------------------------------
(* The inductive invariant that StationProofs is about.                    *)

Live(u) == bn[u] \in {"open", "init", "relay"}

\* A use that is not there yet has no traces; the records Bro has sent tell
\* how far bronnect can be.
UsesInOrder ==
  /\ entry <= use
  /\ \A u \in Uses :
       /\ u > use => bn[u] = "none" /\ sock[u].sent = 0
       /\ bn[u] = "relay" => sock[u].sent = 2
       /\ sock[u].sent > 0 => bn[u] # "none"
       /\ entry = u => sock[u].sent < 2

\* Bro unblocks what it has given up and never what it has handed over;
\* bronnect only unblocks, and only what is over.
UnblockedByOwner ==
  /\ \A u \in Uses : Unblock(u) \in Range(chan["bro"]) =>
       u <= use /\ entry # u /\ sock[u].sent < 2
  /\ \A m \in Range(chan["bronnect"]) : ~m.block /\ bn[m.use] = "gone"

\* A use that is Bro's, or has been handed over, and that bronnect has not
\* ended, is blocked, or there is a reason why not.
ServedIsBlocked ==
  \A u \in Uses : (entry = u \/ sock[u].sent = 2) /\ bn[u] # "gone" =>
    blocked # 0 \/ Block(u) \in Range(chan["bro"])
            \/ why[u] \cap {"timer", "restart", "lost", "other use"} # {}

\* A flow blocker that is down has no connections.
DownIsCut ==
  ~fb => \A p \in {"bro", "bronnect"} : link[p] # "ok" /\ chan[p] = <<>>

\* Somebody will unblock u: Bro is at it and bronnect has not seen to it
\* before, bronnect knows of it or will, or the command is on its way.
Owed(u) ==
  \/ entry = u /\ u \notin EndedKnown
  \/ bn[u] \in {"init", "relay"}
  \/ bn[u] = "open" /\ sock[u].sent = 2
  \/ \E p \in {"bro", "bronnect"} : Unblock(u) \in Range(chan[p])

\* Bro's block at place i of its channel will be followed by an unblock.
Followed(i, u) ==
  \/ entry = u \/ sock[u].sent = 2 \/ Excused(u)
  \/ \E j \in DOMAIN chan["bro"] : j > i /\ chan["bro"][j] = Unblock(u)

\* A block that is in force, or on its way, is followed by its unblock, but
\* for the reasons of Excused.  The order of Bro's own commands counts.  A
\* flow blocker that is down empties the set when it comes back.
BlockIsOwed ==
  /\ fb /\ blocked # 0 => Owed(blocked) \/ Excused(blocked)
  /\ \A i \in DOMAIN chan["bro"] : \A u \in Uses : chan["bro"][i] = Block(u) => Followed(i, u)

IInv == TypeOK /\ UsesInOrder /\ UnblockedByOwner /\ ServedIsBlocked /\ DownIsCut /\ BlockIsOwed

=============================================================================
