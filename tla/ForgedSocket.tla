---------------------------- MODULE ForgedSocket ----------------------------
(***************************************************************************)
(* How bronnect gets an established TCP socket in the server's name: the   *)
(* ioctl 0xFACE of the patched kernel                                      *)
(* (telex-station/station/linuxmod/tcp_sk_forge.c), called by              *)
(* setup_fake_socket (station/net/bronnect.c) on a fresh bound socket.     *)
(* The ioctl clones that socket, gives the child the state of the flow     *)
(* taken over, hashes it and grafts it onto a new descriptor.              *)
(*                                                                         *)
(* The numbers of the flow are left out; what is kept is what an error or  *)
(* a packet in between can upset: the lock of the bound socket, the        *)
(* spinlock the child is born with, its reference count, its place in the  *)
(* kernel's hash table, the descriptors.  Each task stays on a CPU of its  *)
(* own; a packet for a child that is hashed may arrive on any CPU and      *)
(* interrupts its task.  (The specification has names of its own: one      *)
(* module proves theorems about it and about HandOver.)                    *)
(***************************************************************************)
EXTENDS Naturals, FiniteSets

CONSTANTS
  Tasks,   \* processes that forge a socket; each has a CPU of its own
  NoTask   \* no child: a CPU that does not spin

ASSUME TasksAssumption == IsFiniteSet(Tasks) /\ NoTask \notin Tasks

VARIABLES
  pc,      \* what the task does next
  sk,      \* the bound socket: its descriptor, and lock_sock() held on it
  newfd,   \* the new descriptor: "none", "open" or "closed"
  child,   \* the forged sock
  bhOff,   \* softirqs are disabled on the CPU
  spin     \* the child whose lock a softirq on the CPU spins for, or NoTask

forge_vars == <<pc, sk, newfd, child, bhOff, spin>>

Child == [refs : Nat, bh : BOOLEAN, hashed : BOOLEAN, grafted : BOOLEAN]
NoChild == [refs |-> 0, bh |-> FALSE, hashed |-> FALSE, grafted |-> FALSE]

Steps == {"socket", "ioctl", "lock_sock", "forge", "inherit", "bh_enable", "graft",
          "bh_unlock", "sock_put", "out_fd", "failed", "ok", "relay", "done", "oops"}

ForgeInit ==
  /\ pc = [t \in Tasks |-> "socket"]
  /\ sk = [t \in Tasks |-> [fd |-> "none", locked |-> FALSE]]
  /\ newfd = [t \in Tasks |-> "none"]
  /\ child = [t \in Tasks |-> NoChild]
  /\ bhOff = [t \in Tasks |-> FALSE]
  /\ spin = [t \in Tasks |-> NoTask]

\* Task t, at step a, goes on to step b; a CPU that spins runs no task.
Go(t, a, b) ==
  /\ pc[t] = a /\ spin[t] = NoTask
  /\ pc' = [pc EXCEPT ![t] = b]

-----------------------------------------------------------------------------
(* setup_fake_socket.                                                      *)

\* socket() fails, or bind() does and the socket is closed, or both work.
socket_bind(t) ==
  /\ \/ Go(t, "socket", "done") /\ UNCHANGED sk
     \/ Go(t, "socket", "done") /\ sk' = [sk EXCEPT ![t].fd = "closed"]
     \/ Go(t, "socket", "ioctl") /\ sk' = [sk EXCEPT ![t].fd = "open"]
  /\ UNCHANGED <<newfd, child, bhOff, spin>>

\* The bound socket is closed after the ioctl, whatever its result.  The
\* kernel locks it for that.
CloseListenSock(t) ==
  /\ Go(t, "failed", "done") \/ Go(t, "ok", "relay")
  /\ ~sk[t].locked
  /\ sk' = [sk EXCEPT ![t].fd = "closed"]
  /\ UNCHANGED <<newfd, child, bhOff, spin>>

\* The relay is over, the connection is closed and the kernel is done with it.
CloseClient(t) ==
  /\ Go(t, "relay", "done")
  /\ newfd' = [newfd EXCEPT ![t] = "closed"]
  /\ child' = [child EXCEPT ![t].refs = @ - 1, ![t].hashed = FALSE, ![t].grafted = FALSE]
  /\ UNCHANGED <<sk, bhOff, spin>>

-----------------------------------------------------------------------------
(* The ioctl.                                                              *)

\* fake_accept_ioctl up to the call of fake_inet_accept: the arguments are
\* copied, a socket and a descriptor are made.
fake_accept_ioctl(t) ==
  /\ \/ Go(t, "ioctl", "failed") /\ UNCHANGED newfd
     \/ Go(t, "ioctl", "lock_sock") /\ newfd' = [newfd EXCEPT ![t] = "open"]
  /\ UNCHANGED <<sk, child, bhOff, spin>>

\* The end of fake_accept_ioctl after a failure.
out_fd_Retry(t) ==
  /\ Go(t, "out_fd", "lock_sock")
  /\ UNCHANGED <<sk, newfd, child, bhOff, spin>>
out_fd(t) ==
  /\ Go(t, "out_fd", "failed")
  /\ newfd' = [newfd EXCEPT ![t] = "closed"]
  /\ UNCHANGED <<sk, child, bhOff, spin>>

lock_sock(t) ==
  /\ Go(t, "lock_sock", "forge")
  /\ ~sk[t].locked
  /\ sk' = [sk EXCEPT ![t].locked = TRUE]
  /\ UNCHANGED <<newfd, child, bhOff, spin>>

\* sk_clone, called through inet_csk_forge and tcp_forge_openreq_child: the
\* child is born with its spinlock held and two references.
Born == [refs |-> 2, bh |-> TRUE, hashed |-> FALSE, grafted |-> FALSE]

\* tcp_v4_forge_syn_recv_sock, with fake_recved_ack after it.  Without a
\* route it releases a pointer it has not set, which may go unnoticed or kill
\* the task.  Every failure leaves fake_inet_csk_accept at once.
tcp_v4_forge_syn_recv_sock(t) ==
  /\ \/ Go(t, "forge", "out_fd") /\ UNCHANGED child
     \/ Go(t, "forge", "oops") /\ UNCHANGED child
     \/ Go(t, "forge", "inherit") /\ child' = [child EXCEPT ![t] = Born]
  /\ UNCHANGED <<sk, newfd, bhOff, spin>>

\* The rest of fake_inet_csk_accept, under local_bh_disable.  When the port
\* cannot be inherited one reference is dropped; otherwise the child is
\* hashed, and the bound socket unlocked.
InheritFails(t) ==
  /\ Go(t, "inherit", "out_fd")
  /\ child' = [child EXCEPT ![t].refs = @ - 1]
  /\ UNCHANGED <<sk, newfd, bhOff, spin>>

fake_inet_csk_accept(t) ==
  /\ Go(t, "inherit", "bh_enable")
  /\ child' = [child EXCEPT ![t].hashed = TRUE]
  /\ sk' = [sk EXCEPT ![t].locked = FALSE]
  /\ bhOff' = [bhOff EXCEPT ![t] = TRUE]
  /\ UNCHANGED <<newfd, spin>>

local_bh_enable(t) ==
  /\ Go(t, "bh_enable", "graft")
  /\ bhOff' = [bhOff EXCEPT ![t] = FALSE]
  /\ UNCHANGED <<sk, newfd, child, spin>>

\* fake_inet_accept: sock_graft, bh_unlock_sock, sock_put.
sock_graft(t) ==
  /\ Go(t, "graft", "bh_unlock")
  /\ child' = [child EXCEPT ![t].grafted = TRUE]
  /\ UNCHANGED <<sk, newfd, bhOff, spin>>

bh_unlock_sock(t) ==
  /\ Go(t, "bh_unlock", "sock_put")
  /\ child' = [child EXCEPT ![t].bh = FALSE]
  /\ UNCHANGED <<sk, newfd, bhOff, spin>>

sock_put_Forgotten(t) ==
  /\ Go(t, "sock_put", "ok")
  /\ UNCHANGED <<sk, newfd, child, bhOff, spin>>
sock_put(t) ==
  /\ Go(t, "sock_put", "ok")
  /\ child' = [child EXCEPT ![t].refs = @ - 1]
  /\ UNCHANGED <<sk, newfd, bhOff, spin>>

-----------------------------------------------------------------------------
(* Packets: tcp_v4_rcv in a softirq.                                       *)

\* A packet for the child of task t is looked up on the CPU of task c.  It
\* is dealt with at once unless the child's spinlock is held.
tcp_v4_rcv(t, c) ==
  /\ child[t].hashed /\ child[t].bh
  /\ ~bhOff[c] /\ spin[c] = NoTask
  /\ spin' = [spin EXCEPT ![c] = t]
  /\ child' = [child EXCEPT ![t].refs = @ + 1]
  /\ UNCHANGED <<pc, sk, newfd, bhOff>>

\* The lock is free: the packet is dealt with and its reference dropped.
PacketDone(c) ==
  /\ spin[c] # NoTask /\ ~child[spin[c]].bh
  /\ spin' = [spin EXCEPT ![c] = NoTask]
  /\ child' = [child EXCEPT ![spin[c]].refs = @ - 1]
  /\ UNCHANGED <<pc, sk, newfd, bhOff>>

\* The packet, one that waited or one dealt with at once, is a RST: tcp_done
\* takes the child out of the hash table.  The descriptor keeps its reference.
tcp_reset(t) ==
  /\ child[t].hashed /\ ~child[t].bh
  /\ child' = [child EXCEPT ![t].hashed = FALSE]
  /\ UNCHANGED <<pc, sk, newfd, bhOff, spin>>

-----------------------------------------------------------------------------
Task(t) ==
  \/ socket_bind(t) \/ CloseListenSock(t) \/ CloseClient(t)
  \/ fake_accept_ioctl(t) \/ out_fd(t) \/ lock_sock(t)
  \/ tcp_v4_forge_syn_recv_sock(t) \/ InheritFails(t) \/ fake_inet_csk_accept(t)
  \/ local_bh_enable(t) \/ sock_graft(t) \/ bh_unlock_sock(t) \/ sock_put(t)

ForgeNext == \E t \in Tasks : \/ Task(t) \/ PacketDone(t) \/ tcp_reset(t)
                              \/ \E c \in Tasks : tcp_v4_rcv(t, c)

ForgeSpec == ForgeInit /\ [][ForgeNext]_forge_vars

\* A CPU runs its softirq, or else its task.
ForgeFairSpec == ForgeSpec /\ \A t \in Tasks : WF_forge_vars(Task(t)) /\ WF_forge_vars(PacketDone(t))

-----------------------------------------------------------------------------
(* Properties.                                                             *)

\* Every variable has its type; a reference count is never negative (the
\* sock_put calls of tcp_sk_forge.c).
ForgeTypeOK ==
  /\ pc \in [Tasks -> Steps]
  /\ sk \in [Tasks -> [fd : {"none", "open", "closed"}, locked : BOOLEAN]]
  /\ newfd \in [Tasks -> {"none", "open", "closed"}]
  /\ child \in [Tasks -> Child]
  /\ bhOff \in [Tasks -> BOOLEAN]
  /\ spin \in [Tasks -> Tasks \cup {NoTask}]

Spinners(t) == {c \in Tasks : spin[c] = t}

\* The references the maker of a child has: the two of sk_clone until the
\* final sock_put, then that of the descriptor; one stays for ever when the
\* port cannot be inherited.
MakersRefs(t) ==
  IF pc[t] \in {"inherit", "bh_enable", "graft", "bh_unlock", "sock_put"} THEN 2
  ELSE IF pc[t] \in {"ok", "relay"} \/ child[t].bh THEN 1 ELSE 0

\* The references of a child are those of its maker and of the packets that
\* wait for it.  So BUG_ON(sk_refcnt < 2) never fires (tcp_sk_forge.c:317),
\* no child is freed under a packet or a descriptor, and one that was handed
\* over is freed when both are gone.
RefsAccounted ==
  \A t \in Tasks : child[t].refs = MakersRefs(t) + Cardinality(Spinners(t))

\* An ioctl that succeeds leaves no lock behind: softirqs are on, neither the
\* bound socket nor the child is locked, and the child is the one behind the
\* new descriptor, although fake_inet_csk_accept and fake_inet_accept take
\* and drop four locks in two functions.
SuccessLeavesNoLock ==
  \A t \in Tasks : pc[t] \in {"ok", "relay"} =>
    /\ ~sk[t].locked /\ ~bhOff[t] /\ ~child[t].bh
    /\ child[t].grafted /\ newfd[t] = "open"

\* A failed ioctl leaves no descriptor open, and no child in the hash table
\* that packets could reach (out_fd, and the order of __inet_inherit_port
\* and __inet_hash_nolisten).
FailureLeavesNoWay ==
  \A t \in Tasks : pc[t] \in {"failed", "done"} =>
    newfd[t] # "open" /\ ~child[t].hashed /\ ~child[t].grafted

\* A forging comes to an end: the flow is relayed or the failure reported.
\* The only ways it does not: the forging has failed after lock_sock, and the
\* close of the bound socket waits for that lock (tcp_sk_forge.c:276); the
\* pointer that is not set kills the task; or CPUs spin for locks that the
\* tasks they have interrupted, or tasks interrupted in the same way, hold:
\* the child can be found by packets, and softirqs are on, before
\* bh_unlock_sock (tcp_sk_forge.c:290).
ClosesLocked(t) == pc[t] = "failed" /\ sk[t].locked
Spinning(t)     == spin[t] # NoTask /\ child[spin[t]].bh
ForgeEnds ==
  \A t \in Tasks : pc[t] = "ioctl" ~>
    (pc[t] \in {"relay", "done", "oops"} \/ [](ClosesLocked(t) \/ Spinning(t)))

\* What holds at each step of the ioctl, and makes the two invariants above
\* and RefsAccounted inductive.
Reachable == {"bh_enable", "graft", "bh_unlock", "sock_put", "ok", "relay"}
StepInv(t) ==
  /\ child[t].hashed => pc[t] \in Reachable
  /\ child[t].grafted <=> pc[t] \in Reachable \ {"bh_enable", "graft"}
  /\ newfd[t] = "open" <=> pc[t] \in Reachable \cup {"lock_sock", "forge", "inherit", "out_fd", "oops"}
  /\ bhOff[t] <=> pc[t] = "bh_enable"
  /\ sk[t].locked => pc[t] \in {"forge", "inherit", "out_fd", "failed", "oops"}
  /\ child[t].bh => pc[t] \in {"inherit", "bh_enable", "graft", "bh_unlock", "out_fd", "failed", "done"}
  /\ pc[t] \in {"inherit", "bh_enable", "graft", "bh_unlock"} => child[t].bh
  /\ \A c \in Tasks : spin[c] = t => pc[t] \in Reachable \cup {"done"}

ForgeInv == ForgeTypeOK /\ RefsAccounted /\ \A t \in Tasks : StepInv(t)

=============================================================================
