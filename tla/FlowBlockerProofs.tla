------------------------- MODULE FlowBlockerProofs -------------------------
(***************************************************************************)
(* Proofs about the flow blocker, for any flows, connections and number of *)
(* timers and any length of the clock's steps.  IInv is inductive; every   *)
(* theorem at the end follows from it.                                     *)
(***************************************************************************)
EXTENDS FlowBlocker, SequenceTheorems, TLAPS

\* FLOW_TIMEOUT is a natural number of clock steps.
LEMMA TimeoutNat == Timeout \in Nat
  BY TickAssumption, SMT DEF Timeout, FLOW_TIMEOUT

\* The element of a flow that commands name is one of Keys (add_ipportip's
\* argument).
LEMMA KeyOfFlow == ASSUME NEW f \in Flows PROVE Key(f) \in Keys
  BY DEF Keys

\* An armed timer is a struct flow with a flow and the time it has left.
LEMMA ArmedTimer ==
  ASSUME TypeOK, NEW s \in Slots, timers[s] # NoTimer
  PROVE  timers[s] \in Timers /\ timers[s].flow \in Flows /\ timers[s].left \in 0..Timeout
  <1>1. timers[s] \in Timers
    BY DEF TypeOK
  <1>. QED BY <1>1 DEF Timers

\* What is left of a stream once its first command is read, element by
\* element (recv takes the bytes from the front).
LEMMA TailOfStream ==
  ASSUME NEW S, NEW q \in Seq(S), q # <<>>
  PROVE  /\ Head(q) \in S /\ Head(q) = q[1]
         /\ Len(q) \in Nat /\ Len(q) >= 1
         /\ Tail(q) \in Seq(S)
         /\ Len(Tail(q)) = Len(q) - 1
         /\ \A i \in 1..Len(q) - 1 : Tail(q)[i] = q[i + 1]
         /\ Len(q) > 1 => Tail(q) # <<>>
  <1>1. Len(q) \in Nat /\ Len(q) >= 1
    OBVIOUS
  <1>2. Head(q) \in S /\ Head(q) = q[1] /\ Tail(q) \in Seq(S)
    OBVIOUS
  <1>3. Len(Tail(q)) = Len(q) - 1
    OBVIOUS
  <1>4. \A i \in 1..Len(q) - 1 : Tail(q)[i] = q[i + 1]
    OBVIOUS
  <1>5. Len(q) > 1 => Tail(q) # <<>>
    <2>. SUFFICES ASSUME Len(q) > 1, Tail(q) = <<>> PROVE FALSE
      OBVIOUS
    <2>1. Len(Tail(q)) = 0
      BY <1>2, EmptySeq, Zenon
    <2>. QED BY <1>1, <1>3, <2>1
  <1>. QED BY <1>1, <1>2, <1>3, <1>4, <1>5

\* The initial state satisfies the inductive invariant.
LEMMA InitInv == Init => IInv
  <1>. SUFFICES ASSUME Init PROVE IInv
    OBVIOUS
  <1>. USE DEF Init
  <1>1. TypeOK
    <2>1. in \in [Conns -> Seq(Commands)]
      OBVIOUS
    <2>2. held \in [Keys -> 0..Timeout + 1]
      BY TimeoutNat
    <2>. QED BY <2>1, <2>2 DEF TypeOK
  <1>2. BlockHasTimer /\ NoPhantomBlock
    BY DEF BlockHasTimer, NoPhantomBlock
  <1>3. WaitsOnOpenConnection
    BY DEF WaitsOnOpenConnection
  <1>4. WholeCommandsAsked
    BY DEF WholeCommandsAsked
  <1>. QED BY <1>1, <1>2, <1>3, <1>4 DEF IInv

\* Steps that leave the set, its history, the process and the timers alone
\* keep BlockHasTimer: accepting, connecting, sending, closing.
LEMMA TimersKept ==
  ASSUME BlockHasTimer, UNCHANGED <<alive, timers, blocked, held>>
  PROVE  BlockHasTimer'
  BY DEF BlockHasTimer, Removes

\* Applying a command to the set keeps it a set of elements, counts no more
\* than before, and brings in only the element of a command that blocks
\* (telex_local_mod_flow).
LEMMA ModFlow ==
  ASSUME TypeOK, NEW f \in Flows, NEW block \in BOOLEAN, telex_local_mod_flow(f, block)
  PROVE  /\ blocked' \in SUBSET Keys
         /\ held' \in [Keys -> 0..Timeout + 1]
         /\ \A k \in blocked' : \/ k \in blocked /\ held'[k] = held[k]
                                \/ k = Key(f) /\ block /\ held'[k] = 0
         /\ ~block => Key(f) \notin blocked'
  <1>1. /\ blocked' \in SUBSET Keys
        /\ \A k \in blocked' : k \in blocked \/ (k = Key(f) /\ block)
        /\ ~block => Key(f) \notin blocked'
    BY KeyOfFlow DEF telex_local_mod_flow, add_ipportip, TypeOK
  <1>2. held' = [k \in Keys |-> IF k \in blocked \cap blocked' THEN held[k] ELSE 0]
    BY DEF telex_local_mod_flow
  <1>3. held' \in [Keys -> 0..Timeout + 1]
    <2>1. \A k \in Keys : held[k] \in 0..Timeout + 1
      BY DEF TypeOK
    <2>. QED BY <1>2, <2>1, TimeoutNat
  <1>4. ASSUME NEW k \in blocked'
        PROVE  \/ k \in blocked /\ held'[k] = held[k]
               \/ k = Key(f) /\ block /\ held'[k] = 0
    BY <1>1, <1>2
  <1>. QED BY <1>1, <1>3, <1>4

-----------------------------------------------------------------------------
(* Each step keeps the invariant.                                          *)

\* A connection moves on and nothing else changes: on_accept_ready,
\* telex_connect_to_flow_blocker and ControllerCloses.
LEMMA ConnectionSteps ==
  ASSUME IInv, NEW c \in Conns,
         on_accept_ready(c) \/ telex_connect_to_flow_blocker(c) \/ ControllerCloses(c)
  PROVE  IInv'
  <1>. USE DEF IInv, streams
  <1>1. UNCHANGED <<alive, in, part, reading, timers, blocked, held, asked>>
    BY DEF on_accept_ready, telex_connect_to_flow_blocker, ControllerCloses
  <1>2. /\ fd' \in [Conns -> {"none", "backlog", "open", "closed"}]
        /\ eof' \in [Conns -> BOOLEAN]
        /\ \A d \in Conns : fd[d] = "open" => fd'[d] = "open"
    <2>1. CASE on_accept_ready(c)
      BY <2>1 DEF on_accept_ready, TypeOK
    <2>2. CASE telex_connect_to_flow_blocker(c)
      BY <2>2 DEF telex_connect_to_flow_blocker, TypeOK
    <2>3. CASE ControllerCloses(c)
      BY <2>3 DEF ControllerCloses, TypeOK
    <2>. QED BY <2>1, <2>2, <2>3
  <1>3. TypeOK'
    BY <1>1, <1>2 DEF TypeOK
  <1>4. BlockHasTimer'
    BY <1>1, TimersKept
  <1>5. NoPhantomBlock' /\ WholeCommandsAsked'
    BY <1>1 DEF NoPhantomBlock, WholeCommandsAsked
  <1>6. WaitsOnOpenConnection'
    BY <1>1, <1>2 DEF WaitsOnOpenConnection, TypeOK
  <1>. QED BY <1>3, <1>4, <1>5, <1>6

\* A controller sends a command, in whole or in part (telex_remote_mod_flow).
LEMMA SendStep ==
  ASSUME IInv, NEW c \in Conns, telex_remote_mod_flow(c)
  PROVE  IInv'
  <1>. USE DEF IInv
  <1>1. PICK m \in Commands, cut \in BOOLEAN :
          /\ in' = [in EXCEPT ![c] = Append(in[c], m)]
          /\ part' = [part EXCEPT ![c] = cut]
          /\ asked' = IF m.block /\ ~cut THEN asked \cup {Key(m.flow)} ELSE asked
    BY DEF telex_remote_mod_flow
  <1>2. UNCHANGED <<alive, fd, eof, reading, timers, blocked, held>>
    BY DEF telex_remote_mod_flow
  <1>3. /\ m.flow \in Flows /\ m.block \in BOOLEAN
        /\ in[c] \in Seq(Commands)
        /\ \A d \in Conns : in[d] \in Seq(Commands)
    BY DEF Commands, TypeOK
  <1>4. /\ Append(in[c], m) \in Seq(Commands)
        /\ Len(Append(in[c], m)) = Len(in[c]) + 1
        /\ Append(in[c], m) # <<>>
        /\ \A i \in 1..Len(in[c]) : Append(in[c], m)[i] = in[c][i]
        /\ Append(in[c], m)[Len(in[c]) + 1] = m
    BY <1>3
  <1>5. /\ in'[c] = Append(in[c], m) /\ part'[c] = cut
        /\ \A d \in Conns \ {c} : in'[d] = in[d] /\ part'[d] = part[d]
    BY <1>1 DEF TypeOK
  <1>6. TypeOK'
    <2>1. in' \in [Conns -> Seq(Commands)]
      BY <1>1, <1>4 DEF TypeOK
    <2>2. part' \in [Conns -> BOOLEAN]
      BY <1>1, Zenon DEF TypeOK
    <2>3. asked' \in SUBSET Keys
      BY <1>1, <1>3, KeyOfFlow DEF TypeOK
    <2>. QED BY <1>2, <2>1, <2>2, <2>3 DEF TypeOK
  <1>7. BlockHasTimer'
    BY <1>2, TimersKept
  <1>8. NoPhantomBlock'
    BY <1>1, <1>2 DEF NoPhantomBlock
  <1>9. WaitsOnOpenConnection'
    BY <1>2, <1>4, <1>5 DEF WaitsOnOpenConnection, TypeOK
  <1>10. WholeCommandsAsked'
    <2>1. SUFFICES ASSUME NEW d \in Conns, NEW i \in 1..Len(in'[d]),
                          in'[d][i].block, ~(part'[d] /\ i = Len(in'[d]))
                   PROVE  Key(in'[d][i].flow) \in asked'
      BY DEF WholeCommandsAsked
    <2>2. asked \subseteq asked'
      BY <1>1
    <2>3. CASE d # c
      BY <2>1, <2>2, <2>3, <1>5 DEF WholeCommandsAsked
    <2>4. CASE d = c /\ i = Len(in[c]) + 1
      BY <2>1, <2>4, <1>1, <1>4, <1>5
    <2>5. CASE d = c /\ i # Len(in[c]) + 1
      <3>1. Len(in[c]) \in Nat /\ i \in 1..Len(in[c])
        BY <1>3, <1>4, <1>5, <2>5
      <3>2. ~part[c]
        BY DEF telex_remote_mod_flow
      <3>3. in'[d][i] = in[c][i]
        BY <2>5, <3>1, <1>4, <1>5
      <3>. QED BY <2>1, <2>2, <3>1, <3>2, <3>3 DEF WholeCommandsAsked
    <2>. QED BY <2>3, <2>4, <2>5
  <1>. QED BY <1>6, <1>7, <1>8, <1>9, <1>10

\* The rest of a command arrives: its sender goes on record.
LEMMA RestStep ==
  ASSUME IInv, NEW c \in Conns, RestArrives(c)
  PROVE  IInv'
  <1>. USE DEF IInv
  <1>. DEFINE m == in[c][Len(in[c])]
  <1>1. /\ UNCHANGED <<alive, fd, eof, in, reading, timers, blocked, held>>
        /\ part[c]
        /\ part' = [part EXCEPT ![c] = FALSE]
        /\ asked' = IF m.block THEN asked \cup {Key(m.flow)} ELSE asked
    BY DEF RestArrives
  <1>2. in[c] \in Seq(Commands) /\ in[c] # <<>>
    BY <1>1 DEF TypeOK, WaitsOnOpenConnection
  <1>3. m \in Commands
    BY <1>2
  <1>4. m.flow \in Flows
    BY <1>3 DEF Commands
  <1>5. /\ ~part'[c]
        /\ \A d \in Conns : part'[d] => part[d]
        /\ \A d \in Conns \ {c} : part'[d] = part[d]
    BY <1>1 DEF TypeOK
  <1>6. TypeOK'
    <2>1. part' \in [Conns -> BOOLEAN]
      BY <1>1, Zenon DEF TypeOK
    <2>2. asked' \in SUBSET Keys
      BY <1>1, <1>4, KeyOfFlow DEF TypeOK
    <2>. QED BY <1>1, <2>1, <2>2 DEF TypeOK
  <1>7. BlockHasTimer'
    BY <1>1, TimersKept
  <1>8. NoPhantomBlock'
    BY <1>1 DEF NoPhantomBlock
  <1>9. WaitsOnOpenConnection'
    BY <1>1, <1>5 DEF WaitsOnOpenConnection
  <1>10. WholeCommandsAsked'
    <2>1. SUFFICES ASSUME NEW d \in Conns, NEW i \in 1..Len(in[d]),
                          in[d][i].block, ~(part'[d] /\ i = Len(in[d]))
                   PROVE  Key(in[d][i].flow) \in asked'
      BY <1>1 DEF WholeCommandsAsked
    <2>2. CASE d = c /\ i = Len(in[c])
      BY <1>1, <2>1, <2>2
    <2>3. CASE ~(d = c /\ i = Len(in[c]))
      BY <1>1, <1>5, <2>1, <2>3 DEF WholeCommandsAsked
    <2>. QED BY <2>2, <2>3
  <1>. QED BY <1>6, <1>7, <1>8, <1>9, <1>10

\* recv waits, gives a part of a command, or nothing: no command is applied
\* (on_read_ready up to its return, cleanup_connection).
LEMMA RecvWithoutCommand ==
  ASSUME IInv, NEW c \in Conns, alive, fd[c] = "open", reading \in {NoConn, c},
         UNCHANGED <<alive, asked>>,
         RecvWaits(c) \/ RecvShort(c) \/ RecvNothing(c)
  PROVE  IInv'
  <1>. USE DEF IInv, streams
  <1>1. UNCHANGED <<alive, eof, timers, blocked, held, asked>>
    BY DEF RecvWaits, RecvShort, RecvNothing, cleanup_connection
  <1>2. BlockHasTimer'
    BY <1>1, TimersKept
  <1>3. NoPhantomBlock'
    BY <1>1 DEF NoPhantomBlock
  <1>4. CASE RecvWaits(c)
    <2>1. UNCHANGED <<fd, in, part>> /\ reading' = c
      BY <1>4 DEF RecvWaits
    <2>2. TypeOK'
      BY <1>1, <2>1 DEF TypeOK
    <2>3. WholeCommandsAsked'
      BY <1>1, <2>1 DEF WholeCommandsAsked
    <2>4. in[c] # <<>>
      BY <1>4 DEF RecvWaits, OnlyPart, WaitsOnOpenConnection
    <2>5. WaitsOnOpenConnection'
      BY <1>1, <2>1, <2>4 DEF WaitsOnOpenConnection
    <2>. QED BY <1>2, <1>3, <2>2, <2>3, <2>5
  <1>5. CASE RecvShort(c)
    <2>1. /\ UNCHANGED fd /\ reading' = NoConn
          /\ in' = [in EXCEPT ![c] = <<>>]
          /\ part' = [part EXCEPT ![c] = FALSE]
      BY <1>5 DEF RecvShort
    <2>2. TypeOK'
      <3>1. in' \in [Conns -> Seq(Commands)]
        BY <2>1 DEF TypeOK
      <3>2. part' \in [Conns -> BOOLEAN]
        BY <2>1, Zenon DEF TypeOK
      <3>. QED BY <1>1, <2>1, <3>1, <3>2 DEF TypeOK
    <2>3. /\ in'[c] = <<>> /\ ~part'[c]
          /\ \A d \in Conns \ {c} : in'[d] = in[d] /\ part'[d] = part[d]
      BY <2>1 DEF TypeOK
    <2>4. WholeCommandsAsked'
      BY <1>1, <2>3 DEF WholeCommandsAsked
    <2>5. WaitsOnOpenConnection'
      BY <2>1, <2>3 DEF WaitsOnOpenConnection
    <2>. QED BY <1>2, <1>3, <2>2, <2>4, <2>5
  <1>6. CASE RecvNothing(c)
    <2>1. /\ UNCHANGED <<in, part>> /\ reading' = NoConn
          /\ fd' = [fd EXCEPT ![c] = "closed"]
      BY <1>6 DEF RecvNothing, cleanup_connection
    <2>2. TypeOK'
      BY <1>1, <2>1 DEF TypeOK
    <2>3. WholeCommandsAsked'
      BY <1>1, <2>1 DEF WholeCommandsAsked
    <2>4. WaitsOnOpenConnection'
      BY <2>1 DEF WaitsOnOpenConnection
    <2>. QED BY <1>2, <1>3, <2>2, <2>3, <2>4
  <1>. QED BY <1>4, <1>5, <1>6

\* recv gives a whole command: it is applied and its timer armed in a free
\* slot, so no timer of another element is lost (on_read_ready's last part).
LEMMA RecvCommandStep ==
  ASSUME IInv, NEW c \in Conns, alive, fd[c] = "open", reading \in {NoConn, c},
         UNCHANGED <<alive, asked>>, RecvCommand(c)
  PROVE  IInv'
  <1>. USE DEF IInv
  <1>. DEFINE m == Head(in[c])
  <1>1. in[c] \in Seq(Commands) /\ in[c] # <<>> /\ ~OnlyPart(c)
    BY DEF RecvCommand, TypeOK
  <1>2. PICK q \in Seq(Commands), n \in Nat :
          /\ q = Tail(in[c]) /\ n = Len(in[c])
          /\ m \in Commands /\ m = in[c][1]
          /\ n >= 1 /\ Len(q) = n - 1
          /\ \A i \in 1..n - 1 : q[i] = in[c][i + 1]
          /\ n > 1 => q # <<>>
    <2>. DEFINE q0 == Tail(in[c])
                n0 == Len(in[c])
    <2>1. /\ m \in Commands /\ m = in[c][1]
          /\ n0 \in Nat /\ n0 >= 1
          /\ q0 \in Seq(Commands)
          /\ Len(q0) = n0 - 1
          /\ \A i \in 1..n0 - 1 : q0[i] = in[c][i + 1]
          /\ n0 > 1 => q0 # <<>>
      BY <1>1, TailOfStream
    <2>. q0 \in Seq(Commands) /\ n0 \in Nat
      BY <2>1
    <2>. HIDE DEF q0, n0
    <2>. WITNESS q0 \in Seq(Commands), n0 \in Nat
    <2>. QED BY <2>1 DEF q0, n0
  <1>3. m.flow \in Flows /\ m.block \in BOOLEAN
    BY <1>2 DEF Commands
  <1>4. telex_local_mod_flow(m.flow, m.block)
    BY DEF RecvCommand
  <1>5. PICK s \in Slots : timeout_add(s, m.flow, m.block)
    BY DEF RecvCommand
  <1>6. /\ UNCHANGED <<fd, eof, part>> /\ reading' = NoConn
        /\ in' = [in EXCEPT ![c] = q]
    BY <1>2 DEF RecvCommand
  <1>7. /\ timers[s] = NoTimer
        /\ timers' = [timers EXCEPT ![s] = [flow |-> m.flow, left |-> Timeout]]
    BY <1>5 DEF timeout_add
  <1>. DEFINE t == [flow |-> m.flow, left |-> Timeout]
  <1>8. t \in Timers
    BY <1>3, TimeoutNat DEF Timers
  <1>9. t # NoTimer
    BY <1>3, TimeoutNat, NamesAssumption
  <1>10. /\ blocked' \in SUBSET Keys
         /\ held' \in [Keys -> 0..Timeout + 1]
         /\ \A k \in blocked' : \/ k \in blocked /\ held'[k] = held[k]
                                \/ k = Key(m.flow) /\ m.block /\ held'[k] = 0
    BY <1>3, <1>4, ModFlow
  <1>11. /\ in'[c] = q
         /\ \A d \in Conns \ {c} : in'[d] = in[d]
    BY <1>6 DEF TypeOK
  <1>12. TypeOK'
    <2>1. in' \in [Conns -> Seq(Commands)]
      BY <1>2, <1>6 DEF TypeOK
    <2>2. timers' \in [Slots -> Timers \cup {NoTimer}]
      BY <1>7, <1>8 DEF TypeOK
    <2>. QED BY <1>6, <1>10, <2>1, <2>2 DEF TypeOK
  <1>13. /\ timers'[s] = t
         /\ \A r \in Slots \ {s} : timers'[r] = timers[r]
    BY <1>7 DEF TypeOK
  <1>14. BlockHasTimer'
    <2>1. SUFFICES ASSUME NEW k \in blocked'
                   PROVE  \E r \in Slots : Removes(r, k)'
      BY DEF BlockHasTimer
    <2>2. CASE k \in blocked /\ held'[k] = held[k]
      <3>1. PICK r \in Slots : Removes(r, k)
        BY <2>2 DEF BlockHasTimer
      <3>2. timers'[r] = timers[r]
        BY <1>7, <1>13, <3>1 DEF Removes
      <3>. QED BY <2>2, <3>1, <3>2 DEF Removes
    <2>3. CASE k = Key(m.flow) /\ held'[k] = 0
      <3>1. t.flow = m.flow /\ t.left = Timeout
        OBVIOUS
      <3>2. Removes(s, k)'
        BY <1>9, <1>13, <2>3, <3>1, TimeoutNat DEF Removes
      <3>. QED BY <3>2
    <2>. QED BY <1>10, <2>1, <2>2, <2>3
  <1>15. NoPhantomBlock'
    <2>1. m.block => Key(m.flow) \in asked
      <3>1. 1 \in 1..Len(in[c]) /\ ~(part[c] /\ 1 = Len(in[c]))
        BY <1>1, <1>2 DEF OnlyPart
      <3>. QED BY <1>2, <3>1 DEF WholeCommandsAsked
    <2>. QED BY <1>10, <2>1 DEF NoPhantomBlock
  <1>16. WholeCommandsAsked'
    <2>1. SUFFICES ASSUME NEW d \in Conns, NEW i \in 1..Len(in'[d]),
                          in'[d][i].block, ~(part[d] /\ i = Len(in'[d]))
                   PROVE  Key(in'[d][i].flow) \in asked
      BY <1>6 DEF WholeCommandsAsked
    <2>2. CASE d # c
      BY <1>11, <2>1, <2>2 DEF WholeCommandsAsked
    <2>3. CASE d = c
      <3>1. i \in 1..n - 1 /\ i + 1 \in 1..n /\ (i = Len(in'[d]) <=> i + 1 = n)
        <4>1. Len(in'[d]) = n - 1
          BY <1>2, <1>11, <2>3
        <4>2. n \in Nat /\ i \in 1..n - 1
          BY <4>1
        <4>. QED BY <4>1, <4>2
      <3>2. in'[d][i] = in[c][i + 1]
        BY <1>2, <1>11, <2>3, <3>1
      <3>3. ~(part[c] /\ i + 1 = n)
        BY <2>1, <2>3, <3>1
      <3>. QED BY <1>2, <2>1, <3>1, <3>2, <3>3 DEF WholeCommandsAsked
    <2>. QED BY <2>2, <2>3
  <1>17. WaitsOnOpenConnection'
    <2>1. ASSUME NEW d \in Conns, part'[d] PROVE in'[d] # <<>>
      <3>1. CASE d # c
        BY <1>6, <1>11, <2>1, <3>1 DEF WaitsOnOpenConnection
      <3>2. CASE d = c
        <4>1. n # 1
          BY <1>1, <1>2, <1>6, <2>1, <3>2 DEF OnlyPart
        <4>2. n > 1
          <5>1. n >= 1
            BY <1>2, Zenon
          <5>. QED BY <4>1, <5>1
        <4>3. q # <<>>
          BY <1>2, <4>2
        <4>. QED BY <1>11, <3>2, <4>3
      <3>. QED BY <3>1, <3>2
    <2>. QED BY <1>6, <2>1 DEF WaitsOnOpenConnection
  <1>. QED BY <1>12, <1>14, <1>15, <1>16, <1>17

\* A timer runs out: only the element it names leaves the set, and every
\* other element keeps the timer it had (unblock_flow).
LEMMA TimerStep ==
  ASSUME IInv, NEW s \in Slots, unblock_flow(s)
  PROVE  IInv'
  <1>. USE DEF IInv, streams
  <1>. DEFINE f == timers[s].flow
  <1>1. /\ timers[s] # NoTimer
        /\ telex_local_mod_flow(f, FALSE)
        /\ timers' = [timers EXCEPT ![s] = NoTimer]
        /\ UNCHANGED <<alive, fd, eof, in, part, reading, asked>>
    BY DEF unblock_flow
  <1>2. f \in Flows
    BY <1>1, ArmedTimer
  <1>3. /\ blocked' \in SUBSET Keys
        /\ held' \in [Keys -> 0..Timeout + 1]
        /\ \A k \in blocked' : k \in blocked /\ held'[k] = held[k]
        /\ Key(f) \notin blocked'
    BY <1>1, <1>2, ModFlow
  <1>4. TypeOK'
    BY <1>1, <1>3 DEF TypeOK
  <1>5. BlockHasTimer'
    <2>1. SUFFICES ASSUME alive, NEW k \in blocked'
                   PROVE  \E r \in Slots : Removes(r, k)'
      BY <1>1 DEF BlockHasTimer
    <2>2. PICK r \in Slots : Removes(r, k)
      BY <1>3, <2>1 DEF BlockHasTimer
    <2>3. r # s
      BY <1>3, <2>2 DEF Removes
    <2>4. timers'[r] = timers[r]
      BY <1>1, <2>3 DEF TypeOK
    <2>. QED BY <1>3, <2>2, <2>4 DEF Removes
  <1>6. NoPhantomBlock'
    BY <1>1, <1>3 DEF NoPhantomBlock
  <1>7. WaitsOnOpenConnection' /\ WholeCommandsAsked'
    BY <1>1 DEF WaitsOnOpenConnection, WholeCommandsAsked
  <1>. QED BY <1>4, <1>5, <1>6, <1>7

\* The process ends: nothing is promised of the set while it is down
\* (handle_sigint, and handle_error's exit).
LEMMA ExitStep ==
  ASSUME IInv, handle_sigint
  PROVE  IInv'
  <1>. USE DEF IInv
  <1>1. /\ alive' = FALSE
        /\ fd' = [c \in Conns |-> IF fd[c] = "none" THEN "none" ELSE "closed"]
        /\ eof' = [c \in Conns |-> FALSE]
        /\ in' = [c \in Conns |-> <<>>]
        /\ part' = [c \in Conns |-> FALSE]
        /\ reading' = NoConn
        /\ timers' = [s \in Slots |-> NoTimer]
        /\ UNCHANGED <<blocked, held, asked>>
    BY DEF handle_sigint
  <1>2. TypeOK'
    <2>1. in' \in [Conns -> Seq(Commands)]
      BY <1>1
    <2>2. eof' \in [Conns -> BOOLEAN] /\ part' \in [Conns -> BOOLEAN]
      BY <1>1
    <2>. QED BY <1>1, <2>1, <2>2 DEF TypeOK
  <1>3. BlockHasTimer' /\ NoPhantomBlock'
    BY <1>1 DEF BlockHasTimer, NoPhantomBlock
  <1>4. WaitsOnOpenConnection' /\ WholeCommandsAsked'
    BY <1>1 DEF WaitsOnOpenConnection, WholeCommandsAsked
  <1>. QED BY <1>2, <1>3, <1>4

\* router.sh empties the set before it starts the process (main).
LEMMA MainStep ==
  ASSUME IInv, main
  PROVE  IInv'
  <1>. USE DEF IInv, streams
  <1>1. /\ ~alive /\ alive' = TRUE
        /\ blocked' = {}
        /\ held' = [k \in Keys |-> 0]
        /\ UNCHANGED <<fd, eof, in, part, reading, timers, asked>>
    BY DEF main
  <1>2. TypeOK'
    <2>1. held' \in [Keys -> 0..Timeout + 1]
      BY <1>1, TimeoutNat
    <2>. QED BY <1>1, <2>1 DEF TypeOK
  <1>3. BlockHasTimer' /\ NoPhantomBlock'
    BY <1>1 DEF BlockHasTimer, NoPhantomBlock
  <1>4. WaitsOnOpenConnection' /\ WholeCommandsAsked'
    BY <1>1 DEF WaitsOnOpenConnection, WholeCommandsAsked
  <1>. QED BY <1>2, <1>3, <1>4

\* The clock moves on: a timer and the history of its element move together,
\* and a due timer stays due.
LEMMA TickStep ==
  ASSUME IInv, Tick
  PROVE  IInv'
  <1>. USE DEF IInv, streams
  <1>1. UNCHANGED <<alive, fd, eof, in, part, reading, blocked, asked>>
    BY DEF Tick
  <1>2. ASSUME NEW s \in Slots
        PROVE  /\ timers[s] = NoTimer => timers'[s] = NoTimer
               /\ timers[s] # NoTimer =>
                    /\ timers'[s] \in Timers
                    /\ timers'[s].flow = timers[s].flow
                    /\ timers'[s].left = IF timers[s].left = 0 THEN 0 ELSE timers[s].left - 1
    <2>1. timers'[s] = IF timers[s] = NoTimer \/ Due(s) THEN timers[s]
                       ELSE [timers[s] EXCEPT !.left = timers[s].left - 1]
      BY DEF Tick
    <2>2. CASE timers[s] = NoTimer
      BY <2>1, <2>2
    <2>3. CASE timers[s] # NoTimer /\ timers[s].left = 0
      <3>1. timers'[s] = timers[s]
        BY <2>1, <2>3 DEF Due
      <3>. QED BY <2>3, <3>1, ArmedTimer
    <2>4. CASE timers[s] # NoTimer /\ timers[s].left # 0
      <3>1. timers'[s] = [timers[s] EXCEPT !.left = timers[s].left - 1]
        BY <2>1, <2>4 DEF Due
      <3>2. /\ timers[s] \in [flow : Flows, left : 0..Timeout]
            /\ timers[s].left - 1 \in 0..Timeout
        BY <2>4, ArmedTimer, TimeoutNat DEF Timers
      <3>. QED BY <2>4, <3>1, <3>2 DEF Timers
    <2>. QED BY <2>2, <2>3, <2>4
  <1>3. /\ timers' \in [Slots -> Timers \cup {NoTimer}]
        /\ held' \in [Keys -> 0..Timeout + 1]
    <2>1. DOMAIN timers' = Slots /\ timers' = [s \in Slots |-> timers'[s]]
      BY DEF Tick
    <2>2. \A s \in Slots : timers'[s] \in Timers \cup {NoTimer}
      BY <1>2
    <2>3. \A k \in Keys : held[k] \in 0..Timeout + 1
      BY DEF TypeOK
    <2>4. held' \in [Keys -> 0..Timeout + 1]
      BY <2>3, TimeoutNat DEF Tick
    <2>. QED BY <2>1, <2>2, <2>4
  <1>4. TypeOK'
    BY <1>1, <1>3 DEF TypeOK
  <1>5. BlockHasTimer'
    <2>1. SUFFICES ASSUME alive, NEW k \in blocked
                   PROVE  \E s \in Slots : Removes(s, k)'
      BY <1>1 DEF BlockHasTimer
    <2>2. PICK s \in Slots : Removes(s, k)
      BY <2>1 DEF BlockHasTimer
    <2>3. /\ timers[s].left \in 0..Timeout
          /\ held[k] \in 0..Timeout + 1
      BY <2>2, ArmedTimer DEF Removes, TypeOK
    <2>4. held'[k] <= held[k] + 1 /\ held'[k] \in 0..Timeout + 1
      BY <1>3, <2>3, TimeoutNat DEF Tick, TypeOK
    <2>5. timers'[s] # NoTimer /\ timers'[s].flow = timers[s].flow
      <3>1. timers'[s] \in Timers /\ timers'[s].flow = timers[s].flow
        BY <1>2, <2>2 DEF Removes
      <3>2. \A t \in Timers : t \in [flow : Flows, left : Nat]
        BY TimeoutNat DEF Timers
      <3>. QED BY <3>1, <3>2, NamesAssumption
    <2>6. timers'[s].left = 0 \/ timers'[s].left + held'[k] <= Timeout
      <3>1. CASE timers[s].left = 0
        BY <1>2, <2>2, <3>1 DEF Removes
      <3>2. CASE timers[s].left # 0
        <4>1. /\ timers'[s].left = timers[s].left - 1
              /\ timers[s].left + held[k] <= Timeout
          BY <1>2, <2>2, <3>2 DEF Removes
        <4>. QED BY <2>3, <2>4, <4>1, TimeoutNat
      <3>. QED BY <3>1, <3>2
    <2>. QED BY <2>2, <2>5, <2>6 DEF Removes
  <1>6. NoPhantomBlock' /\ WaitsOnOpenConnection' /\ WholeCommandsAsked'
    BY <1>1 DEF NoPhantomBlock, WaitsOnOpenConnection, WholeCommandsAsked
  <1>. QED BY <1>4, <1>5, <1>6

-----------------------------------------------------------------------------
(* The theorems.                                                           *)

\* Every step of the flow blocker, of its controllers and of the clock keeps
\* the inductive invariant.
LEMMA StepInv == IInv /\ [Next]_vars => IInv'
  <1>. SUFFICES ASSUME IInv, [Next]_vars PROVE IInv'
    OBVIOUS
  <1>1. CASE UNCHANGED vars
    BY <1>1 DEF vars, IInv, TypeOK, BlockHasTimer, Removes, NoPhantomBlock,
                WaitsOnOpenConnection, WholeCommandsAsked
  <1>2. ASSUME NEW c \in Conns, on_read_ready(c) PROVE IInv'
    BY <1>2, RecvWithoutCommand, RecvCommandStep DEF on_read_ready
  <1>3. ASSUME NEW c \in Conns,
               on_accept_ready(c) \/ telex_connect_to_flow_blocker(c) \/ ControllerCloses(c)
        PROVE  IInv'
    BY <1>3, ConnectionSteps
  <1>4. ASSUME NEW c \in Conns, telex_remote_mod_flow(c) \/ RestArrives(c) PROVE IInv'
    BY <1>4, SendStep, RestStep
  <1>5. ASSUME NEW s \in Slots, unblock_flow(s) PROVE IInv'
    BY <1>5, TimerStep
  <1>6. CASE handle_sigint \/ main \/ Tick
    BY <1>6, ExitStep, MainStep, TickStep
  <1>. QED BY <1>1, <1>2, <1>3, <1>4, <1>5, <1>6 DEF Next

\* IInv holds in every reachable state of the flow blocker.
THEOREM Invariance == Spec => []IInv
  <1>1. Init => IInv
    BY InitInv
  <1>2. IInv /\ [Next]_vars => IInv'
    BY StepInv
  <1>. QED BY <1>1, <1>2, PTL DEF Spec

\* Every variable keeps its type; no timer ever has more than FLOW_TIMEOUT
\* left.
THEOREM TypeCorrect == Spec => []TypeOK
  <1>1. IInv => TypeOK
    BY DEF IInv
  <1>. QED BY <1>1, Invariance, PTL

\* Every element of OURSET has an armed timer that removes it in time, while
\* the process runs.
THEOREM BlockHasTimerHolds == Spec => []BlockHasTimer
  <1>1. IInv => BlockHasTimer
    BY DEF IInv
  <1>. QED BY <1>1, Invariance, PTL

\* Nothing is in OURSET that no controller asked in full to block.
THEOREM NoPhantomBlockHolds == Spec => []NoPhantomBlock
  <1>1. IInv => NoPhantomBlock
    BY DEF IInv
  <1>. QED BY <1>1, Invariance, PTL

\* No element outstays FLOW_TIMEOUT while the loop runs its timers.
THEOREM NeverOverdueHolds == Spec => NeverOverdue
  <1>1. ASSUME IInv, Tick, alive, reading = NoConn, NEW k \in blocked
        PROVE  held'[k] <= Timeout
    <2>1. PICK s \in Slots : Removes(s, k)
      BY <1>1 DEF IInv, BlockHasTimer
    <2>2. timers[s].left # 0
      BY <1>1, <2>1 DEF Tick, Due, Removes
    <2>3. timers[s].left \in 0..Timeout /\ held[k] \in 0..Timeout + 1 /\ k \in Keys
      BY <1>1, <2>1, ArmedTimer DEF IInv, TypeOK, Removes
    <2>4. timers[s].left + held[k] <= Timeout
      BY <2>1, <2>2 DEF Removes
    <2>5. held[k] + 1 <= Timeout
      <3>1. timers[s].left \in Nat /\ held[k] \in Nat
        BY <2>3, TimeoutNat
      <3>2. \A l, h, t \in Nat : l # 0 /\ l + h <= t => h + 1 <= t
        OBVIOUS
      <3>. QED BY <2>2, <2>4, <3>1, <3>2, TimeoutNat, Zenon
    <2>6. held'[k] = held[k] + 1
      BY <1>1, <2>3, <2>5, TimeoutNat DEF Tick
    <2>. QED BY <2>5, <2>6
  <1>2. IInv => (Tick /\ alive /\ reading = NoConn => \A k \in blocked : held'[k] <= Timeout)
    BY <1>1
  <1>3. IInv /\ [Next]_vars
          => [Tick /\ alive /\ reading = NoConn => \A k \in blocked : held'[k] <= Timeout]_vars
    BY <1>2
  <1>. QED BY <1>3, Invariance, PTL DEF Spec, NeverOverdue

=============================================================================
