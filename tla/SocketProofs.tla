---------------------------- MODULE SocketProofs ----------------------------
(***************************************************************************)
(* Proofs about the forged socket: the hand-over of a flow from Bro to     *)
(* bronnect (HandOver), for records of any length and any way to cut the   *)
(* streams into packets, and the ioctl that makes the socket               *)
(* (ForgedSocket), for any number of tasks and CPUs.                       *)
(*                                                                         *)
(* HandOver.  HInv is inductive whatever packets there are: it ties the    *)
(* state of Bro's entry to the records that Bro has seen, and so the       *)
(* numbers of the socket to the flights they end.  PlaceInv, the bytes in  *)
(* their places, needs besides that the server's last two messages are     *)
(* not cut apart.                                                          *)
(*                                                                         *)
(* ForgedSocket.  ForgeInv is inductive; the theorems follow from it.      *)
(***************************************************************************)
EXTENDS HandOver, ForgedSocket, FiniteSetTheorems, TLAPS

-----------------------------------------------------------------------------
(* The hand-over: definitions.                                             *)

\* Where the server's last two messages begin.
K == ServerEnds.key

\* No packet of the server begins within them.
LastFlightTogether == \A seg \in ServerSegments : seg[2] > K => seg[1] = K

NumbersRight(e) == e.seq = K /\ e.ack = ClientEnd

\* The positions a packet fills.
Fills(m) == m.at..(m.at + (m.data[2] - m.data[1]) - 1)

\* The command to block is on the way or has been carried out, and none to
\* unblock follows it.
StaysBlocked == cmds = <<TRUE>> \/ (cmds = <<>> /\ blocked)

\* While Bro follows the flow there is no socket yet; while either of them has
\* the flow, the router blocks it or will.
CmdsInv ==
  /\ entry.state # 0 => sock = NoSocket
  /\ entry.state # 0 \/ sock # NoSocket => StaysBlocked

\* Bro has a copy of all of the server's stream that is on the way.
NetInv == \A m \in net : Fills(m) \cap 0..(ServerEnd - 1) \subseteq seen.resp

\* Bro has a copy of all that either side has; the client's flight follows the
\* server's key exchange, and the server's last messages follow that flight.
SeenInv ==
  /\ server \subseteq seen.orig
  /\ (\E p \in seen.resp : p >= K) => Delivered(ClientEnd, seen.orig)
  /\ seen.orig # {} => Delivered(K, seen.resp)
  /\ Received(client) \cap 0..(ServerEnd - 1) \subseteq seen.resp

\* The state of an entry tells which records Bro has seen, and the numbers are
\* right once the client's flight is complete.
EntryInv ==
  /\ entry.state = 1 => ~Delivered(ClientEnds.ccs, seen.orig)
  /\ entry.state \in {2, 4} /\ Delivered(ClientEnd, seen.orig) => NumbersRight(entry)
  /\ entry.state = 4 => Delivered(ServerEnds.ccs, seen.resp)
SockInv == sock # NoSocket => NumbersRight(sock) /\ Delivered(ServerEnd, seen.resp)

\* The inductive invariant, for any way to cut the streams.
HInv == TypeOK /\ CmdsInv /\ NetInv /\ SeenInv /\ EntryInv /\ SockInv

\* What is inductive besides when the last two messages stay together.
PlaceInv ==
  /\ \A p \in seen.resp : K..p \subseteq seen.resp
  /\ sock # NoSocket => sock.raw = <<K, ServerEnd>>
  /\ \A m \in net : m.data[1] = m.at
  /\ StreamIntact

-----------------------------------------------------------------------------
(* Numbers and streams.                                                    *)

\* Every set of numbers that is not empty has a least one.
LEMMA Least ==
  ASSUME NEW T \in SUBSET Nat, T # {}
  PROVE  \E x \in T : \A y \in T : x <= y
  <1>. DEFINE R == OpToRel(<, Nat)
  <1>1. IsWellFoundedOn(R, Nat)
    BY NatLessThanWellFounded, Zenon
  <1>2. \A x, y \in Nat : y < x => <<y, x>> \in R
    BY DEF OpToRel
  <1>. HIDE DEF R
  <1>3. \E x \in T : \A y \in T : ~ (<<y, x>> \in R)
    BY <1>1, WFMin, Zenon
  <1>4. PICK x \in T : \A y \in T : ~ (<<y, x>> \in R)
    BY <1>3
  <1>5. ASSUME NEW y \in T PROVE x <= y
    <2>1. ~ (y < x)
      BY <1>2, <1>4, Zenon
    <2>. QED BY <2>1
  <1>. QED BY <1>5

\* A sequence of two, built up.
LEMMA AppendToOne ==
  ASSUME NEW S, NEW x \in S, NEW y \in S
  PROVE  Append(<<x>>, y) = <<x, y>>
  <1>. DEFINE one == <<x>>
              t == Append(one, y)
              u == <<x, y>>
  <1>1. one \in Seq(S) /\ Len(one) = 1 /\ one[1] = x
    OBVIOUS
  <1>2. u \in Seq(S) /\ Len(u) = 2 /\ u[1] = x /\ u[2] = y
    OBVIOUS
  <1>. HIDE DEF one, u
  <1>3. t \in Seq(S) /\ Len(t) = 2 /\ t[1] = x /\ t[2] = y
    BY <1>1 DEF one
  <1>. HIDE DEF t
  <1>4. t = u
    BY <1>2, <1>3
  <1>. QED BY <1>4 DEF t, u, one

\* The assumptions on the constants, one by one.
LEMMA EndsFacts ==
  /\ ClientEnds.key \in Nat /\ ClientEnds.ccs \in Nat /\ ClientEnd \in Nat
  /\ ServerEnds.key \in Nat /\ ServerEnds.ccs \in Nat /\ ServerEnd \in Nat
  /\ 0 < ClientEnds.key /\ ClientEnds.key < ClientEnds.ccs /\ ClientEnds.ccs < ClientEnd
  /\ 0 < ServerEnds.key /\ ServerEnds.key < ServerEnds.ccs /\ ServerEnds.ccs < ServerEnd
  <1>1. ClientEnds \in [key : Nat, ccs : Nat, fin : Nat]
        /\ 0 < ClientEnds.key /\ ClientEnds.key < ClientEnds.ccs /\ ClientEnds.ccs < ClientEnds.fin
    BY EndsAssumption
  <1>2. ServerEnds \in [key : Nat, ccs : Nat, fin : Nat]
        /\ 0 < ServerEnds.key /\ ServerEnds.key < ServerEnds.ccs /\ ServerEnds.ccs < ServerEnds.fin
    BY EndsAssumption
  <1>. QED BY <1>1, <1>2 DEF ClientEnd, ServerEnd

\* last_seq is one more than a number it has seen, or 0, and above them all.
LEMMA LastSeqIs ==
  ASSUME NEW N \in Nat, NEW have \in SUBSET (0..(N - 1))
  PROVE  /\ last_seq(have) \in 0..N
         /\ \A p \in have : p < last_seq(have)
         /\ last_seq(have) = 0 \/ last_seq(have) - 1 \in have
  <1>. DEFINE T == {n \in Nat : \A p \in have : p < n}
  <1>1. N \in T
    OBVIOUS
  <1>2. PICK x \in T : \A y \in T : x <= y
    BY <1>1, Least, Zenon
  <1>3. x = 0 \/ x - 1 \in have
    <2>1. SUFFICES ASSUME x # 0, x - 1 \notin have PROVE FALSE
      OBVIOUS
    <2>2. x - 1 \in T
      BY <2>1
    <2>. QED BY <2>2, <1>2
  <1>4. x \in {0} \cup {p + 1 : p \in have}
    <2>1. CASE x = 0
      BY <2>1
    <2>2. CASE x - 1 \in have
      <3>1. x = (x - 1) + 1
        OBVIOUS
      <3>. QED BY <2>2, <3>1
    <2>. QED BY <1>3, <2>1, <2>2
  <1>5. \A p \in have : p < x
    OBVIOUS
  <1>6. /\ last_seq(have) \in {0} \cup {p + 1 : p \in have}
        /\ \A p \in have : p < last_seq(have)
    BY <1>4, <1>5, Zenon DEF last_seq
  <1>7. last_seq(have) = 0 \/ \E p \in have : last_seq(have) = p + 1
    BY <1>6
  <1>. QED BY <1>6, <1>7

\* Of a stream seen up to n without a gap and not beyond, last_seq is n.
LEMMA LastSeqOfPrefix ==
  ASSUME NEW N \in Nat, NEW have \in SUBSET (0..(N - 1)), NEW n \in Nat,
         Delivered(n, have), \A p \in have : p < n
  PROVE  last_seq(have) = n
  <1>1. /\ last_seq(have) \in 0..N
        /\ \A p \in have : p < last_seq(have)
        /\ last_seq(have) = 0 \/ last_seq(have) - 1 \in have
    BY LastSeqIs
  <1>2. n = 0 \/ n - 1 \in have
    BY DEF Delivered
  <1>. QED BY <1>1, <1>2

\* What has been delivered stays so with more bytes, and all before it has been.
LEMMA DeliveredMore ==
  ASSUME NEW m \in Nat, NEW n \in Nat, m <= n,
         NEW have, NEW more, have \subseteq more, Delivered(n, have)
  PROVE  Delivered(m, more)
  BY DEF Delivered

\* A stream delivered to its end has no other byte.
LEMMA DeliveredWhole ==
  ASSUME NEW N \in Nat, NEW have \in SUBSET (0..(N - 1)), Delivered(N, have)
  PROVE  last_seq(have) = N
  BY LastSeqOfPrefix

-----------------------------------------------------------------------------
(* Bro's handlers.                                                         *)

Entries == [state : {0, 1, 2, 4, 5}, seq : 0..ServerEnd, ack : 0..ClientEnd]
Copies == [orig : SUBSET (0..(ClientEnd - 1)), resp : SUBSET (0..(ServerEnd - 1))]

\* A handler keeps the type of an entry, and starts none.
LEMMA RecordType ==
  ASSUME NEW e \in Entries, NEW typ, NEW is_orig \in BOOLEAN, NEW s \in Copies, NEW ok \in BOOLEAN
  PROVE  /\ ssl_record(e, typ, is_orig, s, ok) \in Entries
         /\ e.state = 0 => ssl_record(e, typ, is_orig, s, ok).state = 0
  <1>. DEFINE f == ssl_record(e, typ, is_orig, s, ok)
  <1>1. last_seq(s.orig) \in 0..ClientEnd /\ last_seq(s.resp) \in 0..ServerEnd
    BY LastSeqIs, EndsFacts DEF Copies
  <1>2. f \in {e, ssl_change_cipher(e, is_orig), ssl_handshake(e, is_orig, s, ok)}
    BY DEF ssl_record
  <1>3. Untracked \in Entries /\ Untracked.state = 0
    BY EndsFacts DEF Untracked, Entries
  <1>4. /\ ssl_change_cipher(e, is_orig) \in Entries
        /\ e.state = 0 => ssl_change_cipher(e, is_orig).state = 0
    BY <1>3 DEF ssl_change_cipher, Entries
  <1>. DEFINE g == IF e.state >= 2 /\ is_orig THEN WithNumbers(e, s) ELSE e
  <1>5. g \in Entries /\ g.state = e.state
    BY <1>1, Zenon DEF WithNumbers, Entries
  <1>6. ssl_handshake(e, is_orig, s, ok) \in {g, [g EXCEPT !.state = 5], Untracked}
        /\ (e.state = 0 => ssl_handshake(e, is_orig, s, ok) = g)
    BY <1>5 DEF ssl_handshake
  <1>. HIDE DEF g
  <1>7. [g EXCEPT !.state = 5] \in Entries
    BY <1>5 DEF Entries
  <1>. QED BY <1>2, <1>3, <1>4, <1>5, <1>6, <1>7

\* The same of the records of one packet.
LEMMA BlockType ==
  ASSUME TypeOK, NEW is_orig \in BOOLEAN, NEW s \in Copies, NEW ok \in BOOLEAN
  PROVE  /\ BlockInserted(is_orig, s, ok) \in Entries
         /\ entry.state = 0 => BlockInserted(is_orig, s, ok).state = 0
  <1>. DEFINE key == ssl_record(entry, "key", is_orig, s, ok)
              ccs == ssl_record(key, "ccs", is_orig, s, ok)
              fin == ssl_record(ccs, "fin", is_orig, s, ok)
  <1>1. entry \in Entries
    BY DEF TypeOK, Entries
  <1>2. key \in Entries /\ (entry.state = 0 => key.state = 0)
    BY <1>1, RecordType
  <1>. HIDE DEF key
  <1>3. ccs \in Entries /\ (entry.state = 0 => ccs.state = 0)
    BY <1>2, RecordType
  <1>. HIDE DEF ccs
  <1>4. fin \in Entries /\ (entry.state = 0 => fin.state = 0)
    BY <1>3, RecordType
  <1>5. BlockInserted(is_orig, s, ok) = fin
    BY DEF BlockInserted, key, ccs
  <1>. HIDE DEF fin
  <1>. QED BY <1>4, <1>5

\* What the records of a packet of the client make of an entry.
AfterClient(e, s) ==
  /\ e.state # 5
  /\ e.state = 1 => ~Delivered(ClientEnds.ccs, s.orig)
  /\ e.state \in {2, 4} /\ Delivered(ClientEnd, s.orig) => NumbersRight(e)
  /\ e.state = 4 => entry.state = 4

\* A packet of the client never leads to the hand-over, and completes the
\* client's flight only with the right numbers noted, if the flow is followed.
LEMMA ClientBlock ==
  ASSUME TypeOK, SeenInv, EntryInv, NEW s \in Copies, NEW ok \in BOOLEAN,
         seen.orig \subseteq s.orig, s.resp = seen.resp, Delivered(K, seen.resp)
  PROVE  AfterClient(BlockInserted(TRUE, s, ok), s)
  <1>. DEFINE key == ssl_record(entry, "key", TRUE, s, ok)
              ccs == ssl_record(key, "ccs", TRUE, s, ok)
              fin == ssl_record(ccs, "fin", TRUE, s, ok)
              old(n) == Delivered(n, seen.orig)
              new(n) == Delivered(n, s.orig)
  <1>1. /\ key = IF old(ClientEnds.key) \/ ~new(ClientEnds.key) THEN entry
                 ELSE ssl_handshake(entry, TRUE, s, ok)
        /\ ccs = IF old(ClientEnds.ccs) \/ ~new(ClientEnds.ccs) THEN key
                 ELSE ssl_change_cipher(key, TRUE)
        /\ fin = IF old(ClientEnd) \/ ~new(ClientEnd) THEN ccs
                 ELSE ssl_handshake(ccs, TRUE, s, ok)
    BY Zenon DEF ssl_record, ClientEnd
  <1>2. BlockInserted(TRUE, s, ok) = fin
    BY DEF BlockInserted
  <1>. HIDE DEF key, ccs, fin
  <1>3. /\ old(ClientEnd) => old(ClientEnds.ccs) /\ new(ClientEnd)
        /\ old(ClientEnds.ccs) => old(ClientEnds.key)
        /\ new(ClientEnd) => new(ClientEnds.ccs)
    BY EndsFacts, DeliveredMore
  <1>4. entry \in [state : {0, 1, 2, 4}, seq : 0..ServerEnd, ack : 0..ClientEnd]
    BY DEF TypeOK
  <1>5. CASE old(ClientEnd)
    <2>1. fin = entry
      BY <1>1, <1>3, <1>5
    <2>2. entry.state # 1 /\ (entry.state \in {2, 4} => NumbersRight(entry))
      BY <1>3, <1>5 DEF EntryInv
    <2>3. ~(entry.state = 5)
      BY <1>4
    <2>. QED BY <1>2, <2>1, <2>2, <2>3, Zenon DEF AfterClient
  <1>6. CASE ~old(ClientEnd)
    <2>1. entry.state # 4
      <3>1. SUFFICES ASSUME entry.state = 4 PROVE FALSE
        OBVIOUS
      <3>2. Delivered(ServerEnds.ccs, seen.resp)
        BY <3>1 DEF EntryInv
      <3>3. K \in seen.resp
        BY <3>2, EndsFacts DEF Delivered, K
      <3>. QED BY <3>3, <1>6, EndsFacts DEF SeenInv, K
    <2>2. key.state = entry.state
      BY <1>1, <1>4, <2>1, Zenon DEF ssl_handshake, WithNumbers
    <2>3. key.state \in {0, 1, 2}
      BY <1>4, <2>1, <2>2
    <2>4. /\ ccs.state \in {0, 1, 2}
          /\ ccs.state = 1 => key = ccs /\ ~new(ClientEnds.ccs)
      <3>1. CASE old(ClientEnds.ccs)
        <4>1. entry.state # 1
          BY <3>1 DEF EntryInv
        <4>2. ccs = key
          BY <3>1, <1>1
        <4>. QED BY <4>1, <4>2, <2>2, <2>3
      <3>2. CASE ~new(ClientEnds.ccs)
        <4>1. ccs = key
          BY <3>2, <1>1
        <4>. QED BY <4>1, <2>3, <3>2
      <3>3. CASE ~old(ClientEnds.ccs) /\ new(ClientEnds.ccs)
        <4>1. ccs = ssl_change_cipher(key, TRUE)
          BY <3>3, <1>1, Zenon
        <4>2. ccs.state \in {0, 2}
          BY <4>1, <2>3 DEF ssl_change_cipher, Untracked
        <4>. QED BY <4>2
      <3>. QED BY <3>1, <3>2, <3>3
    <2>5. CASE ~new(ClientEnd)
      <3>1. fin = ccs
        BY <2>5, <1>1
      <3>2. ccs.state # 5 /\ ccs.state # 4
        BY <2>4
      <3>. QED BY <3>1, <3>2, <2>4, <2>5, <1>2, Zenon DEF AfterClient
    <2>6. CASE new(ClientEnd)
      <3>1. fin = ssl_handshake(ccs, TRUE, s, ok)
        BY <1>1, <1>6, <2>6
      <3>2. ccs.state \in {0, 2}
        BY <2>4, <1>3, <2>6
      <3>3. CASE ccs.state = 0
        <4>1. fin.state = 0
          BY <3>1, <3>3 DEF ssl_handshake
        <4>2. fin.state # 5 /\ fin.state # 1 /\ fin.state # 2 /\ fin.state # 4
          BY <4>1
        <4>. QED BY <4>2, <1>2, Zenon DEF AfterClient
      <3>4. CASE ccs.state = 2
        <4>1. fin = WithNumbers(ccs, s) /\ fin.state = 2
          BY <3>1, <3>4 DEF ssl_handshake, WithNumbers
        <4>2. last_seq(s.orig) = ClientEnd
          BY <2>6, EndsFacts, DeliveredWhole DEF Copies
        <4>3. \A p \in seen.resp : p < K
          BY <1>6, EndsFacts DEF SeenInv, K, TypeOK
        <4>4. last_seq(s.resp) = K
          BY <4>3, EndsFacts, LastSeqOfPrefix, Zenon DEF Copies, K
        <4>5. fin.seq = K /\ fin.ack = ClientEnd
          BY <4>1, <4>2, <4>4 DEF WithNumbers
        <4>6. fin.state # 5 /\ fin.state # 1 /\ fin.state # 4
          BY <4>1
        <4>. QED BY <4>5, <4>6, <1>2, Zenon DEF NumbersRight, AfterClient
      <3>. QED BY <3>2, <3>3, <3>4, Zenon
    <2>. QED BY <2>5, <2>6, Zenon
  <1>. QED BY <1>5, <1>6, Zenon

\* What the records of a packet of the server make of an entry.
AfterServer(e, s) ==
  /\ e.state = 1 => entry.state = 1
  /\ e.state \in {2, 4, 5} =>
       entry.state \in {2, 4} /\ e.seq = entry.seq /\ e.ack = entry.ack
  /\ e.state \in {4, 5} => Delivered(ServerEnds.ccs, s.resp)
  /\ e.state = 5 => Delivered(ServerEnd, s.resp) /\ ~Delivered(ServerEnd, seen.resp)

\* A packet of the server leaves the numbers alone, and leads to the hand-over
\* only when it completes the server's flight.
LEMMA ServerBlock ==
  ASSUME TypeOK, EntryInv, NEW s \in Copies, NEW ok \in BOOLEAN,
         seen.resp \subseteq s.resp, s.orig = seen.orig
  PROVE  AfterServer(BlockInserted(FALSE, s, ok), s)
  <1>. DEFINE key == ssl_record(entry, "key", FALSE, s, ok)
              ccs == ssl_record(key, "ccs", FALSE, s, ok)
              fin == ssl_record(ccs, "fin", FALSE, s, ok)
              old(n) == Delivered(n, seen.resp)
              new(n) == Delivered(n, s.resp)
  <1>1. /\ key = IF old(ServerEnds.key) \/ ~new(ServerEnds.key) THEN entry
                 ELSE ssl_handshake(entry, FALSE, s, ok)
        /\ ccs = IF old(ServerEnds.ccs) \/ ~new(ServerEnds.ccs) THEN key
                 ELSE ssl_change_cipher(key, FALSE)
        /\ fin = IF old(ServerEnd) \/ ~new(ServerEnd) THEN ccs
                 ELSE ssl_handshake(ccs, FALSE, s, ok)
    BY Zenon DEF ssl_record, ServerEnd
  <1>2. BlockInserted(FALSE, s, ok) = fin
    BY DEF BlockInserted
  <1>. HIDE DEF key, ccs, fin
  <1>3. /\ old(ServerEnds.ccs) => old(ServerEnds.key) /\ new(ServerEnds.ccs)
        /\ new(ServerEnd) => new(ServerEnds.ccs)
    BY EndsFacts, DeliveredMore
  <1>4. entry \in [state : {0, 1, 2, 4}, seq : 0..ServerEnd, ack : 0..ClientEnd]
    BY DEF TypeOK
  <1>5. entry.state = 4 => old(ServerEnds.ccs)
    BY DEF EntryInv
  <1>6. key = entry
    <2>1. CASE entry.state = 4
      BY <2>1, <1>1, <1>3, <1>5, Zenon
    <2>2. CASE entry.state # 4
      <3>1. ssl_handshake(entry, FALSE, s, ok) = entry
        BY <2>2 DEF ssl_handshake
      <3>. QED BY <3>1, <1>1, Zenon
    <2>. QED BY <2>1, <2>2
  <1>7. \/ ccs = entry /\ (entry.state = 4 => new(ServerEnds.ccs))
        \/ ccs.state = 0
        \/ entry.state = 2 /\ ccs = [entry EXCEPT !.state = 4] /\ new(ServerEnds.ccs)
    <2>1. CASE old(ServerEnds.ccs) \/ ~new(ServerEnds.ccs)
      BY <2>1, <1>1, <1>3, <1>5, <1>6, Zenon
    <2>2. CASE ~old(ServerEnds.ccs) /\ new(ServerEnds.ccs)
      <3>1. ccs = ssl_change_cipher(entry, FALSE)
        BY <2>2, <1>1, <1>6, Zenon
      <3>2. ccs.state = 0 \/ (entry.state = 2 /\ ccs = [entry EXCEPT !.state = 4])
        BY <3>1 DEF ssl_change_cipher, Untracked
      <3>. QED BY <2>2, <3>2, Zenon
    <2>. QED BY <2>1, <2>2, Zenon
  <1>8. /\ ccs.state \in {0, 1, 2, 4}
        /\ ccs.state = 1 => entry.state = 1
        /\ ccs.state \in {2, 4} => entry.state \in {2, 4} /\ ccs.seq = entry.seq /\ ccs.ack = entry.ack
    <2>1. CASE ccs = entry
      BY <2>1, <1>4
    <2>2. CASE ccs.state = 0
      BY <2>2
    <2>3. CASE entry.state = 2 /\ ccs = [entry EXCEPT !.state = 4]
      BY <2>3, <1>4
    <2>. QED BY <1>7, <2>1, <2>2, <2>3, Zenon
  <1>9. ccs.state = 4 => new(ServerEnds.ccs)
    <2>1. 0 # 4
      OBVIOUS
    <2>. QED BY <2>1, <1>7, Zenon
  <1>10. CASE old(ServerEnd) \/ ~new(ServerEnd)
    <2>1. fin = ccs
      BY <1>10, <1>1, Zenon
    <2>2. ccs.state # 5
      BY <1>8
    <2>. QED BY <2>1, <2>2, <1>2, <1>8, <1>9, Zenon DEF AfterServer
  <1>11. CASE ~old(ServerEnd) /\ new(ServerEnd)
    <2>1. fin = ssl_handshake(ccs, FALSE, s, ok)
      BY <1>11, <1>1, Zenon
    <2>2. CASE ccs.state # 4
      <3>1. fin = ccs
        BY <2>1, <2>2 DEF ssl_handshake
      <3>2. ccs.state # 5
        BY <1>8
      <3>. QED BY <3>1, <3>2, <1>2, <1>8, <1>9, Zenon DEF AfterServer
    <2>3. CASE ccs.state = 4
      <3>1. fin.state = 0 \/ (fin.state = 5 /\ fin.seq = ccs.seq /\ fin.ack = ccs.ack)
        <4>1. ssl_handshake(ccs, FALSE, s, ok) = IF ok THEN [ccs EXCEPT !.state = 5] ELSE Untracked
          BY <2>3 DEF ssl_handshake
        <4>2. CASE ok
          <5>1. ccs = entry \/ ccs = [entry EXCEPT !.state = 4]
            BY <1>7, <2>3
          <5>2. fin = [ccs EXCEPT !.state = 5]
            BY <2>1, <4>1, <4>2, Zenon
          <5>. QED BY <5>1, <5>2, <1>4
        <4>3. CASE ~ok
          <5>1. fin = Untracked
            BY <2>1, <4>1, <4>3, Zenon
          <5>2. Untracked.state = 0
            BY DEF Untracked
          <5>. QED BY <5>1, <5>2, Zenon
        <4>. QED BY <4>2, <4>3
      <3>2. CASE fin.state = 0
        <4>1. fin.state \notin {1, 2, 4, 5}
          BY <3>2
        <4>. QED BY <4>1, <1>2, Zenon DEF AfterServer
      <3>3. CASE fin.state = 5 /\ fin.seq = ccs.seq /\ fin.ack = ccs.ack
        <4>1. fin.state \notin {1, 2, 4}
          BY <3>3
        <4>. QED BY <4>1, <3>3, <2>3, <1>2, <1>8, <1>9, <1>11, Zenon DEF AfterServer
      <3>. QED BY <3>1, <3>2, <3>3, Zenon
    <2>. QED BY <2>2, <2>3, Zenon
  <1>. QED BY <1>10, <1>11, Zenon

-----------------------------------------------------------------------------
(* The invariant.                                                          *)

\* The packet of a segment of one side joins what Bro has seen.
LEMMA CopyType ==
  ASSUME TypeOK
  PROVE  /\ \A seg \in ClientSegments :
              LET s == [seen EXCEPT !.orig = @ \cup Covers(seg)]
              IN s \in Copies /\ s.orig = seen.orig \cup Covers(seg) /\ s.resp = seen.resp
         /\ \A seg \in ServerSegments :
              LET s == [seen EXCEPT !.resp = @ \cup Covers(seg)]
              IN s \in Copies /\ s.resp = seen.resp \cup Covers(seg) /\ s.orig = seen.orig
         /\ \A seg \in ClientSegments : Covers(seg) \subseteq 0..(ClientEnd - 1)
         /\ \A seg \in ServerSegments : Covers(seg) \subseteq 0..(ServerEnd - 1)
  <1>1. \A seg \in ClientSegments : Covers(seg) \subseteq 0..(ClientEnd - 1)
    BY SegmentsAssumption, EndsFacts DEF Segments, Covers
  <1>2. \A seg \in ServerSegments : Covers(seg) \subseteq 0..(ServerEnd - 1)
    BY SegmentsAssumption, EndsFacts DEF Segments, Covers
  <1>3. seen \in Copies
    BY DEF TypeOK, Copies
  <1>. QED BY <1>1, <1>2, <1>3 DEF Copies

\* AtTheStation keeps the type of what it changes, and lets Bro unblock a flow
\* once: with the entry goes the right to do so.
LEMMA StationType ==
  ASSUME TypeOK, CmdsInv, NEW is_orig \in BOOLEAN, NEW seg \in Segments(ServerEnd) \cup ClientSegments,
         is_orig \/ seg \in Segments(ServerEnd), NEW s \in Copies, NEW ok \in BOOLEAN,
         is_orig => BlockInserted(is_orig, s, ok).state # 5,
         AtTheStation(is_orig, seg, s, ok)
  PROVE  /\ seen' \in Copies
         /\ entry' \in [state : {0, 1, 2, 4}, seq : 0..ServerEnd, ack : 0..ClientEnd]
         /\ late' \in BOOLEAN /\ blocked' \in BOOLEAN
         /\ cmds' \in {<<>>, <<TRUE>>, <<FALSE>>, <<TRUE, FALSE>>}
         /\ sock' = NoSocket \/ sock' \in [seq : 0..ServerEnd, ack : 0..ClientEnd, raw : Segments(ServerEnd)]
         /\ CmdsInv'
  <1>. DEFINE e == BlockInserted(is_orig, s, ok)
  <1>1. e \in Entries /\ (entry.state = 0 => e.state = 0)
    BY BlockType
  <1>2. /\ seen' = s
        /\ entry' = IF HandsOver(e) \/ MissedTheBoat(e) THEN Untracked ELSE e
        /\ cmds' = IF entry.state # 0 /\ (e.state = 0 \/ MissedTheBoat(e))
                   THEN Append(cmds, FALSE) ELSE cmds
        /\ sock' = IF HandsOver(e) THEN [seq |-> e.seq, ack |-> e.ack, raw |-> seg] ELSE sock
        /\ late' = late /\ blocked' = blocked
    BY DEF AtTheStation
  <1>3. is_orig => e.state # 5
    BY Zenon
  <1>. HIDE DEF e
  <1>4. late \in BOOLEAN /\ blocked \in BOOLEAN
    BY DEF TypeOK
  <1>5. entry' \in [state : {0, 1, 2, 4}, seq : 0..ServerEnd, ack : 0..ClientEnd]
    <2>1. CASE e.state = 5
      <3>1. entry' = Untracked
        BY <2>1, <1>2, <1>4 DEF HandsOver, MissedTheBoat
      <3>. QED BY <3>1, EndsFacts DEF Untracked
    <2>2. CASE e.state # 5
      <3>1. entry' = e
        BY <2>2, <1>2 DEF HandsOver, MissedTheBoat
      <3>. QED BY <3>1, <2>2, <1>1 DEF Entries
    <2>. QED BY <2>1, <2>2
  <1>6. sock' = NoSocket \/ sock' \in [seq : 0..ServerEnd, ack : 0..ClientEnd, raw : Segments(ServerEnd)]
    <2>1. CASE HandsOver(e)
      <3>1. seg \in Segments(ServerEnd)
        BY <2>1, <1>3 DEF HandsOver
      <3>. QED BY <3>1, <2>1, <1>1, <1>2 DEF Entries
    <2>2. CASE ~HandsOver(e)
      <3>1. sock' = sock
        BY <2>2, <1>2
      <3>. QED BY <3>1 DEF TypeOK
    <2>. QED BY <2>1, <2>2
  <1>7. entry'.state # 0 => entry.state # 0 /\ sock' = sock
    BY <1>1, <1>2 DEF MissedTheBoat, HandsOver, Untracked
  <1>8. sock' # sock => entry.state # 0 /\ e.state # 0 /\ ~MissedTheBoat(e)
    BY <1>1, <1>2 DEF MissedTheBoat, HandsOver
  <1>9. cmds' \in {<<>>, <<TRUE>>, <<FALSE>>, <<TRUE, FALSE>>} /\ CmdsInv'
    <2>1. CASE entry.state # 0 /\ (e.state = 0 \/ MissedTheBoat(e))
      <3>1. cmds' = Append(cmds, FALSE) /\ cmds \in {<<>>, <<TRUE>>} /\ sock = NoSocket
        BY <2>1, <1>2, Zenon DEF CmdsInv, StaysBlocked
      <3>2. cmds' \in {<<FALSE>>, <<TRUE, FALSE>>}
        <4>1. Append(<<>>, FALSE) = <<FALSE>>
          OBVIOUS
        <4>. QED BY <3>1, <4>1, AppendToOne, Zenon
      <3>3. ~(entry'.state # 0) /\ sock' = NoSocket
        BY <2>1, <3>1, <1>2, <1>8 DEF Untracked, MissedTheBoat, HandsOver
      <3>. QED BY <3>2, <3>3, Zenon DEF CmdsInv
    <2>2. CASE ~(entry.state # 0 /\ (e.state = 0 \/ MissedTheBoat(e)))
      <3>1. cmds' = cmds /\ blocked' = blocked
        BY <2>2, <1>2, Zenon
      <3>2. cmds \in {<<>>, <<TRUE>>, <<FALSE>>, <<TRUE, FALSE>>}
        BY Zenon DEF TypeOK
      <3>3. StaysBlocked => StaysBlocked'
        BY <3>1, Zenon DEF StaysBlocked
      <3>. QED BY <3>1, <3>2, <3>3, <1>7, <1>8, Zenon DEF CmdsInv
    <2>. QED BY <2>1, <2>2, Zenon
  <1>. QED BY <1>2, <1>4, <1>5, <1>6, <1>9, Zenon

\* The initial state has both invariants.
LEMMA InitHInv == Init => HInv /\ PlaceInv
  <1>. SUFFICES ASSUME Init PROVE HInv /\ PlaceInv
    OBVIOUS
  <1>. USE DEF Init
  <1>1. TypeOK /\ CmdsInv
    <2>1. client \in [Positions -> 0..ServerEnd \cup {Nothing}]
      OBVIOUS
    <2>2. entry \in [state : {0, 1, 2, 4}, seq : 0..ServerEnd, ack : 0..ClientEnd]
      BY EndsFacts
    <2>. QED BY <2>1, <2>2, Zenon DEF TypeOK, CmdsInv, StaysBlocked
  <1>2. NetInv /\ SockInv
    BY DEF NetInv, SockInv
  <1>3. Received(client) = {}
    BY DEF Received
  <1>4. SeenInv
    BY <1>3 DEF SeenInv
  <1>5. EntryInv
    BY EndsFacts DEF EntryInv, Delivered
  <1>6. PlaceInv
    BY <1>3 DEF PlaceInv, StreamIntact
  <1>. QED BY <1>1, <1>2, <1>4, <1>5, <1>6 DEF HInv

\* With a packet of the client: Bro notes the numbers of the whole flight.
LEMMA ClientKeeps ==
  ASSUME HInv, NEW seg \in ClientSegments, NEW lost \in BOOLEAN, ClientSends(seg, lost)
  PROVE  HInv' /\ sock' = sock
  <1>. USE DEF HInv
  <1>. DEFINE s == [seen EXCEPT !.orig = @ \cup Covers(seg)]
  <1>1. PICK ok \in BOOLEAN :
          /\ AtTheStation(TRUE, seg, s, ok)
          /\ server' = IF Past(TRUE, s, ok) /\ ~lost THEN server \cup Covers(seg) ELSE server
    BY Zenon DEF ClientSends
  <1>2. s \in Copies /\ s.orig = seen.orig \cup Covers(seg) /\ s.resp = seen.resp
        /\ Covers(seg) \subseteq 0..(ClientEnd - 1)
    BY CopyType, Zenon
  <1>3. ClientHas(K) /\ UNCHANGED <<client, up, net>>
    BY DEF ClientSends, K
  <1>. HIDE DEF s
  <1>. DEFINE e == BlockInserted(TRUE, s, ok)
  <1>4. Delivered(K, seen.resp)
    BY <1>3, EndsFacts DEF ClientHas, SeenInv, Delivered, K
  <1>5. AfterClient(e, s)
    BY <1>2, <1>4, ClientBlock, Zenon
  <1>6. e.state # 5
    BY <1>5, Zenon DEF AfterClient
  <1>7. /\ seen' \in Copies
        /\ entry' \in [state : {0, 1, 2, 4}, seq : 0..ServerEnd, ack : 0..ClientEnd]
        /\ late' \in BOOLEAN /\ blocked' \in BOOLEAN
        /\ cmds' \in {<<>>, <<TRUE>>, <<FALSE>>, <<TRUE, FALSE>>}
        /\ sock' = NoSocket \/ sock' \in [seq : 0..ServerEnd, ack : 0..ClientEnd, raw : Segments(ServerEnd)]
        /\ CmdsInv'
    BY <1>1, <1>2, <1>6, StationType, Zenon
  <1>8. seen' = s /\ entry' = e /\ sock' = sock
    BY <1>1, <1>6, Zenon DEF AtTheStation, HandsOver, MissedTheBoat
  <1>. HIDE DEF e
  <1>9. TypeOK'
    <2>1. server' \subseteq 0..(ClientEnd - 1)
      BY <1>1, <1>2, Zenon DEF TypeOK
    <2>. QED BY <1>3, <1>7, <2>1, Zenon DEF TypeOK, Copies
  <1>10. NetInv' /\ SockInv'
    BY <1>2, <1>3, <1>8 DEF NetInv, SockInv, NumbersRight
  <1>11. SeenInv'
    <2>1. server' \subseteq s.orig
      BY <1>1, <1>2, Zenon DEF SeenInv
    <2>2. Delivered(ClientEnd, seen.orig) => Delivered(ClientEnd, s.orig)
      BY <1>2 DEF Delivered
    <2>3. Received(client') = Received(client)
      BY <1>3
    <2>. QED BY <1>2, <1>4, <1>8, <2>1, <2>2, <2>3, Zenon DEF SeenInv
  <1>12. EntryInv'
    <2>1. entry.state = 4 => Delivered(ServerEnds.ccs, seen.resp)
      BY DEF EntryInv
    <2>. QED BY <1>2, <1>5, <1>8, <2>1, Zenon DEF EntryInv, AfterClient
  <1>. QED BY <1>7, <1>8, <1>9, <1>10, <1>11, <1>12

\* With a packet of the server: it is beyond the key exchange only after the
\* client's flight, and is handed over only when it completes its own.
LEMMA ServerKeeps ==
  ASSUME HInv, NEW seg \in ServerSegments, ServerSends(seg)
  PROVE  /\ HInv'
         /\ \/ sock' = sock
            \/ /\ sock'.raw = seg /\ Delivered(K, seen.resp)
               /\ Delivered(ServerEnd, seen.resp \cup Covers(seg)) /\ ~Delivered(ServerEnd, seen.resp)
  <1>. USE DEF HInv
  <1>. DEFINE s == [seen EXCEPT !.resp = @ \cup Covers(seg)]
  <1>1. PICK ok \in BOOLEAN :
          /\ AtTheStation(FALSE, seg, s, ok)
          /\ net' = IF Past(FALSE, s, ok) THEN net \cup {ServerPacket(seg)} ELSE net
          /\ \/ up' = TRUE
             \/ sock' # sock /\ up' = FALSE
    BY Zenon DEF ServerSends
  <1>2. s \in Copies /\ s.resp = seen.resp \cup Covers(seg) /\ s.orig = seen.orig
        /\ Covers(seg) \subseteq 0..(ServerEnd - 1)
    BY CopyType, Zenon
  <1>3. (seg[2] > K => Delivered(ClientEnd, server)) /\ UNCHANGED <<client, server>>
    BY DEF ServerSends, K
  <1>. HIDE DEF s
  <1>. DEFINE e == BlockInserted(FALSE, s, ok)
  <1>4. AfterServer(e, s)
    BY <1>2, ServerBlock, Zenon
  <1>5. seg \in Segments(ServerEnd)
    BY SegmentsAssumption
  <1>6. /\ seen' \in Copies
        /\ entry' \in [state : {0, 1, 2, 4}, seq : 0..ServerEnd, ack : 0..ClientEnd]
        /\ late' \in BOOLEAN /\ blocked' \in BOOLEAN
        /\ cmds' \in {<<>>, <<TRUE>>, <<FALSE>>, <<TRUE, FALSE>>}
        /\ sock' = NoSocket \/ sock' \in [seq : 0..ServerEnd, ack : 0..ClientEnd, raw : Segments(ServerEnd)]
        /\ CmdsInv'
    BY <1>1, <1>2, <1>5, StationType, Zenon
  <1>7. /\ seen' = s
        /\ entry' = Untracked \/ (entry' = e /\ e.state # 5)
        /\ sock' = sock \/ (e.state = 5 /\ sock' = [seq |-> e.seq, ack |-> e.ack, raw |-> seg])
    <2>1. late \in BOOLEAN
      BY DEF TypeOK
    <2>. QED BY <1>1, <2>1, Zenon DEF AtTheStation, HandsOver, MissedTheBoat
  <1>. HIDE DEF e
  <1>8. (\E p \in s.resp : p >= K) => Delivered(ClientEnd, seen.orig)
    <2>. SUFFICES ASSUME NEW p \in s.resp, p >= K PROVE Delivered(ClientEnd, seen.orig)
      BY Zenon
    <2>1. CASE p \in seen.resp
      BY <2>1, Zenon DEF SeenInv
    <2>2. CASE p \in Covers(seg)
      <3>1. seg[2] > K
        BY <2>2, <1>5, EndsFacts DEF Covers, Segments, K
      <3>. QED BY <3>1, <1>3 DEF SeenInv, Delivered
    <2>. QED BY <1>2, <2>1, <2>2, Zenon
  <1>9. TypeOK'
    <2>1. [at |-> seg[1], data |-> seg] \in [at : Positions, data : Segments(ServerEnd + 1)]
      BY <1>5, EndsFacts DEF Positions, Segments
    <2>2. net' \subseteq [at : Positions, data : Segments(ServerEnd + 1)]
      BY <1>1, <2>1, Zenon DEF TypeOK, ServerPacket
    <2>3. up' \in BOOLEAN
      BY <1>1, Zenon
    <2>. QED BY <1>3, <1>6, <2>2, <2>3, Zenon DEF TypeOK, Copies
  <1>10. NetInv'
    <2>1. Fills(ServerPacket(seg)) = Covers(seg)
      BY <1>5, EndsFacts DEF Fills, ServerPacket, Covers, Segments
    <2>. QED BY <1>1, <1>2, <1>7, <2>1, Zenon DEF NetInv
  <1>11. SeenInv'
    <2>1. Received(client') = Received(client)
      BY <1>3
    <2>2. Delivered(K, seen.resp) => Delivered(K, s.resp)
      BY <1>2 DEF Delivered
    <2>. QED BY <1>2, <1>3, <1>7, <1>8, <2>1, <2>2, Zenon DEF SeenInv
  <1>12. e.state \in {4, 5} => Delivered(ClientEnd, seen.orig)
    <2>1. Delivered(ServerEnds.ccs, s.resp) => K \in s.resp /\ K >= K
      BY EndsFacts DEF Delivered, K
    <2>. QED BY <1>4, <1>8, <2>1, Zenon DEF AfterServer
  <1>13. e.state \in {2, 4, 5} /\ Delivered(ClientEnd, seen.orig) => NumbersRight(e)
    BY <1>4, Zenon DEF AfterServer, EntryInv, NumbersRight
  <1>14. EntryInv'
    <2>1. CASE entry' = Untracked
      <3>1. entry'.state \notin {1, 2, 4}
        BY <2>1 DEF Untracked
      <3>. QED BY <3>1, Zenon DEF EntryInv
    <2>2. CASE entry' = e
      BY <2>2, <1>2, <1>4, <1>7, <1>13, Zenon DEF EntryInv, AfterServer
    <2>. QED BY <1>7, <2>1, <2>2
  <1>15. e.state = 5 => NumbersRight(e) /\ Delivered(ServerEnd, s.resp) /\ ~Delivered(ServerEnd, seen.resp)
    BY <1>4, <1>12, <1>13, Zenon DEF AfterServer
  <1>16. SockInv'
    <2>1. Delivered(ServerEnd, seen.resp) => Delivered(ServerEnd, s.resp)
      BY <1>2 DEF Delivered
    <2>2. CASE sock' = sock
      BY <2>1, <2>2, <1>7, Zenon DEF SockInv, NumbersRight
    <2>3. CASE e.state = 5 /\ sock' = [seq |-> e.seq, ack |-> e.ack, raw |-> seg]
      BY <2>3, <1>7, <1>15 DEF SockInv, NumbersRight
    <2>. QED BY <1>7, <2>2, <2>3
  <1>17. e.state = 5 => Delivered(K, seen.resp)
    <2>1. Delivered(ClientEnd, seen.orig) => seen.orig # {}
      BY EndsFacts DEF Delivered
    <2>. QED BY <1>12, <2>1, Zenon DEF SeenInv
  <1>18. \/ sock' = sock
         \/ /\ sock'.raw = seg /\ Delivered(K, seen.resp)
            /\ Delivered(ServerEnd, seen.resp \cup Covers(seg)) /\ ~Delivered(ServerEnd, seen.resp)
    <2>1. sock' = [seq |-> e.seq, ack |-> e.ack, raw |-> seg] => sock'.raw = seg
      OBVIOUS
    <2>. QED BY <1>2, <1>7, <1>15, <1>17, <2>1, Zenon
  <1>. QED BY <1>6, <1>9, <1>10, <1>11, <1>14, <1>16, <1>18, Zenon

\* What bronnect sends falls within the server's stream, which Bro has seen to
\* its end, or beyond it.
LEMMA BronnectKeeps ==
  ASSUME HInv, BronnectSendsRaw \/ BronnectAnswers
  PROVE  HInv'
  <1>. USE DEF HInv
  <1>1. sock # NoSocket /\ UNCHANGED <<client, server, up, seen, entry, late, cmds, blocked, sock>>
    BY DEF BronnectSendsRaw, BronnectAnswers
  <1>2. sock \in [seq : 0..ServerEnd, ack : 0..ClientEnd, raw : Segments(ServerEnd)]
    BY <1>1 DEF TypeOK
  <1>3. PICK m : net' = net \cup {m} /\ m \in [at : Positions, data : Segments(ServerEnd + 1)]
    <2>1. CASE BronnectSendsRaw
      <3>1. [at |-> sock.seq, data |-> sock.raw] \in [at : Positions, data : Segments(ServerEnd + 1)]
        BY <1>2, EndsFacts DEF Segments, Positions
      <3>. QED BY <2>1, <3>1, Zenon DEF BronnectSendsRaw, RawPacket, setup_fake_socket
    <2>2. CASE BronnectAnswers
      <3>1. <<ServerEnd, ServerEnd + 1>> \in Segments(ServerEnd + 1)
        BY EndsFacts DEF Segments
      <3>2. net' = net \cup {Answer} /\ AfterRaw \in Positions
        BY <2>2 DEF BronnectAnswers
      <3>3. Answer \in [at : Positions, data : Segments(ServerEnd + 1)]
        BY <3>1, <3>2 DEF Answer
      <3>. QED BY <3>2, <3>3, Zenon
    <2>. QED BY <2>1, <2>2
  <1>4. TypeOK'
    <2>1. net' \subseteq [at : Positions, data : Segments(ServerEnd + 1)]
      BY <1>3 DEF TypeOK
    <2>. QED BY <1>1, <2>1, Zenon DEF TypeOK
  <1>5. NetInv'
    <2>1. Delivered(ServerEnd, seen.resp)
      BY <1>1, Zenon DEF SockInv
    <2>. QED BY <1>1, <1>3, <2>1, Zenon DEF NetInv, Delivered
  <1>6. Received(client') = Received(client)
    BY <1>1
  <1>. QED BY <1>1, <1>4, <1>5, <1>6, Zenon DEF CmdsInv, StaysBlocked, SeenInv, EntryInv, SockInv, NumbersRight

\* The client's stream grows by positions that a packet on the way fills.
LEMMA DeliverFills ==
  ASSUME TypeOK, NEW m \in net, Deliver(m)
  PROVE  \A p \in Positions :
           /\ client'[p] = client[p] \/ (client'[p] = m.data[1] + (p - m.at) /\ p \in Fills(m))
           /\ client'[p] \in 0..ServerEnd \cup {Nothing}
  <1>. SUFFICES ASSUME NEW p \in Positions
                PROVE  /\ client'[p] = client[p] \/ (client'[p] = m.data[1] + (p - m.at) /\ p \in Fills(m))
                       /\ client'[p] \in 0..ServerEnd \cup {Nothing}
    OBVIOUS
  <1>1. client'[p] = IF client[p] = Nothing /\ m.data[1] + (p - m.at) \in Covers(m.data)
                     THEN m.data[1] + (p - m.at) ELSE client[p]
    BY DEF Deliver
  <1>2. client[p] \in 0..ServerEnd \cup {Nothing}
    BY DEF TypeOK
  <1>3. m.at \in Positions /\ m.data[1] \in 0..(ServerEnd + 1) /\ m.data[2] \in 0..(ServerEnd + 1)
    BY DEF TypeOK, Segments
  <1>4. CASE m.data[1] + (p - m.at) \in Covers(m.data)
    <2>1. p \in Fills(m) /\ m.data[1] + (p - m.at) \in 0..ServerEnd
      BY <1>3, <1>4, EndsFacts DEF Covers, Fills, Positions
    <2>. QED BY <1>1, <1>2, <2>1, Zenon
  <1>. QED BY <1>1, <1>2, <1>4, Zenon

\* The router, the clock and the network leave what Bro knows alone.
LEMMA OthersKeep ==
  ASSUME HInv, RouterApplies \/ TimePasses \/ (\E m \in net : Deliver(m) \/ Lose(m))
  PROVE  HInv'
  <1>. USE DEF HInv
  <1>1. CASE RouterApplies
    <2>. USE DEF RouterApplies
    <2>1. /\ cmds' \in {<<>>, <<TRUE>>, <<FALSE>>, <<TRUE, FALSE>>} /\ blocked' \in BOOLEAN
          /\ StaysBlocked => StaysBlocked'
      <3>1. cmds \in {<<TRUE>>, <<FALSE>>, <<TRUE, FALSE>>}
        BY <1>1, Zenon DEF TypeOK
      <3>2. CASE cmds = <<TRUE>>
        BY <1>1, <3>2 DEF StaysBlocked
      <3>3. CASE cmds = <<FALSE>>
        BY <1>1, <3>3 DEF StaysBlocked
      <3>4. CASE cmds = <<TRUE, FALSE>>
        BY <1>1, <3>4 DEF StaysBlocked
      <3>. QED BY <3>1, <3>2, <3>3, <3>4, Zenon
    <2>2. Received(client') = Received(client)
      BY <1>1
    <2>3. TypeOK' /\ CmdsInv'
      BY <1>1, <2>1, Zenon DEF TypeOK, CmdsInv, StaysBlocked
    <2>. QED BY <1>1, <2>2, <2>3, Zenon DEF NetInv, SeenInv, EntryInv, SockInv, NumbersRight
  <1>2. CASE TimePasses
    <2>. USE DEF TimePasses
    <2>1. Received(client') = Received(client)
      BY <1>2
    <2>2. TypeOK' /\ CmdsInv'
      BY <1>2, Zenon DEF TypeOK, CmdsInv, StaysBlocked
    <2>. QED BY <1>2, <2>1, <2>2, Zenon DEF NetInv, SeenInv, EntryInv, SockInv, NumbersRight
  <1>3. ASSUME NEW m \in net, Lose(m) PROVE HInv'
    <2>. USE DEF Lose
    <2>1. Received(client') = Received(client)
      BY <1>3
    <2>2. TypeOK' /\ NetInv'
      BY <1>3, Zenon DEF TypeOK, NetInv
    <2>. QED BY <1>3, <2>1, <2>2, Zenon DEF CmdsInv, StaysBlocked, SeenInv, EntryInv, SockInv, NumbersRight
  <1>4. ASSUME NEW m \in net, Deliver(m) PROVE HInv'
    <2>1. /\ net' \subseteq net
          /\ UNCHANGED <<server, up, seen, entry, late, cmds, blocked, sock>>
          /\ client' = [p \in Positions |-> client'[p]]
      BY <1>4 DEF Deliver
    <2>2. \A p \in Positions :
            /\ client'[p] = client[p] \/ (client'[p] = m.data[1] + (p - m.at) /\ p \in Fills(m))
            /\ client'[p] \in 0..ServerEnd \cup {Nothing}
      BY <1>4, DeliverFills
    <2>3. client' \in [Positions -> 0..ServerEnd \cup {Nothing}]
      BY <2>1, <2>2
    <2>4. TypeOK' /\ NetInv'
      BY <2>1, <2>3, Zenon DEF TypeOK, NetInv
    <2>5. Received(client') \subseteq Received(client) \cup Fills(m)
      BY <2>2 DEF Received
    <2>6. Received(client') \cap 0..(ServerEnd - 1) \subseteq seen.resp
      BY <2>5, Zenon DEF NetInv, SeenInv
    <2>7. SeenInv'
      BY <2>1, <2>6, Zenon DEF SeenInv
    <2>. QED BY <2>1, <2>4, <2>7, Zenon DEF CmdsInv, StaysBlocked, EntryInv, SockInv, NumbersRight
  <1>. QED BY <1>1, <1>2, <1>3, <1>4, Zenon

\* HInv is an inductive invariant.
THEOREM HInvHolds == Spec => []HInv
  <1>1. HInv /\ [Next]_vars => HInv'
    <2>. SUFFICES ASSUME HInv, [Next]_vars PROVE HInv'
      OBVIOUS
    <2>1. ASSUME NEW seg \in ClientSegments, NEW lost \in BOOLEAN, ClientSends(seg, lost) PROVE HInv'
      BY <2>1, ClientKeeps, Zenon
    <2>2. ASSUME NEW seg \in ServerSegments, ServerSends(seg) PROVE HInv'
      BY <2>2, ServerKeeps, Zenon
    <2>3. CASE BronnectSendsRaw \/ BronnectAnswers
      BY <2>3, BronnectKeeps, Zenon
    <2>4. CASE RouterApplies \/ TimePasses \/ (\E m \in net : Deliver(m) \/ Lose(m))
      BY <2>4, OthersKeep, Zenon
    <2>5. CASE UNCHANGED vars
      <3>1. Received(client') = Received(client)
        BY <2>5 DEF vars
      <3>2. TypeOK' /\ CmdsInv'
        BY <2>5, Zenon DEF vars, HInv, TypeOK, CmdsInv, StaysBlocked
      <3>. QED BY <2>5, <3>1, <3>2, Zenon DEF vars, HInv, NetInv, SeenInv, EntryInv, SockInv, NumbersRight
    <2>. QED BY <2>1, <2>2, <2>3, <2>4, <2>5, Zenon DEF Next
  <1>. QED BY <1>1, InitHInv, PTL DEF Spec

\* Every variable has its type, however either side cuts its stream: Bro's entry
\* is in one of the states of telex-ssl.bro and its numbers are positions
\* (TypeOK of HandOver).
THEOREM HandOverTypeOK == Spec => []TypeOK
  <1>1. HInv => TypeOK
    BY DEF HInv
  <1>. QED BY <1>1, HInvHolds, PTL

\* The numbers of the forged socket: it starts to send where the server's key
\* exchange ends and expects the client's first byte after its flight, however
\* either side cuts its stream and whatever is lost or sent again.
THEOREM SocketNumbers == Spec => [](sock # NoSocket => NumbersRight(sock))
  <1>1. HInv => (sock # NoSocket => NumbersRight(sock))
    BY DEF HInv, SockInv
  <1>. QED BY <1>1, HInvHolds, PTL

\* A flow handed over stays blocked for the server: the flow blocker has carried
\* out the command of ssl_conn_attempt or will, and no handler takes it back.
THEOREM HandedOverStaysBlocked == Spec => [](sock # NoSocket => StaysBlocked)
  <1>1. HInv => (sock # NoSocket => StaysBlocked)
    BY DEF HInv, CmdsInv
  <1>. QED BY <1>1, HInvHolds, PTL

\* A flow is handed over once: the forged socket keeps its numbers and its raw
\* packet, whatever the server sends again.
THEOREM HandedOverOnce == Spec => [][sock # NoSocket => sock' = sock]_vars
  <1>1. HInv /\ [Next]_vars => [sock # NoSocket => sock' = sock]_vars
    <2>. SUFFICES ASSUME HInv, Next, sock # NoSocket PROVE sock' = sock
      BY DEF vars
    <2>1. entry.state = 0
      BY DEF HInv, CmdsInv
    <2>2. ASSUME NEW is_orig \in BOOLEAN, NEW seg, NEW s \in Copies, NEW ok \in BOOLEAN,
                 AtTheStation(is_orig, seg, s, ok)
          PROVE  sock' = sock
      <3>1. BlockInserted(is_orig, s, ok).state = 0
        BY <2>1, BlockType DEF HInv
      <3>. QED BY <2>2, <3>1 DEF AtTheStation, HandsOver
    <2>3. TypeOK
      BY DEF HInv
    <2>4. ASSUME NEW seg \in ClientSegments, NEW lost \in BOOLEAN, ClientSends(seg, lost) PROVE sock' = sock
      BY <2>4, ClientKeeps, Zenon
    <2>5. ASSUME NEW seg \in ServerSegments, ServerSends(seg) PROVE sock' = sock
      BY <2>2, <2>3, <2>5, CopyType, Zenon DEF ServerSends
    <2>6. CASE BronnectSendsRaw \/ BronnectAnswers \/ RouterApplies \/ TimePasses
      BY <2>6 DEF BronnectSendsRaw, BronnectAnswers, RouterApplies, TimePasses
    <2>7. CASE \E m \in net : Deliver(m) \/ Lose(m)
      BY <2>7 DEF Deliver, Lose
    <2>. QED BY <2>4, <2>5, <2>6, <2>7, Zenon DEF Next
  <1>. QED BY <1>1, HInvHolds, PTL DEF Spec

\* Every step keeps the bytes in place if the last flight goes out together.
LEMMA NextPlaceInv ==
  ASSUME LastFlightTogether, HInv, PlaceInv, [Next]_vars
  PROVE  PlaceInv'
  <1>. USE DEF PlaceInv
  <1>1. ASSUME NEW seg \in ClientSegments, NEW lost \in BOOLEAN, ClientSends(seg, lost) PROVE PlaceInv'
    <2>1. sock' = sock
      BY <1>1, ClientKeeps, Zenon
    <2>2. UNCHANGED <<client, net>> /\ seen'.resp = seen.resp
      <3>1. TypeOK
        BY DEF HInv
      <3>. QED BY <1>1, <3>1, CopyType DEF ClientSends, AtTheStation
    <2>. QED BY <2>1, <2>2, Zenon DEF StreamIntact, Received
  <1>2. ASSUME NEW seg \in ServerSegments, ServerSends(seg) PROVE PlaceInv'
    <2>1. client' = client /\ seen'.resp = seen.resp \cup Covers(seg)
      <3>1. TypeOK
        BY DEF HInv
      <3>. QED BY <1>2, <3>1, CopyType DEF ServerSends, AtTheStation
    <2>2. net' = net \/ net' = net \cup {ServerPacket(seg)}
      BY <1>2, Zenon DEF ServerSends
    <2>3. \A m \in net' : m.data[1] = m.at
      BY <2>2 DEF ServerPacket
    <2>4. \/ sock' = sock
          \/ /\ sock'.raw = seg /\ Delivered(K, seen.resp)
             /\ Delivered(ServerEnd, seen.resp \cup Covers(seg)) /\ ~Delivered(ServerEnd, seen.resp)
      BY <1>2, ServerKeeps, Zenon
    <2>5. /\ seg \in (0..ServerEnd) \X (0..ServerEnd) /\ seg[1] < seg[2]
          /\ seg[2] > K => seg[1] = K
      BY SegmentsAssumption DEF Segments, LastFlightTogether
    <2>6. seen.resp \subseteq 0..(ServerEnd - 1)
      BY DEF HInv, TypeOK
    <2>7. ASSUME NEW p \in seen'.resp PROVE K..p \subseteq seen'.resp
      <3>1. CASE p \in Covers(seg)
        BY <2>1, <2>5, <3>1, EndsFacts DEF Covers, K
      <3>. QED BY <2>1, <2>7, <3>1
    <2>8. ASSUME Delivered(K, seen.resp), ~Delivered(ServerEnd, seen.resp),
                 Delivered(ServerEnd, seen.resp \cup Covers(seg))
          PROVE  seg = <<K, ServerEnd>>
      <3>1. ServerEnd - 1 \notin seen.resp
        <4>1. SUFFICES ASSUME ServerEnd - 1 \in seen.resp PROVE FALSE
          OBVIOUS
        <4>2. K..(ServerEnd - 1) \subseteq seen.resp
          BY <4>1
        <4>. QED BY <2>8, <4>2, EndsFacts DEF Delivered, K
      <3>2. ServerEnd - 1 \in Covers(seg)
        BY <2>8, <3>1, EndsFacts DEF Delivered
      <3>3. seg[2] = ServerEnd
        BY <2>5, <3>2, EndsFacts DEF Covers
      <3>4. seg[1] = K
        BY <2>5, <3>3, EndsFacts DEF K
      <3>. QED BY <2>5, <3>3, <3>4
    <2>. QED BY <2>1, <2>3, <2>4, <2>7, <2>8, Zenon DEF StreamIntact, Received
  <1>3. CASE BronnectSendsRaw \/ BronnectAnswers
    <2>1. sock # NoSocket /\ UNCHANGED <<client, seen, sock>>
      BY <1>3 DEF BronnectSendsRaw, BronnectAnswers
    <2>2. sock.raw = <<K, ServerEnd>> /\ sock.seq = K
      BY <2>1 DEF HInv, SockInv, NumbersRight
    <2>3. RawPacket.data[1] = RawPacket.at
      BY <2>2 DEF RawPacket, setup_fake_socket
    <2>4. Answer.data[1] = Answer.at
      BY <2>2, EndsFacts DEF Answer, AfterRaw, setup_fake_socket, K
    <2>5. net' = net \cup {RawPacket} \/ net' = net \cup {Answer}
      BY <1>3 DEF BronnectSendsRaw, BronnectAnswers
    <2>. QED BY <2>1, <2>3, <2>4, <2>5, Zenon DEF StreamIntact, Received
  <1>4. CASE RouterApplies \/ TimePasses \/ (\E m \in net : Lose(m)) \/ UNCHANGED vars
    <2>1. net' \subseteq net /\ UNCHANGED <<client, seen, sock>>
      BY <1>4 DEF RouterApplies, TimePasses, Lose, vars
    <2>. QED BY <2>1, Zenon DEF StreamIntact, Received
  <1>5. ASSUME NEW m \in net, Deliver(m) PROVE PlaceInv'
    <2>1. net' \subseteq net /\ UNCHANGED <<seen, sock>>
      BY <1>5 DEF Deliver
    <2>2. m.data[1] = m.at /\ m.at \in Nat
      BY DEF HInv, TypeOK, Positions
    <2>3. ASSUME NEW p \in Positions PROVE client'[p] = client[p] \/ client'[p] = p
      <3>1. client'[p] = client[p] \/ client'[p] = m.data[1] + (p - m.at)
        BY <1>5, DeliverFills DEF HInv
      <3>2. m.data[1] + (p - m.at) = p
        BY <2>2, EndsFacts DEF Positions
      <3>. QED BY <3>1, <3>2
    <2>. QED BY <2>1, <2>3, Zenon DEF StreamIntact, Received
  <1>. QED BY <1>1, <1>2, <1>3, <1>4, <1>5, Zenon DEF Next

\* The client's stream is intact, whatever is lost, repeated or reordered on the
\* way and whoever carries it, for records of any length, if the server's last
\* two messages go out together: no packet of the server begins within them.
THEOREM StreamIsIntact == LastFlightTogether => (Spec => []StreamIntact)
  <1>. SUFFICES ASSUME LastFlightTogether PROVE Spec => []StreamIntact
    OBVIOUS
  <1>1. HInv /\ PlaceInv /\ [Next]_vars => PlaceInv'
    BY NextPlaceInv, Zenon
  <1>2. PlaceInv => StreamIntact
    BY DEF PlaceInv
  <1>. QED BY <1>1, <1>2, InitHInv, HInvHolds, PTL DEF Spec

\* The forged socket sends the raw packet where the server sent it, under the
\* same condition; a packet that begins elsewhere is sent in the wrong place.
THEOREM RawPacketIsInPlace == LastFlightTogether => (Spec => []RawPacketInPlace)
  <1>. SUFFICES ASSUME LastFlightTogether PROVE Spec => []RawPacketInPlace
    OBVIOUS
  <1>1. HInv /\ PlaceInv /\ [Next]_vars => PlaceInv'
    BY NextPlaceInv, Zenon
  <1>2. HInv /\ PlaceInv => RawPacketInPlace
    <2>. SUFFICES ASSUME HInv, PlaceInv, sock # NoSocket PROVE sock.seq = sock.raw[1]
      BY DEF RawPacketInPlace
    <2>1. sock.seq = K /\ sock.raw = <<K, ServerEnd>>
      BY DEF HInv, SockInv, NumbersRight, PlaceInv
    <2>. QED BY <2>1
  <1>. QED BY <1>1, <1>2, InitHInv, HInvHolds, PTL DEF Spec

-----------------------------------------------------------------------------
(* The ioctl.                                                              *)

\* The packets waiting for a child are finitely many (one per CPU), so they
\* can be counted.
LEMMA SpinnersFinite ==
  ASSUME NEW t PROVE IsFiniteSet(Spinners(t)) /\ Cardinality(Spinners(t)) \in Nat
  <1>1. Spinners(t) \in SUBSET Tasks
    BY DEF Spinners
  <1>. QED BY <1>1, FS_Subset, FS_CardinalityType, TasksAssumption

\* Initially no task has a child (a process before setup_fake_socket).
LEMMA InitForgeInv == ForgeInit => ForgeInv
  <1>. SUFFICES ASSUME ForgeInit PROVE ForgeInv
    OBVIOUS
  <1>. USE DEF ForgeInit
  <1>1. ForgeTypeOK
    BY DEF ForgeTypeOK, Steps, Child, NoChild
  <1>2. RefsAccounted
    <2>. SUFFICES ASSUME NEW t \in Tasks
                  PROVE  child[t].refs = MakersRefs(t) + Cardinality(Spinners(t))
      BY DEF RefsAccounted
    <2>1. Spinners(t) = {}
      BY TasksAssumption DEF Spinners
    <2>2. Cardinality(Spinners(t)) = 0
      BY <2>1, FS_EmptySet, Zenon
    <2>. QED BY <2>2 DEF MakersRefs, NoChild
  <1>3. ASSUME NEW t \in Tasks PROVE StepInv(t)
    BY TasksAssumption DEF StepInv, Reachable, NoChild
  <1>. QED BY <1>1, <1>2, <1>3 DEF ForgeInv

\* The step of a task leaves the packets that wait alone, and everything of
\* the other tasks.
LEMMA TaskLocal ==
  ASSUME ForgeTypeOK, NEW t \in Tasks, Task(t)
  PROVE  /\ spin' = spin
         /\ \A u \in Tasks : Spinners(u)' = Spinners(u)
         /\ \A u \in Tasks \ {t} : /\ pc'[u] = pc[u] /\ sk'[u] = sk[u] /\ newfd'[u] = newfd[u]
                                   /\ child'[u] = child[u] /\ bhOff'[u] = bhOff[u]
  <1>. USE DEF ForgeTypeOK, Go
  <1>1. spin' = spin
    BY DEF Task, socket_bind, CloseListenSock, CloseClient, fake_accept_ioctl, out_fd, lock_sock,
           tcp_v4_forge_syn_recv_sock, InheritFails, fake_inet_csk_accept, local_bh_enable,
           sock_graft, bh_unlock_sock, sock_put
  <1>2. \A u \in Tasks : Spinners(u)' = Spinners(u)
    BY <1>1 DEF Spinners
  <1>3. ASSUME NEW u \in Tasks \ {t}
        PROVE  /\ pc'[u] = pc[u] /\ sk'[u] = sk[u] /\ newfd'[u] = newfd[u]
               /\ child'[u] = child[u] /\ bhOff'[u] = bhOff[u]
    BY DEF Task, socket_bind, CloseListenSock, CloseClient, fake_accept_ioctl, out_fd, lock_sock,
           tcp_v4_forge_syn_recv_sock, InheritFails, fake_inet_csk_accept, local_bh_enable,
           sock_graft, bh_unlock_sock, sock_put
  <1>. QED BY <1>1, <1>2, <1>3

\* So the invariant of the other tasks is preserved.
LEMMA OtherTasks ==
  ASSUME ForgeInv, NEW t \in Tasks, Task(t), NEW u \in Tasks \ {t}
  PROVE  /\ StepInv(u)'
         /\ child'[u].refs = MakersRefs(u)' + Cardinality(Spinners(u)')
  <1>1. /\ spin' = spin /\ Spinners(u)' = Spinners(u)
        /\ pc'[u] = pc[u] /\ sk'[u] = sk[u] /\ newfd'[u] = newfd[u]
        /\ child'[u] = child[u] /\ bhOff'[u] = bhOff[u]
    BY TaskLocal DEF ForgeInv
  <1>2. StepInv(u) /\ child[u].refs = MakersRefs(u) + Cardinality(Spinners(u))
    BY DEF ForgeInv, RefsAccounted
  <1>3. MakersRefs(u)' = MakersRefs(u)
    BY <1>1 DEF MakersRefs
  <1>4. StepInv(u)'
    BY <1>1, <1>2 DEF StepInv
  <1>. QED BY <1>1, <1>2, <1>3, <1>4, SMTT(40)

\* The step of a task preserves the types; in particular a reference is only
\* dropped by someone who has one (the sock_put calls).
LEMMA TaskType == ASSUME ForgeInv, NEW t \in Tasks, Task(t) PROVE ForgeTypeOK'
  <1>. USE DEF ForgeTypeOK, Go, Steps
  <1>. DEFINE k == Cardinality(Spinners(t))
  <1>1. k \in Nat
    BY SpinnersFinite
  <1>2. ForgeTypeOK /\ child[t].refs = MakersRefs(t) + k /\ StepInv(t)
    BY DEF ForgeInv, RefsAccounted
  <1>. HIDE DEF k
  <1>3. child[t] \in Child /\ child[t].refs \in Nat /\ sk[t] \in [fd : {"none", "open", "closed"}, locked : BOOLEAN]
    BY <1>2 DEF Child
  <1>4. ASSUME NEW r \in Nat PROVE [child EXCEPT ![t].refs = r] \in [Tasks -> Child]
    BY <1>2, Zenon DEF Child
  <1>5. CASE socket_bind(t)
    <2>1. [sk EXCEPT ![t].fd = "closed"] \in [Tasks -> [fd : {"none", "open", "closed"}, locked : BOOLEAN]]
      BY <1>2, Zenon
    <2>2. [sk EXCEPT ![t].fd = "open"] \in [Tasks -> [fd : {"none", "open", "closed"}, locked : BOOLEAN]]
      BY <1>2, Zenon
    <2>. QED BY <1>2, <1>5, <2>1, <2>2, Zenon DEF socket_bind
  <1>6. CASE CloseListenSock(t)
    BY <1>2, <1>3, <1>6, Zenon DEF CloseListenSock
  <1>7. CASE CloseClient(t)
    <2>1. child[t].refs - 1 \in Nat
      BY <1>1, <1>2, <1>7 DEF CloseClient, MakersRefs
    <2>2. child' \in [Tasks -> Child]
      BY <1>2, <1>3, <1>7, <2>1, Zenon DEF CloseClient, Child
    <2>. QED BY <1>2, <1>7, <2>2 DEF CloseClient
  <1>8. CASE fake_accept_ioctl(t)
    BY <1>2, <1>8, Zenon DEF fake_accept_ioctl
  <1>9. CASE out_fd(t)
    BY <1>2, <1>9 DEF out_fd
  <1>10. CASE lock_sock(t)
    BY <1>2, <1>3, <1>10, Zenon DEF lock_sock
  <1>11. CASE tcp_v4_forge_syn_recv_sock(t)
    <2>1. Born \in Child
      BY DEF Born, Child
    <2>. QED BY <1>2, <1>11, <2>1 DEF tcp_v4_forge_syn_recv_sock
  <1>12. CASE InheritFails(t)
    <2>1. child[t].refs - 1 \in Nat
      BY <1>1, <1>2, <1>12 DEF InheritFails, MakersRefs
    <2>. QED BY <1>2, <1>12, <1>4, <2>1 DEF InheritFails
  <1>13. CASE fake_inet_csk_accept(t)
    BY <1>2, <1>3, <1>13, Zenon DEF fake_inet_csk_accept, Child
  <1>14. CASE local_bh_enable(t)
    BY <1>2, <1>14 DEF local_bh_enable
  <1>15. CASE sock_graft(t)
    BY <1>2, <1>3, <1>15, Zenon DEF sock_graft, Child
  <1>16. CASE bh_unlock_sock(t)
    BY <1>2, <1>3, <1>16, Zenon DEF bh_unlock_sock, Child
  <1>17. CASE sock_put(t)
    <2>1. child[t].refs - 1 \in Nat
      BY <1>1, <1>2, <1>17 DEF sock_put, MakersRefs
    <2>. QED BY <1>2, <1>17, <1>4, <2>1 DEF sock_put
  <1>. QED BY <1>5, <1>6, <1>7, <1>8, <1>9, <1>10, <1>11, <1>12, <1>13, <1>14, <1>15, <1>16, <1>17
           DEF Task

\* The step of a task preserves what holds at its steps, and its count of
\* references.
LEMMA TaskStep ==
  ASSUME ForgeInv, NEW t \in Tasks, Task(t)
  PROVE  StepInv(t)' /\ child'[t].refs = MakersRefs(t)' + Cardinality(Spinners(t)')
  <1>. DEFINE k == Cardinality(Spinners(t))
  <1>1. k \in Nat /\ Cardinality(Spinners(t)') = k
    BY SpinnersFinite, TaskLocal DEF ForgeInv
  <1>2. ForgeTypeOK /\ child[t].refs = MakersRefs(t) + k /\ StepInv(t) /\ spin' = spin
    BY TaskLocal DEF ForgeInv, RefsAccounted
  <1>3. pc[t] \notin Reachable \cup {"done"} => k = 0
    <2>. SUFFICES ASSUME pc[t] \notin Reachable \cup {"done"} PROVE Spinners(t) = {}
      BY FS_EmptySet, Zenon
    <2>. QED BY <1>2 DEF StepInv, Spinners
  <1>. HIDE DEF k
  <1>. SUFFICES StepInv(t)' /\ child'[t].refs = MakersRefs(t)' + k
    BY <1>1
  <1>. USE DEF ForgeTypeOK, Go, StepInv, Reachable, MakersRefs
  <1>5. CASE socket_bind(t)
    BY <1>2, <1>5 DEF socket_bind
  <1>6. CASE CloseListenSock(t)
    BY <1>2, <1>6 DEF CloseListenSock
  <1>7. CASE CloseClient(t)
    BY <1>1, <1>2, <1>7 DEF CloseClient, Child
  <1>8. CASE fake_accept_ioctl(t)
    BY <1>2, <1>8 DEF fake_accept_ioctl
  <1>9. CASE out_fd(t)
    BY <1>2, <1>9 DEF out_fd
  <1>10. CASE lock_sock(t)
    BY <1>2, <1>10 DEF lock_sock
  <1>11. CASE tcp_v4_forge_syn_recv_sock(t)
    BY <1>1, <1>2, <1>3, <1>11 DEF tcp_v4_forge_syn_recv_sock, Born
  <1>12. CASE InheritFails(t)
    BY <1>1, <1>2, <1>3, <1>12 DEF InheritFails, Child
  <1>13. CASE fake_inet_csk_accept(t)
    BY <1>1, <1>2, <1>3, <1>13 DEF fake_inet_csk_accept, Child
  <1>14. CASE local_bh_enable(t)
    BY <1>1, <1>2, <1>14 DEF local_bh_enable
  <1>15. CASE sock_graft(t)
    BY <1>1, <1>2, <1>15 DEF sock_graft, Child
  <1>16. CASE bh_unlock_sock(t)
    BY <1>1, <1>2, <1>16 DEF bh_unlock_sock, Child
  <1>17. CASE sock_put(t)
    BY <1>1, <1>2, <1>17 DEF sock_put, Child
  <1>. QED BY <1>5, <1>6, <1>7, <1>8, <1>9, <1>10, <1>11, <1>12, <1>13, <1>14, <1>15, <1>16, <1>17,
           ZenonT(60) DEF Task

\* A packet that starts or stops waiting changes one reference count and one
\* set of waiting CPUs, by one each (the lookup's reference in tcp_v4_rcv).
LEMMA PacketStep ==
  ASSUME ForgeInv, NEW t \in Tasks, NEW c \in Tasks, tcp_v4_rcv(t, c)
  PROVE  ForgeInv'
  <1>. USE DEF tcp_v4_rcv
  <1>1. ForgeTypeOK /\ t # NoTask
    BY TasksAssumption DEF ForgeInv
  <1>2. child[t] \in Child /\ child[t].refs + 1 \in Nat
    BY <1>1 DEF ForgeTypeOK, Child
  <1>3. [child EXCEPT ![t].refs = child[t].refs + 1] \in [Tasks -> Child]
    BY <1>1, <1>2, Zenon DEF ForgeTypeOK, Child
  <1>4. ForgeTypeOK'
    BY <1>1, <1>3 DEF ForgeTypeOK
  <1>5. Spinners(t)' = Spinners(t) \cup {c} /\ c \notin Spinners(t)
    BY <1>1 DEF ForgeTypeOK, Spinners
  <1>6. Cardinality(Spinners(t)') = Cardinality(Spinners(t)) + 1
    BY <1>5, SpinnersFinite, FS_AddElement, Zenon
  <1>7. ASSUME NEW u \in Tasks
        PROVE  child'[u].refs = MakersRefs(u)' + Cardinality(Spinners(u)')
    <2>1. child[u].refs = MakersRefs(u) + Cardinality(Spinners(u)) /\ MakersRefs(u) \in Nat
      BY DEF ForgeInv, RefsAccounted, MakersRefs
    <2>2. MakersRefs(u)' = MakersRefs(u)
      BY <1>1 DEF MakersRefs, ForgeTypeOK, Child
    <2>3. CASE u = t
      BY <1>1, <1>2, <1>6, <2>1, <2>2, <2>3, SpinnersFinite DEF ForgeTypeOK, Child
    <2>4. CASE u # t
      <3>1. Spinners(u)' = Spinners(u)
        BY <1>1, <2>4, TasksAssumption DEF ForgeTypeOK, Spinners
      <3>2. child'[u].refs = child[u].refs
        BY <1>1, <2>4 DEF ForgeTypeOK
      <3>. QED BY <2>1, <2>2, <3>1, <3>2
    <2>. QED BY <2>3, <2>4
  <1>8. ASSUME NEW u \in Tasks PROVE StepInv(u)'
    <2>1. StepInv(u) /\ StepInv(t)
      BY DEF ForgeInv
    <2>2. /\ child'[u].hashed = child[u].hashed /\ child'[u].grafted = child[u].grafted
          /\ child'[u].bh = child[u].bh
      BY <1>1 DEF ForgeTypeOK, Child
    <2>3. \A d \in Tasks : spin'[d] = u => spin[d] = u \/ u = t
      BY <1>1 DEF ForgeTypeOK
    <2>4. child[t].hashed
      OBVIOUS
    <2>. QED BY <2>1, <2>2, <2>3, <2>4 DEF StepInv
  <1>. QED BY <1>4, <1>7, <1>8 DEF ForgeInv, RefsAccounted

\* The same for a packet that has got the lock.
LEMMA PacketDoneStep ==
  ASSUME ForgeInv, NEW c \in Tasks, PacketDone(c)
  PROVE  ForgeInv'
  <1>1. ForgeTypeOK
    BY DEF ForgeInv
  <1>0. PICK t \in Tasks : t = spin[c]
    BY <1>1 DEF ForgeTypeOK, PacketDone
  <1>2. child[t] \in Child /\ t # NoTask
    BY <1>1, TasksAssumption DEF ForgeTypeOK
  <1>5. Spinners(t)' = Spinners(t) \ {c} /\ c \in Spinners(t)
    BY <1>0, <1>1, <1>2 DEF ForgeTypeOK, Spinners, PacketDone
  <1>6. Cardinality(Spinners(t)') = Cardinality(Spinners(t)) - 1
    BY <1>5, SpinnersFinite, FS_RemoveElement, SMTT(30)
  <1>6a. Cardinality(Spinners(t)) \in Nat /\ Cardinality(Spinners(t)') \in Nat
    <2>1. IsFiniteSet(Spinners(t) \ {c})
      BY SpinnersFinite, FS_RemoveElement
    <2>. QED BY <1>5, <2>1, SpinnersFinite, FS_CardinalityType
  <1>3. child[t].refs = MakersRefs(t) + Cardinality(Spinners(t)) /\ MakersRefs(t) \in Nat
    BY <1>2 DEF ForgeInv, RefsAccounted, MakersRefs
  <1>4. child[t].refs - 1 \in Nat
    BY <1>3, <1>6, <1>6a
  <1>4a. /\ child' = [child EXCEPT ![t].refs = child[t].refs - 1] /\ spin' = [spin EXCEPT ![c] = NoTask]
         /\ pc' = pc /\ sk' = sk /\ newfd' = newfd /\ bhOff' = bhOff
    BY <1>0 DEF PacketDone
  <1>4b. [child EXCEPT ![t].refs = child[t].refs - 1] \in [Tasks -> Child]
    BY <1>1, <1>2, <1>4, Zenon DEF ForgeTypeOK, Child
  <1>4c. ForgeTypeOK'
    <2>1. child' \in [Tasks -> Child] /\ spin' \in [Tasks -> Tasks \cup {NoTask}]
      BY <1>1, <1>4a, <1>4b DEF ForgeTypeOK
    <2>. QED BY <1>1, <1>4a, <2>1 DEF ForgeTypeOK
  <1>7. ASSUME NEW u \in Tasks
        PROVE  child'[u].refs = MakersRefs(u)' + Cardinality(Spinners(u)')
    <2>1. child[u].refs = MakersRefs(u) + Cardinality(Spinners(u)) /\ MakersRefs(u) \in Nat
      BY DEF ForgeInv, RefsAccounted, MakersRefs
    <2>2. MakersRefs(u)' = MakersRefs(u)
      BY <1>1, <1>2, <1>4a DEF MakersRefs, ForgeTypeOK, Child
    <2>3. CASE u = t
      <3>1. child'[u].refs = child[u].refs - 1
        BY <1>1, <1>2, <1>4a, <2>3 DEF ForgeTypeOK, Child
      <3>. QED BY <1>6, <1>6a, <2>1, <2>2, <2>3, <3>1
    <2>4. CASE u # t
      <3>1. Spinners(u)' = Spinners(u)
        BY <1>0, <1>1, <1>4a, <2>4, TasksAssumption DEF ForgeTypeOK, Spinners
      <3>2. child'[u].refs = child[u].refs
        BY <1>1, <1>4a, <2>4 DEF ForgeTypeOK
      <3>. QED BY <2>1, <2>2, <3>1, <3>2
    <2>. QED BY <2>3, <2>4
  <1>8. ASSUME NEW u \in Tasks PROVE StepInv(u)'
    <2>1. StepInv(u)
      BY DEF ForgeInv
    <2>2. /\ child'[u].hashed = child[u].hashed /\ child'[u].grafted = child[u].grafted
          /\ child'[u].bh = child[u].bh
      BY <1>1, <1>2, <1>4a DEF ForgeTypeOK, Child
    <2>3. \A d \in Tasks : spin'[d] = u => spin[d] = u
      BY <1>1, <1>4a, TasksAssumption DEF ForgeTypeOK
    <2>. QED BY <1>4a, <2>1, <2>2, <2>3 DEF StepInv
  <1>. QED BY <1>4c, <1>7, <1>8 DEF ForgeInv, RefsAccounted

\* A RST takes a child out of the hash table and changes nothing else.
LEMMA ResetStep ==
  ASSUME ForgeInv, NEW t \in Tasks, tcp_reset(t)
  PROVE  ForgeInv'
  <1>1. ForgeTypeOK /\ child[t] \in Child
    BY DEF ForgeInv, ForgeTypeOK
  <1>2. /\ child' = [child EXCEPT ![t].hashed = FALSE]
        /\ pc' = pc /\ sk' = sk /\ newfd' = newfd /\ bhOff' = bhOff /\ spin' = spin
    BY DEF tcp_reset
  <1>3. [child EXCEPT ![t].hashed = FALSE] \in [Tasks -> Child]
    BY <1>1, Zenon DEF ForgeTypeOK, Child
  <1>4. ForgeTypeOK'
    BY <1>1, <1>2, <1>3 DEF ForgeTypeOK
  <1>5. ASSUME NEW u \in Tasks
        PROVE  /\ child'[u].refs = child[u].refs /\ child'[u].grafted = child[u].grafted
               /\ child'[u].bh = child[u].bh /\ (child'[u].hashed => child[u].hashed)
    BY <1>1, <1>2, ZenonT(30) DEF ForgeTypeOK, Child
  <1>6. ASSUME NEW u \in Tasks
        PROVE  StepInv(u)' /\ child'[u].refs = MakersRefs(u)' + Cardinality(Spinners(u)')
    <2>1. StepInv(u) /\ child[u].refs = MakersRefs(u) + Cardinality(Spinners(u))
      BY DEF ForgeInv, RefsAccounted
    <2>2. MakersRefs(u)' = MakersRefs(u) /\ Spinners(u)' = Spinners(u)
      BY <1>2, <1>5 DEF MakersRefs, Spinners
    <2>3. StepInv(u)'
      BY <1>2, <1>5, <2>1, SMTT(30) DEF StepInv
    <2>. QED BY <1>5, <2>1, <2>2, <2>3
  <1>. QED BY <1>4, <1>6 DEF ForgeInv, RefsAccounted

\* ForgeInv is inductive.
LEMMA NextForgeInv == ForgeInv /\ [ForgeNext]_forge_vars => ForgeInv'
  <1>. SUFFICES ASSUME ForgeInv, [ForgeNext]_forge_vars PROVE ForgeInv'
    OBVIOUS
  <1>1. ASSUME NEW t \in Tasks, Task(t) PROVE ForgeInv'
    <2>1. ForgeTypeOK'
      BY <1>1, TaskType
    <2>2. ASSUME NEW u \in Tasks
          PROVE  StepInv(u)' /\ child'[u].refs = MakersRefs(u)' + Cardinality(Spinners(u)')
      BY <1>1, TaskStep, OtherTasks
    <2>. QED BY <2>1, <2>2 DEF ForgeInv, RefsAccounted
  <1>2. CASE UNCHANGED forge_vars
    BY <1>2 DEF forge_vars, ForgeInv, ForgeTypeOK, RefsAccounted, StepInv, MakersRefs, Spinners
  <1>. QED BY <1>1, <1>2, PacketStep, PacketDoneStep, ResetStep DEF ForgeNext

\* ForgeInv holds in every behaviour.
LEMMA ForgeInvHolds == ForgeSpec => []ForgeInv
  BY InitForgeInv, NextForgeInv, PTL DEF ForgeSpec

\* Types hold, however many tasks forge sockets at once.
THEOREM ForgeTypes == ForgeSpec => []ForgeTypeOK
  <1>1. ForgeInv => ForgeTypeOK
    BY DEF ForgeInv
  <1>. QED BY <1>1, ForgeInvHolds, PTL

\* References are accounted for, however many tasks forge and packets wait:
\* the BUG_ON of fake_inet_accept never fires and no child is freed early.
THEOREM ForgeRefs == ForgeSpec => []RefsAccounted
  <1>1. ForgeInv => RefsAccounted
    BY DEF ForgeInv
  <1>. QED BY <1>1, ForgeInvHolds, PTL

\* A successful ioctl leaves no lock behind.
THEOREM ForgeUnlocked == ForgeSpec => []SuccessLeavesNoLock
  <1>1. ForgeInv => SuccessLeavesNoLock
    BY DEF ForgeInv, StepInv, SuccessLeavesNoLock, Reachable, ForgeTypeOK
  <1>. QED BY <1>1, ForgeInvHolds, PTL

\* A failed ioctl leaves no open descriptor and no child that packets reach.
THEOREM ForgeFailure == ForgeSpec => []FailureLeavesNoWay
  <1>1. ForgeInv => FailureLeavesNoWay
    BY DEF ForgeInv, StepInv, FailureLeavesNoWay, Reachable, ForgeTypeOK
  <1>. QED BY <1>1, ForgeInvHolds, PTL
=============================================================================
