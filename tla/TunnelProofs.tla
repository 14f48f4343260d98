---------------------------- MODULE TunnelProofs ----------------------------
(***************************************************************************)
(* Proofs about a tunnel of telex-client, for every MAX_OUTPUT_BUFFER and  *)
(* any number of bytes: first what each callback of proxy.c and each move  *)
(* of libevent does to the two bufferevents, field by field, then the      *)
(* steps and the theorems about IInv; then that no step adds, drops or     *)
(* moves a byte of a stream, and with it that a tunnel implements Relay.   *)
(***************************************************************************)
EXTENDS Tunnel, TLAPS

\* The two bufferevents.
Bevs == [Sides -> Bev]

\* The two sides.
LEMMA SideFacts ==
  ASSUME NEW s \in Sides
  PROVE  /\ Partner(s) \in Sides /\ Partner(s) # s /\ Partner(Partner(s)) = s
         /\ \A r \in Sides : r = s \/ r = Partner(s)
         /\ \A b \in Bevs : b[s] \in Bev /\ b[Partner(s)] \in Bev
  BY DEF Sides, Partner, Bevs

\* The types of a bufferevent's fields.
LEMMA BevTypes ==
  ASSUME NEW x \in Bev
  PROVE  /\ x.in \in Seq(Nat) /\ x.out \in Seq(Nat) /\ x.tcp \in Seq(Nat) /\ x.low \in Nat
         /\ Len(x.in) \in Nat /\ Len(x.out) \in Nat /\ Len(x.tcp) \in Nat
         /\ x.pend \in SUBSET {"connected", "read", "write", "eof", "error"}
  <1>1. x.in \in Seq(Nat) /\ x.out \in Seq(Nat) /\ x.tcp \in Seq(Nat) /\ x.low \in Nat
        /\ x.pend \in SUBSET {"connected", "read", "write", "eof", "error"}
    BY DEF Bev
  <1>. QED BY <1>1

\* A sequence without its first k elements, and those.
LEMMA SplitFacts ==
  ASSUME NEW q \in Seq(Nat), NEW k \in 1..Len(q)
  PROVE  /\ SubSeq(q, k + 1, Len(q)) \in Seq(Nat) /\ SubSeq(q, 1, k) \in Seq(Nat)
         /\ Len(SubSeq(q, k + 1, Len(q))) = Len(q) - k
  OBVIOUS

\* Fields that most callbacks leave alone.
Same(x, y) == x.tcp = y.tcp /\ x.dead = y.dead
SameCbs(x, y) == x.readcb = y.readcb /\ x.writecb = y.writecb /\ x.low = y.low

\* The callbacks that proxy.c registers.
ReadCbs  == {"none", "read_cb"}
WriteCbs == {"none", "drained_write_cb", "close_on_finished_write_cb"}

\* A registered callback is one of them.
LEMMA Callbacks ==
  "read_cb" \in ReadCbs /\ "none" \in WriteCbs /\ "drained_write_cb" \in WriteCbs
  BY DEF ReadCbs, WriteCbs

\* The low watermark of a buffer that is to drain.
Half == MAX_OUTPUT_BUFFER \div 2

\* It lies below the mark at which the source pauses.
LEMMA HalfFacts == Half \in Nat /\ Half < MAX_OUTPUT_BUFFER /\ MAX_OUTPUT_BUFFER \in Nat
  BY SizeAssumption DEF Half

\* The assignments to a bufferevent that the callbacks and libevent make.
PutIn(x, v) == [x EXCEPT !.in = v]
PutOut(x, v) == [x EXCEPT !.out = v]
PutOn(x, v) == [x EXCEPT !.on = v]
PutPend(x, v) == [x EXCEPT !.pend = v]
PutCbs(x, r, w, l) == [x EXCEPT !.readcb = r, !.writecb = w, !.low = l]
PutWritten(x, o, m, t) == [x EXCEPT !.out = o, !.pend = m, !.tcp = t]
PutClosing(x) ==
  [x EXCEPT !.readcb = "none", !.writecb = "close_on_finished_write_cb", !.on = FALSE]

\* Filling or emptying the input buffer changes nothing else of a bufferevent.
LEMMA SetIn ==
  ASSUME NEW x \in Bev, NEW v \in Seq(Nat)
  PROVE  LET y == PutIn(x, v) IN
         /\ y \in Bev /\ y.in = v /\ y.out = x.out /\ y.on = x.on /\ y.pend = x.pend
         /\ Same(y, x) /\ SameCbs(y, x)
  BY Zenon DEF Bev, PutIn, Same, SameCbs

\* Filling or emptying the output buffer changes nothing else of it.
LEMMA SetOut ==
  ASSUME NEW x \in Bev, NEW v \in Seq(Nat)
  PROVE  LET y == PutOut(x, v) IN
         /\ y \in Bev /\ y.in = x.in /\ y.out = v /\ y.on = x.on /\ y.pend = x.pend
         /\ Same(y, x) /\ SameCbs(y, x)
  BY Zenon DEF Bev, PutOut, Same, SameCbs

\* bufferevent_enable and bufferevent_disable change only whether it reads.
LEMMA SetOn ==
  ASSUME NEW x \in Bev, NEW v \in BOOLEAN
  PROVE  LET y == PutOn(x, v) IN
         /\ y \in Bev /\ y.in = x.in /\ y.out = x.out /\ y.on = v /\ y.pend = x.pend
         /\ Same(y, x) /\ SameCbs(y, x)
  BY Zenon DEF Bev, PutOn, Same, SameCbs

\* Activating or running an event changes only the pending ones.
LEMMA SetPend ==
  ASSUME NEW x \in Bev, NEW v \in SUBSET {"connected", "read", "write", "eof", "error"}
  PROVE  LET y == PutPend(x, v) IN
         /\ y \in Bev /\ y.in = x.in /\ y.out = x.out /\ y.on = x.on /\ y.pend = v
         /\ Same(y, x) /\ SameCbs(y, x)
  BY Zenon DEF Bev, PutPend, Same, SameCbs

\* bufferevent_setcb and bufferevent_setwatermark leave buffers and events alone.
LEMMA SetCbs ==
  ASSUME NEW x \in Bev, NEW r \in ReadCbs, NEW w \in WriteCbs, NEW l \in Nat
  PROVE  LET y == PutCbs(x, r, w, l) IN
         /\ y \in Bev /\ y.in = x.in /\ y.out = x.out /\ y.on = x.on /\ y.pend = x.pend
         /\ Same(y, x) /\ y.readcb = r /\ y.writecb = w /\ y.low = l
  BY Zenon DEF Bev, PutCbs, Same, ReadCbs, WriteCbs

\* A write to the socket moves output into it and may activate the write event.
LEMMA SetWritten ==
  ASSUME NEW x \in Bev, NEW o \in Seq(Nat), NEW t \in Seq(Nat),
         NEW m \in SUBSET {"connected", "read", "write", "eof", "error"}
  PROVE  LET y == PutWritten(x, o, m, t) IN
         /\ y \in Bev /\ y.in = x.in /\ y.out = o /\ y.on = x.on /\ y.pend = m
         /\ y.tcp = t /\ y.dead = x.dead /\ SameCbs(y, x)
  BY Zenon DEF Bev, PutWritten, SameCbs

\* What on_eof does to the half that is to finish writing.
LEMMA SetClosing ==
  ASSUME NEW x \in Bev
  PROVE  LET y == PutClosing(x) IN
         /\ y \in Bev /\ y.in = x.in /\ y.out = x.out /\ y.on = FALSE /\ y.pend = x.pend
         /\ Same(y, x) /\ y.readcb = "none" /\ y.writecb = "close_on_finished_write_cb"
         /\ y.low = x.low
  BY Zenon DEF Bev, PutClosing, Same

\* read_cb moves all of the input.
LEMMA MovedFacts ==
  ASSUME NEW b \in Bevs, NEW s \in Sides
  PROVE  LET p == Partner(s)  c == Moved(b, s) IN
         /\ c \in Bevs
         /\ c[s].in = <<>> /\ c[s].out = b[s].out /\ c[s].on = b[s].on /\ c[s].pend = b[s].pend
         /\ Same(c[s], b[s]) /\ SameCbs(c[s], b[s])
         /\ c[p].in = b[p].in /\ c[p].out = b[p].out \o b[s].in /\ c[p].on = b[p].on
         /\ c[p].pend = b[p].pend /\ Same(c[p], b[p]) /\ SameCbs(c[p], b[p])
         /\ Len(c[p].out) = Len(b[p].out) + Len(b[s].in)
  <1>. DEFINE p == Partner(s)
              c == Moved(b, s)
  <1>. DEFINE v == b[p].out \o b[s].in
              x == PutOut(b[p], v)
              e == <<>>
              y == PutIn(b[s], e)
  <1>1. b[s] \in Bev /\ b[p] \in Bev /\ p # s /\ p \in Sides
    BY SideFacts
  <1>2. v \in Seq(Nat) /\ e \in Seq(Nat) /\ Len(v) = Len(b[p].out) + Len(b[s].in)
    BY <1>1 DEF Bev
  <1>3. c = [b EXCEPT ![p] = x, ![s] = y]
    BY <1>1, Zenon DEF Moved, Bevs, PutIn, PutOut
  <1>. HIDE DEF v, e
  <1>4. x \in Bev /\ y \in Bev
    BY <1>1, <1>2, SetIn, SetOut, Zenon
  <1>5. c \in Bevs /\ c[p] = x /\ c[s] = y
    <2>. HIDE DEF x, y
    <2>. QED BY <1>1, <1>3, <1>4 DEF Bevs
  <1>6. /\ c[p].in = b[p].in /\ c[p].out = v /\ c[p].on = b[p].on
        /\ c[p].pend = b[p].pend /\ Same(c[p], b[p]) /\ SameCbs(c[p], b[p])
    BY <1>1, <1>2, <1>5, SetOut, SMTT(40)
  <1>7. /\ c[s].in = e /\ c[s].out = b[s].out /\ c[s].on = b[s].on
        /\ c[s].pend = b[s].pend /\ Same(c[s], b[s]) /\ SameCbs(c[s], b[s])
    BY <1>1, <1>2, <1>5, SetIn, SMTT(40)
  <1>. QED BY <1>2, <1>5, <1>6, <1>7 DEF v, e

\* k bytes leave the output buffer.  The write callback is due afterwards if
\* few enough are left, and only then.
LEMMA WrittenFacts ==
  ASSUME NEW b \in Bevs, NEW s \in Sides,
         NEW k \in 1..Len(b[s].out)
  PROVE  LET p == Partner(s)  c == Written(b, s, k) IN
         /\ c \in Bevs /\ c[p] = b[p]
         /\ c[s].in = b[s].in /\ c[s].on = b[s].on /\ c[s].dead = b[s].dead /\ SameCbs(c[s], b[s])
         /\ Len(c[s].out) = Len(b[s].out) - k
         /\ IF Len(c[s].out) <= b[s].low /\ b[s].writecb # "none"
              THEN c[s].pend = b[s].pend \cup {"write"} ELSE c[s].pend = b[s].pend
  <1>. DEFINE p == Partner(s)
              c == Written(b, s, k)
  <1>. DEFINE o == SubSeq(b[s].out, k + 1, Len(b[s].out))
              f == SubSeq(b[s].out, 1, k)
              t == IF s = "remote" THEN b[s].tcp \o f ELSE b[s].tcp
              m == IF Len(o) <= b[s].low /\ b[s].writecb # "none"
                     THEN b[s].pend \cup {"write"} ELSE b[s].pend
              y == PutWritten(b[s], o, m, t)
  <1>1. b[s] \in Bev /\ b[p] \in Bev
    BY SideFacts
  <1>2. b[s].out \in Seq(Nat) /\ b[s].tcp \in Seq(Nat) /\ b[s].low \in Nat
        /\ b[s].pend \in SUBSET {"connected", "read", "write", "eof", "error"}
    BY <1>1, BevTypes
  <1>3. o \in Seq(Nat) /\ Len(o) = Len(b[s].out) - k /\ f \in Seq(Nat)
    BY <1>2, SplitFacts
  <1>4. c = [b EXCEPT ![s] = y]
    BY Zenon DEF Written, PutWritten
  <1>. HIDE DEF o, f
  <1>5. t \in Seq(Nat) /\ m \in SUBSET {"connected", "read", "write", "eof", "error"}
    BY <1>2, <1>3
  <1>. HIDE DEF t, m
  <1>6. /\ y \in Bev /\ y.in = b[s].in /\ y.out = o /\ y.on = b[s].on /\ y.pend = m
        /\ y.dead = b[s].dead /\ SameCbs(y, b[s])
    BY <1>1, <1>3, <1>5, SetWritten
  <1>7. c \in Bevs /\ c[p] = b[p] /\ c[s] = y
    <2>. HIDE DEF y
    <2>. QED BY <1>4, <1>6, SideFacts, SMTT(40) DEF Bevs
  <1>. QED BY <1>3, <1>6, <1>7, Zenon DEF m

\* A source pauses exactly when its partner's output buffer is full.
LEMMA PausedFacts ==
  ASSUME NEW b \in Bevs, NEW s \in Sides
  PROVE  LET p == Partner(s)  c == Paused(b, s) IN
         /\ c \in Bevs
         /\ c[s].in = b[s].in /\ c[s].out = b[s].out /\ c[s].pend = b[s].pend
         /\ Same(c[s], b[s]) /\ SameCbs(c[s], b[s])
         /\ c[p].in = b[p].in /\ c[p].out = b[p].out /\ c[p].on = b[p].on
         /\ c[p].pend = b[p].pend /\ Same(c[p], b[p])
         /\ \/ Len(b[p].out) < MAX_OUTPUT_BUFFER /\ c[s].on = b[s].on /\ SameCbs(c[p], b[p])
            \/ /\ ~(Len(b[p].out) < MAX_OUTPUT_BUFFER)
               /\ c[s].on = FALSE /\ c[p].readcb = "read_cb"
               /\ c[p].writecb = "drained_write_cb" /\ c[p].low = Half
  <1>. DEFINE p == Partner(s)
              c == Paused(b, s)
  <1>1. b[s] \in Bev /\ b[p] \in Bev /\ p # s /\ p \in Sides
    BY SideFacts
  <1>2. CASE Len(b[p].out) < MAX_OUTPUT_BUFFER
    BY <1>2 DEF Paused, Same, SameCbs
  <1>3. CASE ~(Len(b[p].out) < MAX_OUTPUT_BUFFER)
    <2>. DEFINE x == PutCbs(b[p], "read_cb", "drained_write_cb", Half)
                y == PutOn(b[s], FALSE)
    <2>2. c = [b EXCEPT ![p] = x, ![s] = y]
      <3>. DEFINE d == [b EXCEPT ![p] = x]
      <3>1. c = [d EXCEPT ![s].on = FALSE]
        BY <1>3, Zenon DEF Paused, PutCbs, Half
      <3>. QED BY <1>1, <3>1, Zenon DEF Bevs, PutOn
    <2>3. /\ x \in Bev /\ x.in = b[p].in /\ x.out = b[p].out /\ x.on = b[p].on
          /\ x.pend = b[p].pend /\ Same(x, b[p])
          /\ x.readcb = "read_cb" /\ x.writecb = "drained_write_cb" /\ x.low = Half
      BY <1>1, HalfFacts, Callbacks, SetCbs
    <2>4. /\ y \in Bev /\ y.in = b[s].in /\ y.out = b[s].out /\ y.on = FALSE
          /\ y.pend = b[s].pend /\ Same(y, b[s]) /\ SameCbs(y, b[s])
      BY <1>1, SetOn, Zenon
    <2>5. c \in Bevs /\ c[p] = x /\ c[s] = y
      <3>. HIDE DEF x, y
      <3>. QED BY <1>1, <2>2, <2>3, <2>4 DEF Bevs
    <2>. QED BY <1>3, <2>3, <2>4, <2>5, Zenon
  <1>. QED BY <1>2, <1>3, Zenon

\* drained_write_cb switches the source on again.
LEMMA DrainedFacts ==
  ASSUME NEW b \in Bevs, NEW s \in Sides
  PROVE  LET p == Partner(s)  c == drained_write_cb(b, s) IN
         /\ c \in Bevs
         /\ c[s].in = b[s].in /\ c[s].out = b[s].out /\ c[s].on = b[s].on /\ c[s].pend = b[s].pend
         /\ Same(c[s], b[s]) /\ c[s].readcb = "read_cb" /\ c[s].writecb = "none" /\ c[s].low = 0
         /\ c[p].in = b[p].in /\ c[p].out = b[p].out /\ c[p].on = TRUE
         /\ c[p].pend = b[p].pend /\ Same(c[p], b[p]) /\ SameCbs(c[p], b[p])
  <1>. DEFINE p == Partner(s)
              c == drained_write_cb(b, s)
  <1>. DEFINE x == PutCbs(b[s], "read_cb", "none", 0)
              y == PutOn(b[p], TRUE)
              d == [b EXCEPT ![s] = x]
  <1>1. b[s] \in Bev /\ b[p] \in Bev /\ p # s /\ p \in Sides
    BY SideFacts
  <1>2. c = [d EXCEPT ![p].on = TRUE]
    BY Zenon DEF drained_write_cb, PutCbs
  <1>3. c = [d EXCEPT ![p] = y]
    BY <1>1, <1>2 DEF Bevs, PutOn
  <1>4. /\ x \in Bev /\ x.in = b[s].in /\ x.out = b[s].out /\ x.on = b[s].on
        /\ x.pend = b[s].pend /\ Same(x, b[s])
        /\ x.readcb = "read_cb" /\ x.writecb = "none" /\ x.low = 0
    BY <1>1, Callbacks, SetCbs
  <1>5. /\ y \in Bev /\ y.in = b[p].in /\ y.out = b[p].out /\ y.on = TRUE
        /\ y.pend = b[p].pend /\ Same(y, b[p]) /\ SameCbs(y, b[p])
    BY <1>1, SetOn, Zenon
  <1>6. c \in Bevs /\ c[p] = y /\ c[s] = x
    <2>. HIDE DEF x, y
    <2>. QED BY <1>1, <1>3, <1>4, <1>5 DEF Bevs
  <1>. QED BY <1>4, <1>5, <1>6, Zenon

\* The partner of a side that has ended waits until it is written out.
LEMMA ClosingFacts ==
  ASSUME NEW b \in Bevs, NEW s \in Sides
  PROVE  LET p == Partner(s)  c == CloseWhenWritten(b, p) IN
         /\ c \in Bevs /\ c[s] = b[s]
         /\ c[p].in = b[p].in /\ c[p].out = b[p].out /\ c[p].on = FALSE
         /\ c[p].pend = b[p].pend /\ Same(c[p], b[p])
         /\ c[p].readcb = "none" /\ c[p].writecb = "close_on_finished_write_cb"
         /\ c[p].low = b[p].low
  <1>. DEFINE p == Partner(s)
              c == CloseWhenWritten(b, p)
  <1>. DEFINE x == PutClosing(b[p])
  <1>1. b[s] \in Bev /\ b[p] \in Bev /\ p # s /\ p \in Sides
    BY SideFacts
  <1>2. c = [b EXCEPT ![p] = x]
    BY Zenon DEF CloseWhenWritten, PutClosing
  <1>3. /\ x \in Bev /\ x.in = b[p].in /\ x.out = b[p].out /\ x.on = FALSE
        /\ x.pend = b[p].pend /\ Same(x, b[p])
        /\ x.readcb = "none" /\ x.writecb = "close_on_finished_write_cb" /\ x.low = b[p].low
    BY <1>1, SetClosing, Zenon
  <1>4. c \in Bevs /\ c[p] = x /\ c[s] = b[s]
    <2>. HIDE DEF x
    <2>. QED BY <1>1, <1>2, <1>3 DEF Bevs
  <1>. QED BY <1>3, <1>4

\* The loop takes marks from a side.
LEMMA ClearFacts ==
  ASSUME bev \in Bevs, NEW s \in Sides, NEW marks
  PROVE  LET p == Partner(s)  c == Clear(s, marks) IN
         /\ c \in Bevs /\ c[p] = bev[p]
         /\ c[s].in = bev[s].in /\ c[s].out = bev[s].out /\ c[s].on = bev[s].on
         /\ c[s].pend = bev[s].pend \ marks /\ Same(c[s], bev[s]) /\ SameCbs(c[s], bev[s])
  <1>. DEFINE p == Partner(s)
              c == Clear(s, marks)
  <1>. DEFINE m == bev[s].pend \ marks
              x == PutPend(bev[s], m)
  <1>1. bev[s] \in Bev /\ bev[p] \in Bev /\ p # s /\ p \in Sides
    BY SideFacts
  <1>2. m \in SUBSET {"connected", "read", "write", "eof", "error"}
    BY <1>1 DEF Bev
  <1>3. c = [bev EXCEPT ![s] = x]
    BY Zenon DEF Clear, PutPend
  <1>. HIDE DEF m
  <1>4. /\ x \in Bev /\ x.in = bev[s].in /\ x.out = bev[s].out /\ x.on = bev[s].on
        /\ x.pend = m /\ Same(x, bev[s]) /\ SameCbs(x, bev[s])
    BY <1>1, <1>2, SetPend
  <1>5. c \in Bevs /\ c[p] = bev[p] /\ c[s] = x
    <2>. HIDE DEF x
    <2>. QED BY <1>1, <1>3, <1>4, SMTT(40) DEF Bevs
  <1>. QED BY <1>4, <1>5, SMTT(40) DEF m

\* What read_cb does to the bufferevents b of s and its partner p: the input
\* of s is gone, the write callback of p is due if few enough bytes are left,
\* and s is paused exactly when the output buffer of p is full.
HandedOn(b, c, s, p) ==
  /\ c \in Bevs
  /\ c[s].in = <<>> /\ c[s].out = b[s].out /\ c[s].pend = b[s].pend
  /\ c[s].dead = b[s].dead /\ SameCbs(c[s], b[s])
  /\ c[p].in = b[p].in /\ c[p].on = b[p].on /\ c[p].dead = b[p].dead
  /\ b[s].in = <<>> => Len(c[p].out) <= Len(b[p].out)
  /\ \/ /\ c[p].pend = b[p].pend
        /\ \/ b[s].in = <<>> => Len(c[p].out) = Len(b[p].out)
           \/ Len(c[p].out) > b[p].low \/ b[p].writecb = "none"
     \/ /\ c[p].pend = b[p].pend \cup {"write"}
        /\ Len(c[p].out) <= b[p].low /\ b[p].writecb # "none"
  /\ \/ Len(c[p].out) < MAX_OUTPUT_BUFFER /\ c[s].on = b[s].on /\ SameCbs(c[p], b[p])
     \/ /\ ~(Len(c[p].out) < MAX_OUTPUT_BUFFER)
        /\ c[s].on = FALSE /\ c[p].readcb = "read_cb"
        /\ c[p].writecb = "drained_write_cb" /\ c[p].low = Half

\* That is what read_cb does.
LEMMA ReadCbFacts ==
  ASSUME NEW b \in Bevs, NEW s \in Sides, NEW c \in read_cb(b, s)
  PROVE  HandedOn(b, c, s, Partner(s))
  <1>. DEFINE p == Partner(s)
  <1>. DEFINE a == Moved(b, s)
  <1>1. p \in Sides /\ p # s /\ s = Partner(p)
    BY SideFacts, SMTT(40)
  <1>2. /\ a \in Bevs
        /\ a[s].in = <<>> /\ a[s].out = b[s].out /\ a[s].on = b[s].on /\ a[s].pend = b[s].pend
        /\ Same(a[s], b[s]) /\ SameCbs(a[s], b[s])
        /\ a[p].in = b[p].in /\ a[p].on = b[p].on
        /\ a[p].pend = b[p].pend /\ Same(a[p], b[p]) /\ SameCbs(a[p], b[p])
        /\ Len(a[p].out) = Len(b[p].out) + Len(b[s].in)
    BY MovedFacts, Zenon
  <1>3. PICK d \in Added(a, p) : c = Paused(d, s)
    BY Zenon DEF read_cb
  <1>. HIDE DEF a
  <1>4. d = a \/ \E k \in 1..Len(a[p].out) : d = Written(a, p, k)
    BY <1>3 DEF Added
  <1>5. a[s] \in Bev /\ a[p] \in Bev /\ b[s] \in Bev /\ b[p] \in Bev
    BY <1>1, <1>2, SideFacts
  <1>6. Len(a[p].out) \in Nat /\ Len(b[p].out) \in Nat /\ Len(b[s].in) \in Nat /\ b[p].low \in Nat
        /\ a[p].low \in Nat
    BY <1>5, BevTypes
  <1>7. /\ d \in Bevs /\ d[s] = a[s]
        /\ d[p].in = a[p].in /\ d[p].on = a[p].on /\ d[p].dead = a[p].dead
        /\ SameCbs(d[p], a[p]) /\ Len(d[p].out) <= Len(a[p].out)
        /\ \/ /\ d[p].pend = a[p].pend
              /\ \/ Len(d[p].out) = Len(a[p].out)
                 \/ Len(d[p].out) > a[p].low \/ a[p].writecb = "none"
           \/ /\ d[p].pend = a[p].pend \cup {"write"}
              /\ Len(d[p].out) <= a[p].low /\ a[p].writecb # "none"
    <2>1. CASE d = a
      <3>1. a \in Bevs
        BY <1>2, SMTT(40)
      <3>. QED BY <1>6, <2>1, <3>1, SMTT(40) DEF SameCbs
    <2>2. ASSUME NEW k \in 1..Len(a[p].out), d = Written(a, p, k)
          PROVE  /\ d \in Bevs /\ d[s] = a[s]
                 /\ d[p].in = a[p].in /\ d[p].on = a[p].on /\ d[p].dead = a[p].dead
                 /\ SameCbs(d[p], a[p]) /\ Len(d[p].out) <= Len(a[p].out)
                 /\ \/ /\ d[p].pend = a[p].pend
                       /\ Len(d[p].out) > a[p].low \/ a[p].writecb = "none"
                    \/ /\ d[p].pend = a[p].pend \cup {"write"}
                       /\ Len(d[p].out) <= a[p].low /\ a[p].writecb # "none"
      <3>1. /\ d \in Bevs /\ d[s] = a[s]
            /\ d[p].in = a[p].in /\ d[p].on = a[p].on /\ d[p].dead = a[p].dead
            /\ SameCbs(d[p], a[p])
            /\ Len(d[p].out) = Len(a[p].out) - k
            /\ IF Len(d[p].out) <= a[p].low /\ a[p].writecb # "none"
                 THEN d[p].pend = a[p].pend \cup {"write"} ELSE d[p].pend = a[p].pend
        BY <1>1, <1>2, <2>2, WrittenFacts, ZenonT(60)
      <3>. QED BY <1>6, <3>1, SMTT(40)
    <2>. QED BY <1>4, <2>1, <2>2
  <1>8. /\ c \in Bevs
        /\ c[s].in = d[s].in /\ c[s].out = d[s].out /\ c[s].pend = d[s].pend
        /\ Same(c[s], d[s]) /\ SameCbs(c[s], d[s])
        /\ c[p].in = d[p].in /\ c[p].out = d[p].out /\ c[p].on = d[p].on
        /\ c[p].pend = d[p].pend /\ Same(c[p], d[p])
        /\ \/ Len(d[p].out) < MAX_OUTPUT_BUFFER /\ c[s].on = d[s].on /\ SameCbs(c[p], d[p])
           \/ /\ ~(Len(d[p].out) < MAX_OUTPUT_BUFFER)
              /\ c[s].on = FALSE /\ c[p].readcb = "read_cb"
              /\ c[p].writecb = "drained_write_cb" /\ c[p].low = Half
    <2>1. d \in Bevs
      BY <1>7
    <2>. QED BY <1>3, <2>1, PausedFacts, ZenonT(60)
  <1>9. b[s].in = <<>> => Len(a[p].out) = Len(b[p].out)
    BY <1>2, <1>6, SMTT(40)
  <1>10. /\ b[s].in = <<>> => Len(c[p].out) <= Len(b[p].out)
         /\ \/ /\ c[p].pend = b[p].pend
               /\ \/ b[s].in = <<>> => Len(c[p].out) = Len(b[p].out)
                  \/ Len(c[p].out) > b[p].low \/ b[p].writecb = "none"
            \/ /\ c[p].pend = b[p].pend \cup {"write"}
               /\ Len(c[p].out) <= b[p].low /\ b[p].writecb # "none"
    BY <1>2, <1>7, <1>8, <1>9, Zenon DEF SameCbs
  <1>11. \/ Len(c[p].out) < MAX_OUTPUT_BUFFER /\ c[s].on = b[s].on /\ SameCbs(c[p], b[p])
         \/ /\ ~(Len(c[p].out) < MAX_OUTPUT_BUFFER)
            /\ c[s].on = FALSE /\ c[p].readcb = "read_cb"
            /\ c[p].writecb = "drained_write_cb" /\ c[p].low = Half
    BY <1>2, <1>7, <1>8 DEF SameCbs
  <1>12. /\ c \in Bevs
         /\ c[s].in = <<>> /\ c[s].out = b[s].out /\ c[s].pend = b[s].pend
         /\ c[s].dead = b[s].dead /\ SameCbs(c[s], b[s])
         /\ c[p].in = b[p].in /\ c[p].on = b[p].on /\ c[p].dead = b[p].dead
    BY <1>2, <1>7, <1>8 DEF Same, SameCbs
  <1>. QED BY <1>10, <1>11, <1>12 DEF HandedOn

-----------------------------------------------------------------------------
(* What libevent does to a bufferevent.                                    *)

Marks == {"connected", "read", "write", "eof", "error"}

PutRead(x, i, m) == [x EXCEPT !.in = i, !.pend = m]
PutOff(x, m) == [x EXCEPT !.on = FALSE, !.pend = m]
PutDead(x, m) == [x EXCEPT !.dead = TRUE, !.pend = m]
PutTcp(x, t) == [x EXCEPT !.tcp = t]
PutReadCb(x) == [x EXCEPT !.readcb = "read_cb"]

\* Input arrives.
LEMMA SetRead ==
  ASSUME NEW x \in Bev, NEW i \in Seq(Nat), NEW m \in SUBSET Marks
  PROVE  LET y == PutRead(x, i, m) IN
         /\ y \in Bev /\ y.in = i /\ y.out = x.out /\ y.on = x.on /\ y.pend = m
         /\ Same(y, x) /\ SameCbs(y, x)
  BY Zenon DEF Bev, PutRead, Same, SameCbs, Marks

\* End of file: reading is switched off.
LEMMA SetOff ==
  ASSUME NEW x \in Bev, NEW m \in SUBSET Marks
  PROVE  LET y == PutOff(x, m) IN
         /\ y \in Bev /\ y.in = x.in /\ y.out = x.out /\ y.on = FALSE /\ y.pend = m
         /\ Same(y, x) /\ SameCbs(y, x)
  BY Zenon DEF Bev, PutOff, Same, SameCbs, Marks

\* The connection breaks.
LEMMA SetDead ==
  ASSUME NEW x \in Bev, NEW m \in SUBSET Marks
  PROVE  LET y == PutDead(x, m) IN
         /\ y \in Bev /\ y.in = x.in /\ y.out = x.out /\ y.on = x.on /\ y.pend = m
         /\ y.dead = TRUE /\ SameCbs(y, x)
  BY Zenon DEF Bev, PutDead, SameCbs, Marks

\* Encrypted bytes leave remotetcp.
LEMMA SetTcp ==
  ASSUME NEW x \in Bev, NEW t \in Seq(Nat)
  PROVE  LET y == PutTcp(x, t) IN
         /\ y \in Bev /\ y.in = x.in /\ y.out = x.out /\ y.on = x.on /\ y.pend = x.pend
         /\ y.dead = x.dead /\ SameCbs(y, x)
  BY Zenon DEF Bev, PutTcp, SameCbs

\* The callbacks of a new bufferevent are registered.
LEMMA SetReadCb ==
  ASSUME NEW x \in Bev
  PROVE  LET y == PutReadCb(x) IN
         /\ y \in Bev /\ y.in = x.in /\ y.out = x.out /\ y.on = x.on /\ y.pend = x.pend
         /\ Same(y, x) /\ y.readcb = "read_cb" /\ y.writecb = x.writecb
  BY Zenon DEF Bev, PutReadCb, Same

-----------------------------------------------------------------------------
(* The invariant of an open tunnel, side by side.                          *)

\* What holds of side s of an open tunnel with partner p, bufferevents b, ended
\* streams f and unread bytes n; and that s has someone to wake it.
Core(b, f, n, s, p) ==
  /\ "connected" \notin b[s].pend
  /\ b[s].writecb = "none" => "write" \notin b[s].pend
  /\ b[s].writecb = "drained_write_cb" =>
       /\ b[p].on = FALSE /\ b[p].in = <<>> /\ b[s].low = Half
       /\ "write" \in b[s].pend => Len(b[s].out) <= b[s].low
  /\ "eof" \in b[s].pend => f[s] /\ n[s] = <<>>
  /\ b[s].readcb = "none" => b[s].writecb = "close_on_finished_write_cb"
  /\ b[s].writecb = "close_on_finished_write_cb" =>
       /\ b[s].readcb = "none" /\ b[p].in = <<>> /\ f[p] /\ n[p] = <<>>
       /\ "read" \notin b[p].pend \/ b[p].readcb = "none"
       /\ b[s].out # <<>> \/ "write" \in b[s].pend \/ b[s].dead
  /\ b[s].on = TRUE => Len(b[p].out) < MAX_OUTPUT_BUFFER

Waker(b, s, p) ==
  \/ b[s].on = TRUE \/ "eof" \in b[s].pend \/ b[s].dead
  \/ b[s].writecb = "close_on_finished_write_cb" \/ b[p].writecb = "close_on_finished_write_cb"
  \/ /\ b[p].writecb = "drained_write_cb"
     /\ Len(b[p].out) > b[p].low \/ "write" \in b[p].pend

\* read_cb keeps both sides as they should be, unless its partner is about to
\* close; and nobody loses their waker.
LEMMA ReadCbCore ==
  ASSUME NEW b \in Bevs, NEW f \in [Sides -> BOOLEAN], NEW n, NEW s \in Sides,
         NEW p, p = Partner(s), NEW c \in read_cb(b, s),
         Core(b, f, n, s, p), Core(b, f, n, p, s),
         b[p].writecb # "close_on_finished_write_cb"
  PROVE  /\ Core(c, f, n, s, p) /\ Core(c, f, n, p, s)
         /\ Waker(b, s, p) => Waker(c, s, p)
         /\ Waker(b, p, s) => Waker(c, p, s)
  <1>1. HandedOn(b, c, s, p)
    BY ReadCbFacts, SMTT(40)
  <1>2. b[s] \in Bev /\ b[p] \in Bev /\ c[s] \in Bev /\ c[p] \in Bev
    BY <1>1, SideFacts, SMTT(40) DEF HandedOn
  <1>3. /\ Len(b[p].out) \in Nat /\ Len(b[s].in) \in Nat /\ Len(c[p].out) \in Nat
        /\ b[p].low \in Nat
    BY <1>2, BevTypes, SMTT(40)
  <1>5. b[p].writecb \in {"none", "drained_write_cb"}
    BY <1>2, SMTT(40) DEF Bev
  <1>6. Core(c, f, n, s, p)
    BY <1>1, SMTT(40) DEF Core, SameCbs, HandedOn
  <1>7. Core(c, f, n, p, s)
    <2>1. CASE Len(c[p].out) < MAX_OUTPUT_BUFFER
      BY <1>1, <1>3, <2>1, SMTT(40) DEF Core, SameCbs, HandedOn
    <2>2. CASE ~(Len(c[p].out) < MAX_OUTPUT_BUFFER)
      <3>1. "write" \notin c[p].pend
        <4>1. CASE b[p].writecb = "none"
          BY <1>1, <4>1, SMTT(40) DEF Core, HandedOn
        <4>2. CASE b[p].writecb = "drained_write_cb"
          <5>1. b[s].in = <<>> /\ b[p].low = Half /\ Len(c[p].out) <= Len(b[p].out)
            BY <1>1, <4>2, SMTT(40) DEF Core, HandedOn
          <5>2. "write" \notin b[p].pend
            BY <1>3, <2>2, <4>2, <5>1, HalfFacts, SMTT(40) DEF Core
          <5>. QED BY <1>1, <1>3, <2>2, <5>1, <5>2, HalfFacts, SMTT(40) DEF HandedOn
        <4>. QED BY <1>5, <4>1, <4>2, SMTT(40)
      <3>2. /\ "connected" \notin c[p].pend
            /\ "eof" \in c[p].pend => "eof" \in b[p].pend
        BY <1>1, SMTT(40) DEF Core, HandedOn
      <3>. QED BY <1>1, <2>2, <3>1, <3>2, SMTT(40) DEF Core, HandedOn
    <2>. QED BY <2>1, <2>2, SMTT(40)
  <1>8. Waker(b, s, p) => Waker(c, s, p)
    BY <1>1, <1>3, HalfFacts, SMTT(40) DEF Core, Waker, SameCbs, HandedOn
  <1>9. Waker(b, p, s) => Waker(c, p, s)
    BY <1>1 DEF Waker, SameCbs, HandedOn
  <1>. QED BY <1>6, <1>7, <1>8, <1>9, SMTT(40)

\* The invariant of an open tunnel, taken apart.
LEMMA OpenSides ==
  ASSUME IInv, phase = "open", NEW s \in Sides, NEW p, p = Partner(s)
  PROVE  Core(bev, fin, net, s, p) /\ Waker(bev, s, p)
  <1>1. bev[s] \in Bev /\ bev[p] \in Bev /\ p \in Sides
    BY SideFacts, SMTT(40) DEF IInv, TypeOK, Bevs
  <1>2. bev[s].on \in BOOLEAN /\ bev[p].on \in BOOLEAN /\ Alive
    BY <1>1, SMTT(40) DEF Bev, Alive
  <1>3. Core(bev, fin, net, s, p)
    BY <1>1, <1>2, SMTT(40) DEF IInv, Quiet, DrainPaused, FinishFinal, FinishHasWaker,
       ReadOnlyWithRoom,
       Core, Half
  <1>4. Waker(bev, s, p)
    BY <1>1, <1>2, SMTT(40) DEF IInv, PausedHasWaker, Waker
  <1>. QED BY <1>3, <1>4, SMTT(40)

\* The same in the next state, put together.
LEMMA OpenJoin ==
  ASSUME TypeOK', Resources', phase' = "open",
         \A s \in Sides : Core(bev', fin', net', s, Partner(s)) /\ Waker(bev', s, Partner(s))
  PROVE  IInv'
  <1>1. ASSUME NEW s \in Sides
        PROVE  bev'[s].on \in BOOLEAN /\ bev'[Partner(s)].on \in BOOLEAN
    BY SideFacts, SMTT(40) DEF TypeOK, Bevs, Bev
  <1>2. Quiet'
    BY DEF Quiet, Alive, Core, Sides
  <1>3. DrainPaused'
    BY <1>1 DEF DrainPaused, Core, Half
  <1>4. FinishFinal'
    BY DEF FinishFinal, Core
  <1>5. ReadOnlyWithRoom'
    BY <1>1 DEF ReadOnlyWithRoom, Core
  <1>6. PausedHasWaker'
    BY <1>1 DEF PausedHasWaker, Waker
  <1>7. FinishHasWaker'
    BY DEF FinishHasWaker, Core
  <1>. QED BY <1>2, <1>3, <1>4, <1>5, <1>6, <1>7, SMTT(40) DEF IInv

\* A tunnel that nobody has used yet, or that is closed.
LEMMA EarlyJoin ==
  ASSUME TypeOK', Resources', phase' # "open", \A s \in Sides : Untouched(bev'[s]),
         "connected" \notin bev'["local"].pend,
         \/ /\ phase' = "handshake"
            /\ \A s \in Sides : /\ bev'[s].readcb = "read_cb"
                                /\ bev'[s].pend \subseteq {"connected", "error"}
         \/ /\ phase' # "handshake"
            /\ \A s \in Sides : bev'[s].pend = {} /\ bev'[s].dead = FALSE
  PROVE  IInv'
  <1>1. Quiet'
    BY DEF Quiet, Alive
  <1>2. \A s \in Sides : "eof" \notin bev'[s].pend /\ "write" \notin bev'[s].pend
    OBVIOUS
  <1>3. DrainPaused'
    BY <1>2 DEF DrainPaused, Untouched
  <1>4. FinishFinal'
    BY <1>2 DEF FinishFinal, Untouched, Alive
  <1>5. ReadOnlyWithRoom'
    BY DEF ReadOnlyWithRoom, Untouched
  <1>6. PausedHasWaker' /\ FinishHasWaker'
    BY DEF PausedHasWaker, FinishHasWaker, Untouched
  <1>. QED BY <1>1, <1>3, <1>4, <1>5, <1>6, SMTT(40) DEF IInv

\* Before the tunnel is open no side has been read or written.
LEMMA EarlySides ==
  ASSUME IInv, phase # "open"
  PROVE  /\ \A s \in Sides : Untouched(bev[s])
         /\ "connected" \notin bev["local"].pend
         /\ phase = "handshake" =>
              \A s \in Sides : bev[s].readcb = "read_cb" /\ bev[s].pend \subseteq {"connected", "error"}
         /\ phase # "handshake" =>
              \A s \in Sides : bev[s].pend = {} /\ bev[s].dead = FALSE
  <1>1. \A s \in Sides : bev[s].dead \in BOOLEAN
    BY DEF IInv, TypeOK, Bev
  <1>. QED BY <1>1, SMTT(40) DEF IInv, Quiet, Alive

-----------------------------------------------------------------------------
(* The steps.                                                              *)

Counters == [state : Nat, bev : Nat, ssl : Nat]

\* A counter goes up.
LEMMA CountersUp ==
  ASSUME NEW r \in Counters, NEW k \in Nat, NEW l \in Nat
  PROVE  /\ [r EXCEPT !.state = k, !.bev = l] \in Counters
         /\ [r EXCEPT !.ssl = k, !.bev = l] \in Counters
  BY Zenon DEF Counters

\* A step of an open tunnel that only moves bytes and registers callbacks.
LEMMA OpenStep ==
  ASSUME IInv, phase = "open", UNCHANGED <<phase, objs, refs, end, lost>>, bev' \in Bevs,
         net' \in [Sides -> Seq(Nat)], sent' \in [Sides -> Seq(Nat)],
         fin' \in [Sides -> BOOLEAN], got' \in [Sides -> Seq(Nat)],
         NEW s \in Sides, NEW p, p = Partner(s),
         Core(bev', fin', net', s, p), Core(bev', fin', net', p, s),
         Waker(bev', s, p), Waker(bev', p, s)
  PROVE  IInv'
  <1>1. TypeOK' /\ Resources'
    BY SMTT(40) DEF IInv, TypeOK, Resources, Alive, Bevs
  <1>2. \A r \in Sides : Core(bev', fin', net', r, Partner(r)) /\ Waker(bev', r, Partner(r))
    BY SideFacts, Zenon
  <1>. QED BY <1>1, <1>2, OpenJoin, SMTT(40)

\* A step before the tunnel is open that leaves its buffers alone.
LEMMA EarlyStep ==
  ASSUME IInv, phase # "open", UNCHANGED <<phase, objs, refs, end, lost>>, bev' \in Bevs,
         net' \in [Sides -> Seq(Nat)], sent' \in [Sides -> Seq(Nat)],
         fin' \in [Sides -> BOOLEAN], got' \in [Sides -> Seq(Nat)],
         \A r \in Sides : /\ Untouched(bev'[r]) /\ bev'[r].readcb = bev[r].readcb
                          /\ bev'[r].pend \subseteq {"connected", "error"},
         "connected" \notin bev'["local"].pend,
         \/ phase = "handshake"
         \/ \A r \in Sides : bev'[r].pend = {} /\ bev'[r].dead = FALSE
  PROVE  IInv'
  <1>1. TypeOK' /\ Resources'
    BY SMTT(40) DEF IInv, TypeOK, Resources, Alive, Bevs
  <1>. QED BY <1>1, EarlySides, EarlyJoin, Zenon

\* The types of the streams.
LEMMA StreamTypes ==
  ASSUME IInv
  PROVE  /\ net \in [Sides -> Seq(Nat)] /\ sent \in [Sides -> Seq(Nat)]
         /\ fin \in [Sides -> BOOLEAN] /\ got \in [Sides -> Seq(Nat)] /\ bev \in Bevs
  BY DEF IInv, TypeOK, Bevs

\* A peer sends, or ends its stream.
LEMMA PeerInv ==
  ASSUME IInv, NEW s \in Sides, PeerSends(s) \/ PeerEnds(s)
  PROVE  IInv'
  <1>1. /\ UNCHANGED <<phase, objs, refs, end, lost, bev>>
        /\ net' \in [Sides -> Seq(Nat)] /\ sent' \in [Sides -> Seq(Nat)]
        /\ fin' \in [Sides -> BOOLEAN] /\ got' \in [Sides -> Seq(Nat)] /\ bev' \in Bevs
    <2>1. CASE PeerSends(s)
      <3>1. /\ sent[s] \in Seq(Nat) /\ net[s] \in Seq(Nat)
        BY StreamTypes, SMTT(40)
      <3>2. /\ Append(sent[s], Len(sent[s]) + 1) \in Seq(Nat)
            /\ Append(net[s], Len(sent[s]) + 1) \in Seq(Nat)
        BY <3>1, SMTT(40)
      <3>. QED BY <2>1, <3>2, StreamTypes, SMTT(40) DEF PeerSends, ending
    <2>2. CASE PeerEnds(s)
      BY <2>2, StreamTypes, SMTT(40) DEF PeerEnds, ending
    <2>. QED BY <2>1, <2>2, SMTT(40)
  <1>2. \A r \in Sides : fin[r] /\ net[r] = <<>> => fin'[r] /\ net'[r] = <<>>
    BY StreamTypes, ZenonT(60) DEF PeerSends, PeerEnds
  <1>3. CASE phase = "open"
    <2>. DEFINE p == Partner(s)
    <2>1. p \in Sides /\ s = Partner(p)
      BY SideFacts, SMTT(40)
    <2>. HIDE DEF p
    <2>2. /\ Core(bev, fin, net, s, p) /\ Core(bev, fin, net, p, s)
          /\ Waker(bev, s, p) /\ Waker(bev, p, s)
      BY <1>3, <2>1, OpenSides, SMTT(40) DEF p
    <2>3. Core(bev', fin', net', s, p)
      BY <1>1, <1>2, <2>1, <2>2, SMTT(40) DEF Core
    <2>4. Core(bev', fin', net', p, s)
      BY <1>1, <1>2, <2>1, <2>2, SMTT(40) DEF Core
    <2>5. Waker(bev', s, p) /\ Waker(bev', p, s)
      BY <1>1, <2>2, SMTT(40) DEF Waker
    <2>. QED BY <1>1, <1>3, <2>1, <2>3, <2>4, <2>5, OpenStep, SMTT(40) DEF p
  <1>4. CASE phase # "open"
    BY <1>1, <1>4, EarlySides, EarlyStep, Zenon
  <1>. QED BY <1>3, <1>4, SMTT(40)

\* Only an open tunnel is read or written.
LEMMA UsedIsOpen ==
  ASSUME IInv, Alive, NEW s \in Sides,
         \/ bev[s].on = TRUE \/ bev[s].out # <<>>
         \/ {"read", "write", "eof"} \cap bev[s].pend # {}
  PROVE  phase = "open"
  BY EarlySides, ZenonT(60) DEF Alive, Untouched

\* The loop runs read_cb.
LEMMA RunReadCbInv ==
  ASSUME IInv, NEW s \in Sides, RunReadCb(s)
  PROVE  IInv'
  <1>. DEFINE p == Partner(s)
              b == Clear(s, {"read"})
  <1>1. p \in Sides /\ s = Partner(p)
    BY SideFacts, SMTT(40)
  <1>2. /\ Alive /\ "read" \in bev[s].pend /\ bev[s].readcb # "none" /\ bev' \in read_cb(b, s)
        /\ UNCHANGED <<phase, objs, refs, end, lost, net, sent, fin, got>>
    BY DEF RunReadCb, Due, streams, ending
  <1>3. phase = "open"
    BY <1>2, UsedIsOpen, ZenonT(60)
  <1>4. /\ Core(bev, fin, net, s, p) /\ Core(bev, fin, net, p, s)
        /\ Waker(bev, s, p) /\ Waker(bev, p, s)
    BY <1>1, <1>3, OpenSides, SMTT(40)
  <1>5. /\ b \in Bevs /\ b[p] = bev[p]
        /\ b[s].in = bev[s].in /\ b[s].out = bev[s].out /\ b[s].on = bev[s].on
        /\ b[s].pend = bev[s].pend \ {"read"} /\ Same(b[s], bev[s]) /\ SameCbs(b[s], bev[s])
    BY StreamTypes, ClearFacts, SMTT(40)
  <1>. HIDE DEF b, p
  <1>6. Core(b, fin, net, s, p) /\ Core(b, fin, net, p, s)
    BY <1>4, <1>5, SMTT(40) DEF Core, Same, SameCbs
  <1>7. Waker(b, s, p) /\ Waker(b, p, s)
    BY <1>4, <1>5, SMTT(40) DEF Waker, Same, SameCbs
  <1>8. b[p].writecb # "close_on_finished_write_cb"
    BY <1>2, <1>4, <1>5, SMTT(40) DEF Core
  <1>9. bev' \in Bevs
    BY <1>2, <1>5, ReadCbFacts, Zenon DEF HandedOn
  <1>10. /\ Core(bev', fin, net, s, p) /\ Core(bev', fin, net, p, s)
         /\ Waker(bev', s, p) /\ Waker(bev', p, s)
    BY <1>2, <1>5, <1>6, <1>7, <1>8, StreamTypes, ReadCbCore, Zenon DEF p
  <1>11. /\ Core(bev', fin', net', s, p) /\ Core(bev', fin', net', p, s)
    BY <1>2, <1>10, SMTT(40)
  <1>. QED BY <1>2, <1>3, <1>9, <1>10, <1>11, StreamTypes, OpenStep, SMTT(40) DEF p

\* What an open tunnel gives for a side and its partner.
LEMMA OpenBoth ==
  ASSUME IInv, phase = "open", NEW s \in Sides
  PROVE  LET p == Partner(s) IN
         /\ Core(bev, fin, net, s, p) /\ Core(bev, fin, net, p, s)
         /\ Waker(bev, s, p) /\ Waker(bev, p, s)
         /\ bev[s] \in Bev /\ bev[p] \in Bev
  <1>1. Partner(s) \in Sides /\ s = Partner(Partner(s))
    BY SideFacts, SMTT(40)
  <1>. QED BY <1>1, OpenSides, StreamTypes, SideFacts, SMTT(40)

\* The loop runs drained_write_cb.
LEMMA RunDrainedInv ==
  ASSUME IInv, NEW s \in Sides, Due(s, "write"), bev[s].writecb = "drained_write_cb",
         bev' = drained_write_cb(Clear(s, {"write"}), s),
         UNCHANGED <<phase, objs, refs, end, lost, net, sent, fin, got>>
  PROVE  IInv'
  <1>. DEFINE p == Partner(s)
              b == Clear(s, {"write"})
              c == drained_write_cb(b, s)
  <1>1. Alive /\ "write" \in bev[s].pend
    BY SMTT(40) DEF Due
  <1>2. phase = "open"
    BY <1>1, UsedIsOpen, ZenonT(60)
  <1>3. /\ Core(bev, fin, net, s, p) /\ Core(bev, fin, net, p, s)
        /\ Waker(bev, s, p) /\ Waker(bev, p, s)
        /\ bev[s] \in Bev /\ bev[p] \in Bev
    BY <1>2, OpenBoth, SMTT(40)
  <1>4. /\ b \in Bevs /\ b[p] = bev[p]
        /\ b[s].in = bev[s].in /\ b[s].out = bev[s].out /\ b[s].on = bev[s].on
        /\ b[s].pend = bev[s].pend \ {"write"} /\ Same(b[s], bev[s]) /\ SameCbs(b[s], bev[s])
    BY StreamTypes, ClearFacts, SMTT(40)
  <1>. HIDE DEF b
  <1>5. /\ c \in Bevs
        /\ c[s].in = b[s].in /\ c[s].out = b[s].out /\ c[s].on = b[s].on /\ c[s].pend = b[s].pend
        /\ Same(c[s], b[s]) /\ c[s].readcb = "read_cb" /\ c[s].writecb = "none" /\ c[s].low = 0
        /\ c[p].in = b[p].in /\ c[p].out = b[p].out /\ c[p].on = TRUE
        /\ c[p].pend = b[p].pend /\ Same(c[p], b[p]) /\ SameCbs(c[p], b[p])
    BY <1>4, DrainedFacts, Zenon
  <1>6. bev' = c
    BY SMTT(40) DEF b
  <1>. HIDE DEF c, p
  <1>7. Len(c[s].out) < MAX_OUTPUT_BUFFER
    <2>1. Len(bev[s].out) <= Half /\ Len(bev[s].out) \in Nat
      BY <1>1, <1>3, BevTypes, Zenon DEF Core
    <2>. QED BY <1>4, <1>5, <2>1, HalfFacts, SMTT(40)
  <1>8. bev[s].readcb # "none"
    BY <1>3, SMTT(40) DEF Core
  <1>9. Core(c, fin, net, s, p)
    BY <1>3, <1>4, <1>5, ZenonT(60) DEF Core, Same, SameCbs
  <1>10. Core(c, fin, net, p, s)
    BY <1>3, <1>4, <1>5, <1>7, <1>8, SMTT(40) DEF Core, Same, SameCbs
  <1>11. Waker(c, s, p) /\ Waker(c, p, s)
    BY <1>3, <1>4, <1>5, SMTT(40) DEF Waker, Same, SameCbs
  <1>12. bev' \in Bevs /\ Core(bev', fin', net', s, p) /\ Core(bev', fin', net', p, s)
    BY <1>5, <1>6, <1>9, <1>10, ZenonT(60)
  <1>13. Waker(bev', s, p) /\ Waker(bev', p, s)
    BY <1>6, <1>11, SMTT(40)
  <1>. QED BY <1>2, <1>12, <1>13, StreamTypes, OpenStep, SMTT(40) DEF p

\* The tunnel goes on as the invariant says, or is cleaned up.
GoesOnOrEnds == IInv' \/ \E b \in Bevs : StateCleanup(b, objs, refs, "clean")

\* The loop runs close_on_finished_write_cb.
LEMMA RunCloseInv ==
  ASSUME IInv, NEW s \in Sides, Due(s, "write"), bev[s].writecb = "close_on_finished_write_cb",
         close_on_finished_write_cb(s), UNCHANGED <<net, streams, got>>
  PROVE  GoesOnOrEnds
  <1>. DEFINE p == Partner(s)
              b == Clear(s, {"write"})
  <1>1. Alive /\ "write" \in bev[s].pend
    BY DEF Due
  <1>2. phase = "open"
    BY <1>1, UsedIsOpen, ZenonT(60)
  <1>3. CASE bev[s].out = <<>>
    BY <1>3, StreamTypes, Zenon DEF close_on_finished_write_cb, GoesOnOrEnds
  <1>4. CASE bev[s].out # <<>>
    <2>1. bev' = b /\ UNCHANGED <<phase, objs, refs, end, lost, net, sent, fin, got>>
      BY <1>4, SMTT(40) DEF close_on_finished_write_cb, streams, ending
    <2>2. /\ Core(bev, fin, net, s, p) /\ Core(bev, fin, net, p, s)
          /\ Waker(bev, s, p) /\ Waker(bev, p, s)
      BY <1>2, OpenBoth, SMTT(40)
    <2>3. /\ b \in Bevs /\ b[p] = bev[p]
          /\ b[s].in = bev[s].in /\ b[s].out = bev[s].out /\ b[s].on = bev[s].on
          /\ b[s].pend = bev[s].pend \ {"write"} /\ Same(b[s], bev[s]) /\ SameCbs(b[s], bev[s])
      BY StreamTypes, ClearFacts, SMTT(40)
    <2>. HIDE DEF b, p
    <2>4. Core(b, fin, net, s, p) /\ Core(b, fin, net, p, s)
      BY <1>4, <2>2, <2>3, ZenonT(60) DEF Core, Same, SameCbs
    <2>5. Waker(b, s, p) /\ Waker(b, p, s)
      BY <2>2, <2>3, SMTT(40) DEF Waker, Same, SameCbs
    <2>6. bev' \in Bevs /\ Core(bev', fin', net', s, p) /\ Core(bev', fin', net', p, s)
      BY <2>1, <2>3, <2>4, SMTT(40)
    <2>7. Waker(bev', s, p) /\ Waker(bev', p, s)
      BY <2>1, <2>5, SMTT(40)
    <2>8. IInv'
      BY <1>2, <2>1, <2>6, <2>7, StreamTypes, OpenStep, SMTT(40) DEF p
    <2>. QED BY <2>8, Zenon DEF GoesOnOrEnds
  <1>. QED BY <1>3, <1>4, SMTT(40)

\* The loop runs event_cb for an end of file.
LEMMA OnEofInv ==
  ASSUME IInv, NEW s \in Sides, Due(s, "eof"), ~Due(s, "read"), OnEof(s),
         UNCHANGED <<net, streams, got>>
  PROVE  GoesOnOrEnds
  <1>. DEFINE p == Partner(s)
              a == Clear(s, {"eof", "error"})
  <1>1. Alive /\ "eof" \in bev[s].pend /\ ("read" \notin bev[s].pend \/ bev[s].readcb = "none")
    BY SMTT(40) DEF Due
  <1>2. phase = "open"
    BY <1>1, UsedIsOpen, Zenon
  <1>3. /\ Core(bev, fin, net, s, p) /\ Core(bev, fin, net, p, s)
        /\ Waker(bev, s, p) /\ Waker(bev, p, s)
    BY <1>2, OpenBoth, SMTT(40)
  <1>4. /\ a \in Bevs /\ a[p] = bev[p]
        /\ a[s].in = bev[s].in /\ a[s].out = bev[s].out /\ a[s].on = bev[s].on
        /\ a[s].pend = bev[s].pend \ {"eof", "error"}
        /\ Same(a[s], bev[s]) /\ SameCbs(a[s], bev[s])
    BY StreamTypes, ClearFacts, SMTT(40)
  <1>5. PICK b \in AfterFlush(a, s) :
          IF b[p].out # <<>>
            THEN /\ bev' = CloseWhenWritten(b, p)
                 /\ UNCHANGED <<phase, objs, refs, ending>>
            ELSE StateCleanup(b, objs, refs, "clean")
    BY Zenon DEF OnEof
  <1>. HIDE DEF a, p
  <1>6. Core(a, fin, net, s, p) /\ Core(a, fin, net, p, s)
    BY <1>3, <1>4, ZenonT(60) DEF Core, Same, SameCbs
  <1>7. fin[s] /\ net[s] = <<>> /\ ("read" \notin a[s].pend \/ a[s].readcb = "none")
    BY <1>1, <1>3, <1>4, Zenon DEF Core, SameCbs
  <1>8. /\ b \in Bevs /\ b[s].in = <<>>
        /\ Core(b, fin, net, s, p) /\ Core(b, fin, net, p, s)
        /\ "read" \notin b[s].pend \/ b[s].readcb = "none"
    <2>1. CASE a[s].in = <<>>
      BY <1>4, <1>5, <1>6, <1>7, <2>1, SMTT(40) DEF AfterFlush
    <2>2. CASE a[s].in # <<>>
      <3>1. b \in read_cb(a, s)
        BY <1>5, <2>2, SMTT(40) DEF AfterFlush
      <3>2. a[p].writecb # "close_on_finished_write_cb"
        BY <1>6, <2>2, SMTT(40) DEF Core
      <3>3. HandedOn(a, b, s, p)
        BY <1>4, <3>1, ReadCbFacts, SMTT(40) DEF p
      <3>4. Core(b, fin, net, s, p) /\ Core(b, fin, net, p, s)
        BY <1>4, <1>6, <3>1, <3>2, StreamTypes, ReadCbCore, ZenonT(60) DEF p
      <3>. QED BY <1>7, <3>3, <3>4, SMTT(40) DEF HandedOn, SameCbs
    <2>. QED BY <2>1, <2>2, ZenonT(60)
  <1>9. CASE b[p].out = <<>>
    BY <1>5, <1>8, <1>9, Zenon DEF GoesOnOrEnds
  <1>10. CASE b[p].out # <<>>
    <2>. DEFINE c == CloseWhenWritten(b, p)
    <2>1. bev' = c /\ UNCHANGED <<phase, objs, refs, end, lost, net, sent, fin, got>>
      BY <1>5, <1>10, SMTT(40) DEF streams, ending
    <2>2. /\ c \in Bevs /\ c[s] = b[s]
          /\ c[p].in = b[p].in /\ c[p].out = b[p].out /\ c[p].on = FALSE
          /\ c[p].pend = b[p].pend /\ Same(c[p], b[p])
          /\ c[p].readcb = "none" /\ c[p].writecb = "close_on_finished_write_cb"
          /\ c[p].low = b[p].low
      BY <1>8, ClosingFacts, ZenonT(60) DEF p
    <2>. HIDE DEF c
    <2>3. Core(c, fin, net, s, p)
      BY <1>8, <2>2, SMTT(40) DEF Core, Same
    <2>4. Core(c, fin, net, p, s)
      BY <1>7, <1>8, <1>10, <2>2, ZenonT(60) DEF Core, Same
    <2>5. Waker(c, s, p) /\ Waker(c, p, s)
      BY <2>2, SMTT(40) DEF Waker
    <2>6. bev' \in Bevs /\ Core(bev', fin', net', s, p) /\ Core(bev', fin', net', p, s)
      BY <2>1, <2>2, <2>3, <2>4, SMTT(40)
    <2>7. Waker(bev', s, p) /\ Waker(bev', p, s)
      BY <2>1, <2>5, SMTT(40)
    <2>8. IInv'
      BY <1>2, <2>1, <2>6, <2>7, StreamTypes, OpenStep, SMTT(40) DEF p
    <2>. QED BY <2>8, Zenon DEF GoesOnOrEnds
  <1>. QED BY <1>9, <1>10, SMTT(40)

\* The length of an empty buffer.
LEMMA EmptyLen == Len(<<>>) = 0
  OBVIOUS

\* A shorter buffer is below every mark that the longer one is below.
LEMMA ShorterFacts ==
  ASSUME NEW m \in Nat, NEW n \in Nat, NEW l \in Nat, m < n
  PROVE  /\ m <= l \/ l < m
         /\ n <= l => m <= l
         /\ m = 0 => m <= l
         /\ n < MAX_OUTPUT_BUFFER => m < MAX_OUTPUT_BUFFER
  BY HalfFacts

\* Bytes leave an output buffer of an open tunnel.
LEMMA WrittenInv ==
  ASSUME IInv, phase = "open", NEW s \in Sides, NEW k \in 1..Len(bev[s].out),
         bev' = Written(bev, s, k), got' \in [Sides -> Seq(Nat)],
         UNCHANGED <<phase, objs, refs, end, lost, net, sent, fin>>
  PROVE  IInv'
  <1>. DEFINE p == Partner(s)
              c == Written(bev, s, k)
  <1>1. /\ Core(bev, fin, net, s, p) /\ Core(bev, fin, net, p, s)
        /\ Waker(bev, s, p) /\ Waker(bev, p, s)
        /\ bev[s] \in Bev /\ bev[p] \in Bev
    BY OpenBoth, SMTT(40)
  <1>2. /\ c \in Bevs /\ c[p] = bev[p]
        /\ c[s].in = bev[s].in /\ c[s].on = bev[s].on /\ c[s].dead = bev[s].dead
        /\ SameCbs(c[s], bev[s])
        /\ Len(c[s].out) = Len(bev[s].out) - k
        /\ IF Len(c[s].out) <= bev[s].low /\ bev[s].writecb # "none"
             THEN c[s].pend = bev[s].pend \cup {"write"} ELSE c[s].pend = bev[s].pend
    BY StreamTypes, WrittenFacts, Zenon
  <1>. HIDE DEF c, p
  <1>3. /\ Len(bev[s].out) \in Nat /\ bev[s].low \in Nat
        /\ Len(c[s].out) \in Nat /\ Len(c[s].out) < Len(bev[s].out)
    BY <1>1, <1>2, BevTypes, SMTT(40)
  <1>4. /\ \A e : e # "write" => (e \in c[s].pend <=> e \in bev[s].pend)
        /\ "write" \in bev[s].pend => "write" \in c[s].pend
        /\ "write" \in c[s].pend =>
             \/ "write" \in bev[s].pend
             \/ Len(c[s].out) <= bev[s].low /\ bev[s].writecb # "none"
        /\ Len(c[s].out) <= bev[s].low /\ bev[s].writecb # "none" => "write" \in c[s].pend
    <2>1. CASE Len(c[s].out) <= bev[s].low /\ bev[s].writecb # "none"
      BY <1>2, <2>1, ZenonT(60)
    <2>2. CASE ~(Len(c[s].out) <= bev[s].low /\ bev[s].writecb # "none")
      BY <1>2, <2>2, ZenonT(60)
    <2>. QED BY <2>1, <2>2, Zenon
  <1>5. /\ c[p] = bev[p] /\ c[s].in = bev[s].in /\ c[s].on = bev[s].on
        /\ c[s].dead = bev[s].dead /\ c[s].low = bev[s].low
        /\ c[s].readcb = bev[s].readcb /\ c[s].writecb = bev[s].writecb
    BY <1>2, Zenon DEF SameCbs
  <1>0. c[s].out = <<>> => Len(c[s].out) = 0
    BY EmptyLen, Zenon
  <1>6. /\ c[s].out = <<>> => Len(c[s].out) = 0
        /\ Len(c[s].out) <= bev[s].low \/ bev[s].low < Len(c[s].out)
        /\ Len(bev[s].out) <= bev[s].low => Len(c[s].out) <= bev[s].low
        /\ Len(c[s].out) = 0 => Len(c[s].out) <= bev[s].low
        /\ Len(bev[s].out) < MAX_OUTPUT_BUFFER => Len(c[s].out) < MAX_OUTPUT_BUFFER
    <2>. DEFINE m == Len(c[s].out)
                n == Len(bev[s].out)
                l == bev[s].low
    <2>1. m \in Nat /\ n \in Nat /\ l \in Nat /\ m < n
      BY <1>3, Zenon
    <2>. HIDE DEF m, n, l
    <2>2. /\ m <= l \/ l < m
          /\ n <= l => m <= l
          /\ m = 0 => m <= l
          /\ n < MAX_OUTPUT_BUFFER => m < MAX_OUTPUT_BUFFER
      BY <2>1, ShorterFacts, Zenon
    <2>. QED BY <1>0, <2>2, Zenon DEF m, n, l
  <1>7. Core(c, fin, net, s, p)
    BY <1>1, <1>4, <1>5, <1>6, ZenonT(60) DEF Core
  <1>8. Core(c, fin, net, p, s)
    BY <1>1, <1>4, <1>5, <1>6, ZenonT(60) DEF Core
  <1>9. Waker(c, s, p) /\ Waker(c, p, s)
    BY <1>1, <1>3, <1>4, <1>5, <1>6, SMTT(40) DEF Waker
  <1>10. bev' \in Bevs /\ Core(bev', fin', net', s, p) /\ Core(bev', fin', net', p, s)
    BY <1>2, <1>7, <1>8, SMTT(40) DEF c
  <1>11. Waker(bev', s, p) /\ Waker(bev', p, s)
    BY <1>9, SMTT(40) DEF c
  <1>. QED BY <1>10, <1>11, StreamTypes, OpenStep, SMTT(40) DEF p

\* Bytes go to the browser, or through the SSL filter.
LEMMA WriteInv ==
  ASSUME IInv, WriteLocal \/ Encrypt
  PROVE  IInv'
  <1>1. CASE WriteLocal
    <2>1. PICK k \in 1..Len(bev["local"].out) :
            /\ bev' = Written(bev, "local", k)
            /\ got' = [got EXCEPT !["local"] = @ \o SubSeq(bev["local"].out, 1, k)]
      BY <1>1, Zenon DEF WriteLocal
    <2>2. "local" \in Sides /\ bev["local"] \in Bev
      BY StreamTypes, SMTT(40) DEF Bevs, Sides
    <2>3. SubSeq(bev["local"].out, 1, k) \in Seq(Nat) /\ bev["local"].out # <<>>
      BY <2>2, BevTypes, SplitFacts, SMTT(40)
    <2>4. got' \in [Sides -> Seq(Nat)]
      <3>. DEFINE q == SubSeq(bev["local"].out, 1, k)
      <3>1. got' = [got EXCEPT !["local"] = @ \o q]
        BY <2>1, SMTT(40)
      <3>2. q \in Seq(Nat) /\ got["local"] \in Seq(Nat)
        BY <2>2, <2>3, StreamTypes, SMTT(40)
      <3>. HIDE DEF q
      <3>3. got["local"] \o q \in Seq(Nat)
        BY <3>2, SMTT(40)
      <3>. QED BY <3>1, <3>3, StreamTypes, Zenon
    <2>5. Alive /\ UNCHANGED <<phase, objs, refs, end, lost, net, sent, fin>>
      BY <1>1, SMTT(40) DEF WriteLocal, Usable, streams, ending
    <2>6. phase = "open"
      BY <2>2, <2>3, <2>5, UsedIsOpen, Zenon
    <2>. QED BY <2>1, <2>2, <2>4, <2>5, <2>6, WrittenInv, Zenon
  <1>2. CASE Encrypt
    <2>1. PICK k \in 1..Len(bev["remote"].out) : bev' = Written(bev, "remote", k)
      BY <1>2, Zenon DEF Encrypt
    <2>2. "remote" \in Sides /\ phase = "open"
          /\ UNCHANGED <<phase, objs, refs, end, lost, net, sent, fin, got>>
      BY <1>2, SMTT(40) DEF Encrypt, Sides, streams, ending
    <2>. QED BY <2>1, <2>2, StreamTypes, WrittenInv, SMTT(40)
  <1>. QED BY <1>1, <1>2, SMTT(40)

\* A step of an open tunnel that leaves buffers, events and callbacks alone.
LEMMA SocketOnlyInv ==
  ASSUME IInv, phase = "open", bev' \in Bevs, got' \in [Sides -> Seq(Nat)],
         UNCHANGED <<phase, objs, refs, end, lost, net, sent, fin>>,
         \A r \in Sides :
           /\ bev'[r].in = bev[r].in /\ bev'[r].out = bev[r].out /\ bev'[r].on = bev[r].on
           /\ bev'[r].pend = bev[r].pend /\ bev'[r].dead = bev[r].dead
           /\ SameCbs(bev'[r], bev[r])
  PROVE  IInv'
  <1>. DEFINE s == "remote"
              p == "local"
  <1>1. s \in Sides /\ p \in Sides /\ p = Partner(s)
    BY DEF Sides, Partner
  <1>2. /\ Core(bev, fin, net, s, p) /\ Core(bev, fin, net, p, s)
        /\ Waker(bev, s, p) /\ Waker(bev, p, s)
    BY <1>1, OpenBoth
  <1>. HIDE DEF s, p
  <1>3. Core(bev', fin', net', s, p)
    BY <1>1, <1>2, SMTT(40) DEF Core, SameCbs
  <1>4. Core(bev', fin', net', p, s)
    BY <1>1, <1>2, SMTT(40) DEF Core, SameCbs
  <1>5. Waker(bev', s, p) /\ Waker(bev', p, s)
    BY <1>1, <1>2, ZenonT(60) DEF Waker, SameCbs
  <1>. QED BY <1>1, <1>3, <1>4, <1>5, StreamTypes, OpenStep, SMTT(40)

\* Bytes leave remotetcp.
LEMMA WriteRemotetcpInv ==
  ASSUME IInv, WriteRemotetcp
  PROVE  IInv'
  <1>1. PICK k \in 1..Len(bev["remote"].tcp) :
          /\ bev' = [bev EXCEPT !["remote"].tcp = SubSeq(@, k + 1, Len(@))]
          /\ got' = [got EXCEPT !["remote"] = @ \o SubSeq(bev["remote"].tcp, 1, k)]
    BY Zenon DEF WriteRemotetcp
  <1>2. "remote" \in Sides /\ "local" \in Sides /\ Partner("remote") = "local" /\ bev["remote"] \in Bev
    BY StreamTypes, SMTT(40) DEF Bevs, Sides, Partner
  <1>. DEFINE t == SubSeq(bev["remote"].tcp, k + 1, Len(bev["remote"].tcp))
              q == SubSeq(bev["remote"].tcp, 1, k)
              x == PutTcp(bev["remote"], t)
  <1>3. t \in Seq(Nat) /\ q \in Seq(Nat)
    BY <1>2, BevTypes, SplitFacts, SMTT(40)
  <1>4. bev' = [bev EXCEPT !["remote"] = x] /\ got' = [got EXCEPT !["remote"] = @ \o q]
    BY <1>1, Zenon DEF PutTcp
  <1>. HIDE DEF t, q
  <1>5. got' \in [Sides -> Seq(Nat)]
    <2>1. got["remote"] \o q \in Seq(Nat)
      BY <1>2, <1>3, StreamTypes, SMTT(40)
    <2>. QED BY <1>4, <2>1, StreamTypes, Zenon
  <1>6. LET y == x IN
        /\ y \in Bev /\ y.in = bev["remote"].in /\ y.out = bev["remote"].out
        /\ y.on = bev["remote"].on /\ y.pend = bev["remote"].pend
        /\ y.dead = bev["remote"].dead /\ SameCbs(y, bev["remote"])
    BY <1>2, <1>3, SetTcp, SMTT(40)
  <1>7. bev' \in Bevs /\ bev'["remote"] = x /\ bev'["local"] = bev["local"]
    <2>. HIDE DEF x
    <2>. QED BY <1>2, <1>4, <1>6, StreamTypes, SMTT(40) DEF Bevs
  <1>8. \A r \in Sides :
          /\ bev'[r].in = bev[r].in /\ bev'[r].out = bev[r].out /\ bev'[r].on = bev[r].on
          /\ bev'[r].pend = bev[r].pend /\ bev'[r].dead = bev[r].dead /\ SameCbs(bev'[r], bev[r])
    <2>. HIDE DEF x
    <2>. QED BY <1>6, <1>7, SMTT(40) DEF Sides, SameCbs
  <1>9. Alive /\ UNCHANGED <<phase, objs, refs, end, lost, net, sent, fin>>
    BY SMTT(40) DEF WriteRemotetcp, Usable, streams, ending
  <1>10. CASE phase = "open"
    BY <1>5, <1>7, <1>8, <1>9, <1>10, SocketOnlyInv, ZenonT(60)
  <1>11. CASE phase # "open"
    <2>1. phase = "handshake"
      BY <1>9, <1>11, SMTT(40) DEF Alive
    <2>2. \A r \in Sides : /\ Untouched(bev'[r]) /\ bev'[r].readcb = bev[r].readcb
                           /\ bev'[r].pend \subseteq {"connected", "error"}
      BY <1>8, <1>11, <2>1, EarlySides, SMTT(40) DEF Untouched, SameCbs
    <2>3. "connected" \notin bev'["local"].pend
      BY <1>7, <1>11, EarlySides, SMTT(40)
    <2>. QED BY <1>5, <1>7, <1>9, <1>11, <2>1, <2>2, <2>3, StreamTypes, EarlyStep,
                SMTT(40)
  <1>. QED BY <1>10, <1>11, SMTT(40)

\* Input arrives from a peer.
LEMMA ReadSocketInv ==
  ASSUME IInv, NEW s \in Sides, ReadSocket(s)
  PROVE  IInv'
  <1>1. PICK k \in 1..Len(net[s]) :
          /\ bev' = [bev EXCEPT ![s].in = @ \o SubSeq(net[s], 1, k),
                                ![s].pend = IF bev[s].readcb # "none"
                                              THEN @ \cup {"read"} ELSE @]
          /\ net' = [net EXCEPT ![s] = SubSeq(@, k + 1, Len(@))]
    BY Zenon DEF ReadSocket
  <1>. DEFINE p == Partner(s)
              i == bev[s].in \o SubSeq(net[s], 1, k)
              m == IF bev[s].readcb # "none" THEN bev[s].pend \cup {"read"} ELSE bev[s].pend
              x == PutRead(bev[s], i, m)
  <1>2. /\ Alive /\ bev[s].on /\ UNCHANGED <<phase, objs, refs, end, lost, sent, fin, got>>
    BY DEF ReadSocket, Usable, streams, ending
  <1>3. bev[s] \in Bev /\ net[s] \in Seq(Nat) /\ p \in Sides /\ p # s
    BY StreamTypes, SideFacts, Zenon
  <1>4. bev[s].on = TRUE
    BY <1>2, <1>3, SMTT(40) DEF Bev
  <1>5. phase = "open"
    BY <1>2, <1>4, UsedIsOpen, Zenon
  <1>6. /\ Core(bev, fin, net, s, p) /\ Core(bev, fin, net, p, s)
        /\ Waker(bev, s, p) /\ Waker(bev, p, s)
    BY <1>5, OpenBoth, SMTT(40)
  <1>7. net' \in [Sides -> Seq(Nat)] /\ net[s] # <<>> /\ net'[p] = net[p]
    <2>1. SubSeq(net[s], k + 1, Len(net[s])) \in Seq(Nat) /\ net[s] # <<>>
      BY <1>3, SplitFacts, SMTT(40)
    <2>. QED BY <1>1, <1>3, <2>1, StreamTypes, Zenon
  <1>8. bev' = [bev EXCEPT ![s] = x]
    BY <1>1, Zenon DEF PutRead
  <1>9. i \in Seq(Nat) /\ m \in SUBSET Marks
    <2>1. bev[s].in \in Seq(Nat) /\ SubSeq(net[s], 1, k) \in Seq(Nat) /\ bev[s].pend \in SUBSET Marks
      BY <1>3, BevTypes, SplitFacts, SMTT(40) DEF Marks
    <2>2. "read" \in Marks
      BY DEF Marks
    <2>. QED BY <2>1, <2>2, SMTT(40)
  <1>10. m \ {"read"} = bev[s].pend \ {"read"}
    BY SMTT(40)
  <1>. HIDE DEF i, m, p
  <1>11. /\ x \in Bev /\ x.in = i /\ x.out = bev[s].out /\ x.on = bev[s].on /\ x.pend = m
         /\ Same(x, bev[s]) /\ SameCbs(x, bev[s])
    BY <1>3, <1>9, SetRead, SMTT(40)
  <1>12. bev' \in Bevs /\ bev'[s] = x /\ bev'[p] = bev[p]
    <2>. HIDE DEF x
    <2>. QED BY <1>3, <1>8, <1>11, StreamTypes, SMTT(40) DEF Bevs
  <1>. HIDE DEF x
  <1>13. /\ bev[p].writecb # "drained_write_cb" /\ bev[p].writecb # "close_on_finished_write_cb"
         /\ "eof" \notin bev[s].pend
    BY <1>4, <1>6, <1>7, SMTT(40) DEF Core
  <1>14. /\ "connected" \notin m /\ "eof" \notin m /\ ("write" \in m <=> "write" \in bev[s].pend)
    BY <1>6, <1>10, <1>13, SMTT(40) DEF Core
  <1>15. Core(bev', fin', net', s, p)
    BY <1>2, <1>6, <1>7, <1>11, <1>12, <1>14, ZenonT(60) DEF Core, Same, SameCbs
  <1>16. Core(bev', fin', net', p, s)
    BY <1>2, <1>6, <1>7, <1>11, <1>12, <1>13, ZenonT(60) DEF Core, Same, SameCbs
  <1>17. Waker(bev', s, p) /\ Waker(bev', p, s)
    BY <1>4, <1>6, <1>11, <1>12, <1>14, ZenonT(60) DEF Waker, Same, SameCbs
  <1>. QED BY <1>2, <1>5, <1>7, <1>12, <1>15, <1>16, <1>17, StreamTypes, OpenStep,
              SMTT(40) DEF p

\* The end of a peer's stream is read.
LEMMA ReadEofInv ==
  ASSUME IInv, NEW s \in Sides, ReadEof(s)
  PROVE  IInv'
  <1>. DEFINE p == Partner(s)
              m == bev[s].pend \cup {"eof"}
              x == PutOff(bev[s], m)
  <1>1. /\ Alive /\ bev[s].on /\ fin[s] /\ net[s] = <<>>
        /\ UNCHANGED <<phase, objs, refs, end, lost, net, sent, fin, got>>
    BY DEF ReadEof, Usable, streams, ending
  <1>2. bev[s] \in Bev /\ p \in Sides /\ p # s
    BY StreamTypes, SideFacts, Zenon
  <1>3. bev[s].on = TRUE
    BY <1>1, <1>2, SMTT(40) DEF Bev
  <1>4. phase = "open"
    BY <1>1, <1>3, UsedIsOpen, Zenon
  <1>5. /\ Core(bev, fin, net, s, p) /\ Core(bev, fin, net, p, s)
        /\ Waker(bev, s, p) /\ Waker(bev, p, s)
    BY <1>4, OpenBoth, SMTT(40)
  <1>6. bev' = [bev EXCEPT ![s] = x]
    BY Zenon DEF ReadEof, PutOff
  <1>7. m \in SUBSET Marks
    BY <1>2, BevTypes, SMTT(40) DEF Marks
  <1>8. /\ "eof" \in m
        /\ \A z \in {"connected", "read", "write"} : z \in m <=> z \in bev[s].pend
    BY SMTT(40)
  <1>. HIDE DEF m, p
  <1>9. /\ x \in Bev /\ x.in = bev[s].in /\ x.out = bev[s].out /\ x.on = FALSE /\ x.pend = m
        /\ Same(x, bev[s]) /\ SameCbs(x, bev[s])
    BY <1>2, <1>7, SetOff, Zenon
  <1>10. bev' \in Bevs /\ bev'[s] = x /\ bev'[p] = bev[p]
    <2>. HIDE DEF x
    <2>. QED BY <1>2, <1>6, <1>9, StreamTypes, SMTT(40) DEF Bevs
  <1>. HIDE DEF x
  <1>11. Core(bev', fin', net', s, p) /\ Core(bev', fin', net', p, s)
    BY <1>1, <1>5, <1>8, <1>9, <1>10, ZenonT(60) DEF Core, Same, SameCbs
  <1>12. Waker(bev', s, p) /\ Waker(bev', p, s)
    BY <1>5, <1>8, <1>9, <1>10, Zenon DEF Waker, Same, SameCbs
  <1>. QED BY <1>1, <1>4, <1>10, <1>11, <1>12, StreamTypes, OpenStep, SMTT(40) DEF p

\* A connection breaks.
LEMMA SocketErrorInv ==
  ASSUME IInv, NEW s \in Sides, SocketError(s)
  PROVE  IInv'
  <1>. DEFINE p == Partner(s)
              m == bev[s].pend \cup {"error"}
              x == PutDead(bev[s], m)
  <1>1. /\ Alive /\ (s = "local" => phase = "open")
        /\ UNCHANGED <<phase, objs, refs, end, lost, net, sent, fin, got>>
    BY SMTT(40) DEF SocketError, Usable, streams, ending
  <1>2. bev[s] \in Bev /\ p \in Sides /\ p # s
    BY StreamTypes, SideFacts, Zenon
  <1>3. bev' = [bev EXCEPT ![s] = x]
    BY Zenon DEF SocketError, PutDead
  <1>4. m \in SUBSET Marks
    BY <1>2, BevTypes, SMTT(40) DEF Marks
  <1>5. \A z \in {"connected", "read", "write", "eof"} : z \in m <=> z \in bev[s].pend
    OBVIOUS
  <1>6. bev[s].pend \subseteq {"connected", "error"} => m \subseteq {"connected", "error"}
    BY SMTT(40)
  <1>. HIDE DEF m
  <1>7. /\ x \in Bev /\ x.in = bev[s].in /\ x.out = bev[s].out /\ x.on = bev[s].on /\ x.pend = m
        /\ x.dead = TRUE /\ SameCbs(x, bev[s])
    BY <1>2, <1>4, SetDead, ZenonT(60)
  <1>8. bev' \in Bevs /\ bev'[s] = x /\ bev'[p] = bev[p]
    <2>. HIDE DEF x
    <2>. QED BY <1>2, <1>3, <1>7, StreamTypes, SMTT(40) DEF Bevs
  <1>. HIDE DEF x
  <1>9. CASE phase = "open"
    <2>1. /\ Core(bev, fin, net, s, p) /\ Core(bev, fin, net, p, s)
          /\ Waker(bev, s, p) /\ Waker(bev, p, s)
      BY <1>9, OpenBoth, SMTT(40)
    <2>. HIDE DEF p
    <2>2. Core(bev', fin', net', s, p) /\ Core(bev', fin', net', p, s)
      BY <1>1, <1>5, <1>7, <1>8, <2>1, ZenonT(60) DEF Core, SameCbs
    <2>3. Waker(bev', s, p) /\ Waker(bev', p, s)
      BY <1>5, <1>7, <1>8, <2>1, Zenon DEF Waker, SameCbs
    <2>. QED BY <1>1, <1>8, <1>9, <2>2, <2>3, StreamTypes, OpenStep, SMTT(40) DEF p
  <1>10. CASE phase # "open"
    <2>1. phase = "handshake" /\ s = "remote" /\ p = "local"
      BY <1>1, <1>10, SMTT(40) DEF Alive, Sides, Partner
    <2>2. \A r \in Sides : /\ Untouched(bev'[r]) /\ bev'[r].readcb = bev[r].readcb
                           /\ bev'[r].pend \subseteq {"connected", "error"}
      <3>1. Untouched(x) /\ x.readcb = bev[s].readcb /\ x.pend \subseteq {"connected", "error"}
        BY <1>6, <1>7, <1>10, <2>1, EarlySides, SMTT(40) DEF Untouched, SameCbs
      <3>. QED BY <1>8, <1>10, <2>1, <3>1, EarlySides, SMTT(40) DEF Sides
    <2>3. "connected" \notin bev'["local"].pend
      BY <1>8, <1>10, <2>1, EarlySides, SMTT(40)
    <2>. QED BY <1>1, <1>8, <1>10, <2>1, <2>2, <2>3, StreamTypes, EarlyStep, SMTT(40)
  <1>. QED BY <1>9, <1>10, SMTT(40)

\* The TLS handshake completes.
LEMMA ConnectedInv ==
  ASSUME IInv, Connected
  PROVE  IInv'
  <1>. DEFINE m == bev["remote"].pend \cup {"connected"}
              x == PutPend(bev["remote"], m)
  <1>1. /\ phase = "handshake" /\ UNCHANGED <<phase, objs, refs, end, lost, net, sent, fin, got>>
    BY DEF Connected, streams, ending
  <1>2. bev["remote"] \in Bev /\ "remote" \in Sides /\ "local" \in Sides
    BY StreamTypes DEF Bevs, Sides
  <1>3. bev' = [bev EXCEPT !["remote"] = x]
    BY Zenon DEF Connected, PutPend
  <1>4. m \subseteq {"connected", "error"}
    BY <1>1, <1>2, EarlySides, SMTT(40)
  <1>5. m \in SUBSET {"connected", "read", "write", "eof", "error"}
    BY <1>4, SMTT(40)
  <1>. HIDE DEF m
  <1>6. /\ x \in Bev /\ x.in = bev["remote"].in /\ x.out = bev["remote"].out
        /\ x.on = bev["remote"].on /\ x.pend = m /\ SameCbs(x, bev["remote"])
    BY <1>2, <1>5, SetPend, Zenon
  <1>7. bev' \in Bevs /\ bev'["remote"] = x /\ bev'["local"] = bev["local"]
    <2>. HIDE DEF x
    <2>. QED BY <1>2, <1>3, <1>6, StreamTypes, SMTT(40) DEF Bevs
  <1>. HIDE DEF x
  <1>8. Untouched(x) /\ x.readcb = bev["remote"].readcb /\ x.pend \subseteq {"connected", "error"}
    BY <1>1, <1>2, <1>4, <1>6, EarlySides, SMTT(40) DEF Untouched, SameCbs
  <1>9. \A r \in Sides : /\ Untouched(bev'[r]) /\ bev'[r].readcb = bev[r].readcb
                         /\ bev'[r].pend \subseteq {"connected", "error"}
    BY <1>1, <1>7, <1>8, EarlySides, SMTT(40) DEF Sides
  <1>10. "connected" \notin bev'["local"].pend
    BY <1>1, <1>7, EarlySides, SMTT(40)
  <1>. QED BY <1>1, <1>7, <1>9, <1>10, StreamTypes, EarlyStep, SMTT(40)

\* The loop runs event_cb for BEV_EVENT_CONNECTED: the tunnel is open.
LEMMA OnConnectedInv ==
  ASSUME IInv, OnConnected
  PROVE  IInv'
  <1>. DEFINE b == Clear("remote", {"connected"})
              x == PutOn(b["local"], TRUE)
              y == PutOn(b["remote"], TRUE)
  <1>1. /\ Alive /\ "connected" \in bev["remote"].pend /\ phase' = "open"
        /\ bev' = [b EXCEPT !["local"].on = TRUE, !["remote"].on = TRUE]
        /\ UNCHANGED <<objs, refs, end, lost, net, sent, fin, got>>
    BY DEF OnConnected, Due, streams, ending
  <1>2. "remote" \in Sides /\ "local" \in Sides /\ Partner("remote") = "local"
        /\ Partner("local") = "remote"
    BY SMTT(40) DEF Sides, Partner
  <1>3. phase = "handshake"
    BY <1>1, <1>2, SMTT(40) DEF IInv, Quiet, Alive
  <1>4. /\ b \in Bevs /\ b["local"] = bev["local"]
        /\ b["remote"].in = bev["remote"].in /\ b["remote"].out = bev["remote"].out
        /\ b["remote"].pend = bev["remote"].pend \ {"connected"} /\ SameCbs(b["remote"], bev["remote"])
    BY <1>2, StreamTypes, ClearFacts, SMTT(40)
  <1>. HIDE DEF b
  <1>5. b["local"] \in Bev /\ b["remote"] \in Bev
    BY <1>2, <1>4, SMTT(40) DEF Bevs
  <1>6. bev' = [b EXCEPT !["local"] = x, !["remote"] = y]
    BY <1>1, <1>2, <1>4, SMTT(40) DEF Bevs, PutOn
  <1>7. /\ x \in Bev /\ x.in = b["local"].in /\ x.out = b["local"].out /\ x.on = TRUE
        /\ x.pend = b["local"].pend /\ SameCbs(x, b["local"])
    BY <1>5, SetOn, Zenon
  <1>8. /\ y \in Bev /\ y.in = b["remote"].in /\ y.out = b["remote"].out /\ y.on = TRUE
        /\ y.pend = b["remote"].pend /\ SameCbs(y, b["remote"])
    BY <1>5, SetOn, ZenonT(60)
  <1>9. bev' \in Bevs /\ bev'["local"] = x /\ bev'["remote"] = y
    <2>. HIDE DEF x, y
    <2>. QED BY <1>2, <1>4, <1>6, <1>7, <1>8, SMTT(40) DEF Bevs
  <1>. HIDE DEF x, y
  <1>10. \A r \in Sides : /\ Untouched(bev[r]) /\ bev[r].readcb = "read_cb"
                          /\ bev[r].pend \subseteq {"connected", "error"}
                          /\ "connected" \notin bev["local"].pend
    BY <1>3, EarlySides, SMTT(40)
  <1>11. \A r \in Sides : /\ bev'[r].out = <<>> /\ bev'[r].on = TRUE
                          /\ bev'[r].writecb = "none" /\ bev'[r].readcb = "read_cb"
                          /\ bev'[r].pend \subseteq {"error"}
    <2>1. /\ x.out = <<>> /\ x.writecb = "none" /\ x.readcb = "read_cb" /\ x.pend \subseteq {"error"}
      BY <1>2, <1>4, <1>7, <1>10, SMTT(40) DEF Untouched, SameCbs
    <2>2. /\ y.out = <<>> /\ y.writecb = "none" /\ y.readcb = "read_cb" /\ y.pend \subseteq {"error"}
      BY <1>2, <1>4, <1>8, <1>10, SMTT(40) DEF Untouched, SameCbs
    <2>. QED BY <1>7, <1>8, <1>9, <2>1, <2>2, SMTT(40) DEF Sides
  <1>12. TypeOK' /\ Resources'
    BY <1>1, <1>3, <1>9, ZenonT(60) DEF IInv, TypeOK, Resources, Alive, Bevs
  <1>13. \A r \in Sides : Core(bev', fin', net', r, Partner(r)) /\ Waker(bev', r, Partner(r))
    <2>1. Len(<<>>) < MAX_OUTPUT_BUFFER
      BY SizeAssumption, SMTT(40)
    <2>. QED BY <1>11, <2>1, SideFacts, SMTT(40) DEF Core, Waker
  <1>. QED BY <1>1, <1>12, <1>13, OpenJoin, ZenonT(60)

\* What the pointers of each phase count for.
LEMMA Pointers ==
  /\ BevsOf({}) = 0 /\ SslsOf({}) = 0
  /\ BevsOf({"local"}) = 1 /\ SslsOf({"local"}) = 0
  /\ BevsOf({"local", "remotetcp"}) = 2 /\ SslsOf({"local", "remotetcp"}) = 0
  /\ BevsOf({"local", "remotetcp", "ssl"}) = 2 /\ SslsOf({"local", "remotetcp", "ssl"}) = 1
  /\ BevsOf({"local", "remotetcp", "ssl", "remote"}) = 3
  /\ SslsOf({"local", "remotetcp", "ssl", "remote"}) = 1
  BY DEF BevsOf, SslsOf, Held

\* The counters r that count the pointers o of one tunnel.
Counts(o, r) ==
  /\ r.state = 1
  /\ r.bev = BevsOf(o)
  /\ r.ssl = SslsOf(o)

\* StateCleanup leaves nothing behind, if the counters were right.
LEMMA CleanupInv ==
  ASSUME IInv, NEW b \in Bevs, NEW o \in SUBSET {"local", "remotetcp", "ssl", "remote"}, NEW r,
         Counts(o, r), r.bev \in Nat, r.ssl \in Nat, NEW why \in {"clean", "failed"},
         StateCleanup(b, o, r, why), UNCHANGED <<net, streams, got>>
  PROVE  IInv'
  <1>1. /\ phase' = "closed" /\ objs' = {} /\ bev' = [s \in Sides |-> NewBev]
        /\ refs' = [state |-> r.state - 1, bev |-> r.bev - r.bev, ssl |-> r.ssl - r.ssl]
        /\ end' \in {"clean", "failed"} /\ lost' = b["remote"].tcp
    BY Zenon DEF StateCleanup, Counts
  <1>2. refs' \in Counters /\ refs'.state = 0 /\ refs'.bev = 0 /\ refs'.ssl = 0
    BY <1>1, SMTT(40) DEF Counts, Counters
  <1>3. NewBev \in Bev
    BY DEF NewBev, Bev
  <1>4. \A s \in Sides : bev'[s] = NewBev
    BY <1>1, SMTT(40)
  <1>5. bev' \in [Sides -> Bev]
    BY <1>1, <1>3, SMTT(40)
  <1>6. lost' \in Seq(Nat)
    BY <1>1, BevTypes, SMTT(40) DEF Bevs, Sides
  <1>7. TypeOK'
    BY <1>1, <1>2, <1>5, <1>6, SMTT(40) DEF IInv, TypeOK, streams, Counters
  <1>8. Resources'
    BY <1>1, <1>2, SMTT(40) DEF Resources, Alive
  <1>9. \A s \in Sides : Untouched(bev'[s]) /\ bev'[s].pend = {} /\ bev'[s].dead = FALSE
    BY <1>4 DEF NewBev, Untouched
  <1>10. "connected" \notin bev'["local"].pend
    BY <1>9 DEF Sides
  <1>. QED BY <1>1, <1>7, <1>8, <1>9, <1>10, EarlyJoin, Zenon

\* proxy_accept_cb.
LEMMA AcceptInv ==
  ASSUME IInv, proxy_accept_cb
  PROVE  IInv'
  <1>1. /\ phase = "none" /\ objs = {} /\ refs \in Counters
        /\ refs.state = 0 /\ refs.bev = 0 /\ refs.ssl = 0
        /\ bev \in Bevs /\ UNCHANGED <<net, streams, got>>
    BY DEF proxy_accept_cb, IInv, Resources, TypeOK, Bevs, Counters
  <1>2. CASE StateCleanup(bev, {}, [refs EXCEPT !.state = @ + 1], "failed")
    <2>. DEFINE r == [refs EXCEPT !.state = @ + 1]
    <2>1. r.state = 1 /\ r.bev = 0 /\ r.ssl = 0
      BY <1>1 DEF Counters
    <2>2. StateCleanup(bev, {}, r, "failed")
      BY <1>2
    <2>. HIDE DEF r
    <2>3. Counts({}, r)
      BY <2>1, Pointers, SMTT(40) DEF Counts
    <2>. QED BY <1>1, <2>1, <2>2, <2>3, CleanupInv, SMTT(40)
  <1>3. CASE StateCleanup(bev, {"local"}, [refs EXCEPT !.state = @ + 1, !.bev = @ + 1], "failed")
    <2>. DEFINE r == [refs EXCEPT !.state = @ + 1, !.bev = @ + 1]
    <2>1. r.state = 1 /\ r.bev = 1 /\ r.ssl = 0
      BY <1>1 DEF Counters
    <2>2. StateCleanup(bev, {"local"}, r, "failed")
      BY <1>3
    <2>. HIDE DEF r
    <2>3. Counts({"local"}, r)
      BY <2>1, Pointers, SMTT(40) DEF Counts
    <2>. QED BY <1>1, <2>1, <2>2, <2>3, CleanupInv, SMTT(40)
  <1>4. CASE /\ Proceed("resolving", {"local", "remotetcp"},
                        [refs EXCEPT !.state = @ + 1, !.bev = @ + 2])
             /\ UNCHANGED bev
    <2>. DEFINE r == [refs EXCEPT !.state = @ + 1, !.bev = @ + 2]
    <2>0. r \in Counters /\ r.state = 1 /\ r.bev = 2 /\ r.ssl = 0
      <3>1. refs.state + 1 \in Nat /\ refs.bev + 2 \in Nat
        BY <1>1
      <3>2. r \in Counters
        BY <1>1, <3>1, CountersUp, Zenon
      <3>. QED BY <1>1, <3>2, SMTT(40) DEF Counters
    <2>1. /\ phase' = "resolving" /\ objs' = {"local", "remotetcp"} /\ UNCHANGED <<bev, end, lost>>
          /\ refs' = r
      BY <1>4, SMTT(40) DEF Proceed, ending
    <2>. HIDE DEF r
    <2>2. TypeOK' /\ Resources'
      BY <1>1, <2>0, <2>1, SMTT(40) DEF IInv, TypeOK, Resources, Alive, streams, Counters
    <2>3. /\ \A s \in Sides : Untouched(bev[s]) /\ bev[s].pend = {} /\ bev[s].dead = FALSE
          /\ "connected" \notin bev["local"].pend
      BY <1>1, EarlySides, Zenon
    <2>. QED BY <2>1, <2>2, <2>3, EarlyJoin, Zenon
  <1>. QED BY <1>2, <1>3, <1>4, SMTT(40) DEF proxy_accept_cb

\* proxy_notblocked_getaddrinfo_cb.
LEMMA GetaddrinfoInv ==
  ASSUME IInv, proxy_notblocked_getaddrinfo_cb
  PROVE  IInv'
  <1>1. /\ phase = "resolving" /\ objs = {"local", "remotetcp"} /\ refs \in Counters
        /\ refs.state = 1 /\ refs.bev = 2 /\ refs.ssl = 0
        /\ bev \in Bevs /\ UNCHANGED <<net, streams, got>>
    BY DEF proxy_notblocked_getaddrinfo_cb, IInv, Resources, TypeOK, Bevs, Counters
  <1>2. CASE StateCleanup(bev, objs, refs, "failed")
    <2>1. Counts(objs, refs)
      BY <1>1, Pointers, SMTT(40) DEF Counts
    <2>. QED BY <1>1, <1>2, <2>1, CleanupInv, SMTT(40)
  <1>3. CASE StateCleanup(bev, objs \cup {"ssl"}, [refs EXCEPT !.ssl = @ + 1], "failed")
    <2>. DEFINE r == [refs EXCEPT !.ssl = @ + 1]
    <2>1. r.state = 1 /\ r.bev = 2 /\ r.ssl = 1
      BY <1>1, SMTT(40) DEF Counters
    <2>2. objs \cup {"ssl"} = {"local", "remotetcp", "ssl"}
      BY <1>1, SMTT(40)
    <2>3. StateCleanup(bev, {"local", "remotetcp", "ssl"}, r, "failed")
      BY <1>3, <2>2, SMTT(40)
    <2>. HIDE DEF r
    <2>4. Counts({"local", "remotetcp", "ssl"}, r)
      BY <2>1, Pointers, SMTT(40) DEF Counts
    <2>. QED BY <1>1, <2>1, <2>3, <2>4, CleanupInv, SMTT(40)
  <1>4. CASE /\ Proceed("handshake", objs \cup {"ssl", "remote"},
                        [refs EXCEPT !.ssl = @ + 1, !.bev = @ + 1])
             /\ bev' = [bev EXCEPT !["local"].readcb = "read_cb", !["remote"].readcb = "read_cb"]
    <2>. DEFINE r == [refs EXCEPT !.ssl = @ + 1, !.bev = @ + 1]
                x == PutReadCb(bev["local"])
                y == PutReadCb(bev["remote"])
    <2>0. r \in Counters /\ r.state = 1 /\ r.bev = 3 /\ r.ssl = 1
      <3>1. refs.ssl + 1 \in Nat /\ refs.bev + 1 \in Nat
        BY <1>1, SMTT(40)
      <3>2. r \in Counters
        BY <1>1, <3>1, CountersUp, Zenon
      <3>. QED BY <1>1, <3>2, SMTT(40) DEF Counters
    <2>1. /\ phase' = "handshake" /\ objs' = objs \cup {"ssl", "remote"}
          /\ UNCHANGED <<end, lost>> /\ refs' = r
      BY <1>4, SMTT(40) DEF Proceed, ending
    <2>. HIDE DEF r
    <2>2. objs' = {"local", "remotetcp", "ssl", "remote"}
      BY <1>1, <2>1, SMTT(40)
    <2>3. bev["local"] \in Bev /\ bev["remote"] \in Bev
      BY <1>1, SMTT(40) DEF Bevs, Sides
    <2>4. bev' = [bev EXCEPT !["local"] = x, !["remote"] = y]
      BY <1>1, <1>4, SMTT(40) DEF Bevs, Sides, PutReadCb
    <2>5. x \in Bev /\ y \in Bev
      BY <2>3, SetReadCb, SMTT(40)
    <2>6. bev' \in Bevs /\ bev'["local"] = x /\ bev'["remote"] = y
      <3>. HIDE DEF x, y
      <3>. QED BY <1>1, <2>4, <2>5, SMTT(40) DEF Bevs, Sides
    <2>7. TypeOK' /\ Resources'
      BY <1>1, <2>0, <2>1, <2>2, <2>6, SMTT(40) DEF IInv, TypeOK, Resources, Alive,
         streams, Counters, Bevs
    <2>8. \A s \in Sides : /\ bev[s] \in Bev /\ bev'[s] = PutReadCb(bev[s])
                           /\ Untouched(bev[s]) /\ bev[s].pend = {}
      BY <1>1, <2>3, <2>6, EarlySides, SMTT(40) DEF Sides
    <2>9. \A s \in Sides : /\ Untouched(bev'[s]) /\ bev'[s].readcb = "read_cb"
                           /\ bev'[s].pend = {}
      BY <2>8, SetReadCb, SMTT(40) DEF Untouched
    <2>10. "connected" \notin bev'["local"].pend
      BY <2>9, SMTT(40) DEF Sides
    <2>. QED BY <2>1, <2>7, <2>9, <2>10, EarlyJoin, SMTT(40)
  <1>. QED BY <1>2, <1>3, <1>4, SMTT(40) DEF proxy_notblocked_getaddrinfo_cb

\* A tunnel that is past the lookup is cleaned up.
LEMMA AliveCleanup ==
  ASSUME IInv, Alive, NEW b \in Bevs, NEW why \in {"clean", "failed"},
         StateCleanup(b, objs, refs, why), UNCHANGED <<net, streams, got>>
  PROVE  IInv'
  <1>1. /\ objs = {"local", "remotetcp", "ssl", "remote"}
        /\ refs.state = 1 /\ refs.bev = 3 /\ refs.ssl = 1
    BY DEF IInv, Resources
  <1>2. Counts(objs, refs)
    BY <1>1, Pointers, SMTT(40) DEF Counts
  <1>. QED BY <1>1, <1>2, CleanupInv, SMTT(40)

-----------------------------------------------------------------------------
\* The invariant holds at the start.
LEMMA InitInv == Init => IInv
  <1>. SUFFICES ASSUME Init PROVE IInv
    BY SMTT(40)
  <1>1. NewBev \in Bev
    BY SMTT(40) DEF NewBev, Bev
  <1>2. bev \in [Sides -> Bev] /\ \A s \in Sides : bev[s] = NewBev
    BY <1>1, SMTT(40) DEF Init
  <1>3. \A s \in Sides : /\ Untouched(bev[s]) /\ bev[s].pend = {} /\ ~bev[s].dead
                         /\ bev[s].writecb = "none"
    BY <1>2, SMTT(40) DEF NewBev, Untouched
  <1>4. <<>> \in Seq(Nat)
    BY SMTT(40)
  <1>5. TypeOK /\ Resources
    BY <1>2, <1>4, SMTT(40) DEF Init, TypeOK, Resources, Alive
  <1>6. phase = "none" /\ ~Alive /\ "local" \in Sides
    BY SMTT(40) DEF Init, Alive, Sides
  <1>7. Quiet
    BY <1>3, <1>6, SMTT(40) DEF Quiet
  <1>8. DrainPaused /\ FinishFinal
    BY <1>3, <1>6, SMTT(40) DEF DrainPaused, FinishFinal
  <1>9. ReadOnlyWithRoom /\ PausedHasWaker /\ FinishHasWaker
    BY <1>3, <1>6, SMTT(40) DEF ReadOnlyWithRoom, PausedHasWaker, FinishHasWaker
  <1>. QED BY <1>5, <1>7, <1>8, <1>9, SMTT(40) DEF IInv

\* Every step keeps the invariant.
LEMMA NextInv == IInv /\ [Next]_vars => IInv'
  <1>. SUFFICES ASSUME IInv, [Next]_vars PROVE IInv'
    BY SMTT(40)
  <1>1. CASE UNCHANGED vars
    BY <1>1, ZenonT(60) DEF vars, IInv, TypeOK, Resources, Alive, Quiet, DrainPaused,
       FinishFinal,
       ReadOnlyWithRoom, PausedHasWaker, FinishHasWaker
  <1>2. ASSUME NEW s \in Sides, RunWriteCb(s)
        PROVE  IInv'
    <2>1. CASE /\ bev[s].writecb = "drained_write_cb"
               /\ bev' = drained_write_cb(Clear(s, {"write"}), s)
               /\ UNCHANGED <<phase, objs, refs, ending>>
      BY <1>2, <2>1, RunDrainedInv, SMTT(40) DEF RunWriteCb, ending, streams
    <2>2. CASE bev[s].writecb = "close_on_finished_write_cb" /\ close_on_finished_write_cb(s)
      <3>1. Due(s, "write") /\ UNCHANGED <<net, streams, got>>
        BY <1>2 DEF RunWriteCb
      <3>2. GoesOnOrEnds
        BY <2>2, <3>1, RunCloseInv
      <3>. QED BY <3>1, <3>2, AliveCleanup DEF GoesOnOrEnds, Due
    <2>. QED BY <1>2, <2>1, <2>2, ZenonT(60) DEF RunWriteCb
  <1>3. ASSUME NEW s \in Sides, RunEventCb(s)
        PROVE  IInv'
    <2>1. CASE Due(s, "eof") /\ OnEof(s)
      <3>1. ~Due(s, "read") /\ UNCHANGED <<net, streams, got>>
        BY <1>3, <2>1 DEF RunEventCb
      <3>2. GoesOnOrEnds
        BY <2>1, <3>1, OnEofInv
      <3>. QED BY <2>1, <3>1, <3>2, AliveCleanup DEF GoesOnOrEnds, Due
    <2>2. CASE Due(s, "error") /\ OnError(s)
      BY <1>3, <2>2, StreamTypes, AliveCleanup, SMTT(40) DEF RunEventCb, OnError, Due
    <2>. QED BY <1>3, <2>1, <2>2, SMTT(40) DEF RunEventCb
  <1>. QED BY SMTT(40), <1>1, <1>2, <1>3, AcceptInv, GetaddrinfoInv, OnConnectedInv,
              ConnectedInv, WriteInv,
              WriteRemotetcpInv, RunReadCbInv, ReadSocketInv, ReadEofInv, SocketErrorInv, PeerInv
       DEF Next

\* The inductive invariant of a tunnel holds always: pointers and counters
\* agree in every phase, no side is read whose partner has no room, and every
\* wait has someone to end it.
THEOREM TunnelInvariance == Spec => []IInv
  BY InitInv, NextInv, PTL DEF Spec

\* Every variable of a tunnel (struct telex_state and its bufferevents) has
\* its type.
THEOREM TunnelTypes == Spec => []TypeOK
  <1>1. IInv => TypeOK
    BY SMTT(40) DEF IInv
  <1>. QED BY <1>1, TunnelInvariance, PTL

\* The resource counters of proxy.c tell leaks: they count what exists, and
\* StateCleanup takes every one of them back to zero on every path.
THEOREM CountersCountHolds == Spec => []CountersCount
  <1>1. IInv => CountersCount
    BY Pointers, Zenon DEF IInv, TypeOK, Resources, Alive, CountersCount
  <1>. QED BY <1>1, TunnelInvariance, PTL

\* read_cb pauses its source in time, and nothing wakes it too early: a side
\* is read only while its partner's output buffer has room.
THEOREM ReadOnlyWithRoomHolds == Spec => []ReadOnlyWithRoom
  <1>1. IInv => ReadOnlyWithRoom
    BY SMTT(40) DEF IInv
  <1>. QED BY <1>1, TunnelInvariance, PTL

\* A side that read_cb has paused is woken: drained_write_cb is registered and
\* due, or will be.
THEOREM PausedHasWakerHolds == Spec => []PausedHasWaker
  <1>1. IInv => PausedHasWaker
    BY SMTT(40) DEF IInv
  <1>. QED BY <1>1, TunnelInvariance, PTL

\* A tunnel that waits for close_on_finished_write_cb has bytes to write, or
\* the callback is due, or the side is broken.
THEOREM FinishHasWakerHolds == Spec => []FinishHasWaker
  <1>1. IInv => FinishHasWaker
    BY DEF IInv
  <1>. QED BY <1>1, TunnelInvariance, PTL

-----------------------------------------------------------------------------
(* The bytes.  Every stream is a sequence cut into handed on, output,      *)
(* input and unread; no step changes the whole.                            *)

\* A stream of bytes.
Bytes == Seq(Nat)

\* Sequences with the same elements are equal.
LEMMA SameBytes ==
  ASSUME NEW u \in Bytes, NEW v \in Bytes, Len(u) = Len(v), \A i \in 1..Len(u) : u[i] = v[i]
  PROVE  u = v
  BY DEF Bytes

\* The elements of u \o v.
LEMMA CatFacts ==
  ASSUME NEW u \in Bytes, NEW v \in Bytes
  PROVE  /\ u \o v \in Bytes /\ Len(u) \in Nat /\ Len(v) \in Nat /\ Len(u \o v) = Len(u) + Len(v)
         /\ \A i \in 1..Len(u) : (u \o v)[i] = u[i]
         /\ \A i \in 1..Len(v) : (u \o v)[Len(u) + i] = v[i]
  BY DEF Bytes

\* Nothing is put at either end.
LEMMA CatEmpty ==
  ASSUME NEW u \in Bytes
  PROVE  u \o <<>> = u /\ <<>> \o u = u /\ <<>> \in Bytes
  BY DEF Bytes

\* The order of putting together does not matter.
Assoc(u, v, w) == (u \o v) \o w = u \o (v \o w)

\* It does not.
LEMMA CatAssoc ==
  ASSUME NEW u \in Bytes, NEW v \in Bytes, NEW w \in Bytes
  PROVE  Assoc(u, v, w)
  <1>. DEFINE z == u \o v
              t == v \o w
              x == z \o w
              y == u \o t
  <1>1. PICK a, b, c \in Nat : a = Len(u) /\ b = Len(v) /\ c = Len(w)
    BY CatFacts, Zenon
  <1>2. /\ z \in Bytes /\ Len(z) = a + b
        /\ \A i \in 1..a : z[i] = u[i]
        /\ \A i \in 1..b : z[a + i] = v[i]
    BY <1>1, CatFacts, Zenon
  <1>3. /\ t \in Bytes /\ Len(t) = b + c
        /\ \A i \in 1..b : t[i] = v[i]
        /\ \A i \in 1..c : t[b + i] = w[i]
    BY <1>1, CatFacts, Zenon
  <1>. HIDE DEF z, t
  <1>4. /\ x \in Bytes /\ Len(x) = (a + b) + c
        /\ \A i \in 1..(a + b) : x[i] = z[i]
        /\ \A i \in 1..c : x[(a + b) + i] = w[i]
    <2>1. /\ x \in Bytes /\ Len(x) = Len(z) + Len(w)
          /\ \A i \in 1..Len(z) : x[i] = z[i]
          /\ \A i \in 1..Len(w) : x[Len(z) + i] = w[i]
      BY <1>2, CatFacts, Zenon
    <2>. HIDE DEF x
    <2>. QED BY <1>1, <1>2, <2>1, Zenon
  <1>5. /\ y \in Bytes /\ Len(y) = a + (b + c)
        /\ \A i \in 1..a : y[i] = u[i]
        /\ \A i \in 1..(b + c) : y[a + i] = t[i]
    <2>1. /\ y \in Bytes /\ Len(y) = Len(u) + Len(t)
          /\ \A i \in 1..Len(u) : y[i] = u[i]
          /\ \A i \in 1..Len(t) : y[Len(u) + i] = t[i]
      BY <1>3, CatFacts, Zenon
    <2>. HIDE DEF y
    <2>. QED BY <1>1, <1>3, <2>1, Zenon
  <1>. HIDE DEF x, y
  <1>6. ASSUME NEW i \in 1..Len(x) PROVE x[i] = y[i]
    <2>1. \/ i \in 1..a /\ i \in 1..(a + b)
          \/ \E j \in 1..b : i = a + j /\ i \in 1..(a + b) /\ j \in 1..(b + c)
          \/ \E j \in 1..c : i = (a + b) + j /\ i = a + (b + j) /\ b + j \in 1..(b + c)
      <3>1. CASE i <= a
        BY <1>1, <1>4, <3>1
      <3>2. CASE a < i /\ i <= a + b
        <4>1. i - a \in 1..b /\ i = a + (i - a) /\ i \in 1..(a + b) /\ i - a \in 1..(b + c)
          BY <1>1, <1>4, <3>2
        <4>. QED BY <4>1, Zenon
      <3>3. CASE a + b < i
        <4>1. /\ i - (a + b) \in 1..c /\ i = (a + b) + (i - (a + b))
              /\ i = a + (b + (i - (a + b))) /\ b + (i - (a + b)) \in 1..(b + c)
          BY <1>1, <1>4, <3>3
        <4>. QED BY <4>1, Zenon
      <3>4. i <= a \/ (a < i /\ i <= a + b) \/ a + b < i
        BY <1>1, <1>4
      <3>. QED BY <3>1, <3>2, <3>3, <3>4, Zenon
    <2>2. CASE i \in 1..a /\ i \in 1..(a + b)
      BY <1>2, <1>4, <1>5, <2>2, Zenon
    <2>3. ASSUME NEW j \in 1..b, i = a + j, i \in 1..(a + b), j \in 1..(b + c) PROVE x[i] = y[i]
      <3>1. x[i] = z[i] /\ z[i] = v[j]
        BY <1>2, <1>4, <2>3, Zenon
      <3>2. y[i] = t[j] /\ t[j] = v[j]
        BY <1>3, <1>5, <2>3, Zenon
      <3>. QED BY <3>1, <3>2, Zenon
    <2>4. ASSUME NEW j \in 1..c, i = (a + b) + j, i = a + (b + j), b + j \in 1..(b + c)
          PROVE  x[i] = y[i]
      <3>1. x[i] = w[j]
        BY <1>4, <2>4, Zenon
      <3>2. y[i] = t[b + j] /\ t[b + j] = w[j]
        BY <1>3, <1>5, <2>4, Zenon
      <3>. QED BY <3>1, <3>2, Zenon
    <2>. QED BY <2>1, <2>2, <2>3, <2>4, Zenon
  <1>7. Len(x) = Len(y)
    BY <1>1, <1>4, <1>5
  <1>8. x = y
    BY <1>4, <1>5, <1>6, <1>7, SameBytes, Zenon
  <1>. QED BY <1>8, Zenon DEF Assoc, x, y, z, t

\* A sequence cut in two.
LEMMA CutFacts ==
  ASSUME NEW q \in Bytes, NEW k \in 1..Len(q)
  PROVE  /\ SubSeq(q, 1, k) \in Bytes /\ SubSeq(q, k + 1, Len(q)) \in Bytes
         /\ SubSeq(q, 1, k) \o SubSeq(q, k + 1, Len(q)) = q
  <1>. DEFINE f == SubSeq(q, 1, k)
              o == SubSeq(q, k + 1, Len(q))
  <1>1. PICK l \in Nat : l = Len(q) /\ k \in Nat /\ k <= l
    BY DEF Bytes
  <1>2. /\ f \in Bytes /\ Len(f) = k
        /\ \A i \in 1..k : f[i] = q[i]
    BY <1>1 DEF Bytes
  <1>3. /\ o \in Bytes /\ Len(o) = l - k
        /\ \A i \in 1..(l - k) : o[i] = q[k + i]
    BY <1>1 DEF Bytes
  <1>. HIDE DEF f, o
  <1>4. /\ f \o o \in Bytes /\ Len(f \o o) = k + (l - k)
        /\ \A i \in 1..k : (f \o o)[i] = f[i]
        /\ \A i \in 1..(l - k) : (f \o o)[k + i] = o[i]
    <2>1. /\ f \o o \in Bytes /\ Len(f \o o) = Len(f) + Len(o)
          /\ \A i \in 1..Len(f) : (f \o o)[i] = f[i]
          /\ \A i \in 1..Len(o) : (f \o o)[Len(f) + i] = o[i]
      BY <1>2, <1>3, CatFacts, Zenon
    <2>. QED BY <1>2, <1>3, <2>1, Zenon
  <1>5. ASSUME NEW i \in 1..Len(f \o o) PROVE (f \o o)[i] = q[i]
    <2>1. i \in 1..k \/ (i - k \in 1..(l - k) /\ i = k + (i - k))
      BY <1>1, <1>4
    <2>2. i \in 1..k \/ \E j \in 1..(l - k) : i = k + j
      BY <2>1, Zenon
    <2>3. CASE i \in 1..k
      BY <1>2, <1>4, <2>3, Zenon
    <2>4. ASSUME NEW j \in 1..(l - k), i = k + j PROVE (f \o o)[i] = q[i]
      <3>1. (f \o o)[k + j] = o[j] /\ o[j] = q[k + j]
        BY <1>3, <1>4, <2>4, Zenon
      <3>. QED BY <2>4, <3>1, Zenon
    <2>. QED BY <2>2, <2>3, <2>4, Zenon
  <1>6. Len(f \o o) = Len(q)
    BY <1>1, <1>4
  <1>7. f \o o = q
    BY <1>4, <1>5, <1>6, SameBytes, Zenon
  <1>. QED BY <1>2, <1>3, <1>7, Zenon DEF f, o

\* The first part of u \o v.
LEMMA CatPrefix ==
  ASSUME NEW u \in Bytes, NEW v \in Bytes
  PROVE  Len(u) <= Len(u \o v) /\ u = SubSeq(u \o v, 1, Len(u))
  <1>1. PICK a, b \in Nat : a = Len(u) /\ b = Len(v)
    BY CatFacts
  <1>2. /\ u \o v \in Bytes /\ Len(u \o v) = a + b
        /\ \A i \in 1..a : (u \o v)[i] = u[i]
    BY <1>1, CatFacts, Zenon
  <1>. DEFINE q == u \o v
              f == SubSeq(q, 1, a)
  <1>. HIDE DEF q
  <1>3. q \in Bytes /\ Len(q) = a + b /\ \A i \in 1..a : q[i] = u[i]
    BY <1>2 DEF q
  <1>4. f \in Bytes /\ Len(f) = a /\ \A i \in 1..a : f[i] = q[i]
    BY <1>1, <1>3 DEF Bytes
  <1>. HIDE DEF f
  <1>5. f = u
    BY <1>1, <1>3, <1>4, SameBytes
  <1>. QED BY <1>1, <1>2, <1>5 DEF f, q

\* A stream cut in four: handed on, output, input and unread.
Line(h, o, i, n) == ((h \o o) \o i) \o n

\* It is a stream of bytes.
LEMMA LineIs ==
  ASSUME NEW h \in Bytes, NEW o \in Bytes, NEW i \in Bytes, NEW n \in Bytes
  PROVE  h \o o \in Bytes /\ (h \o o) \o i \in Bytes /\ Line(h, o, i, n) \in Bytes
  BY CatFacts, Zenon DEF Line

\* Taking the first k unread bytes into the input leaves the stream as it is.
ReadKeeps(h, o, i, n, k) ==
  Line(h, o, i \o SubSeq(n, 1, k), SubSeq(n, k + 1, Len(n))) = Line(h, o, i, n)

\* Reading from the socket.
LEMMA LineRead ==
  ASSUME NEW h \in Bytes, NEW o \in Bytes, NEW i \in Bytes, NEW n \in Bytes, NEW k \in 1..Len(n)
  PROVE  ReadKeeps(h, o, i, n, k)
  <1>. DEFINE f == SubSeq(n, 1, k)
              r == SubSeq(n, k + 1, Len(n))
              u == h \o o
  <1>1. f \in Bytes /\ r \in Bytes /\ f \o r = n
    BY CutFacts, Zenon
  <1>2. u \in Bytes
    BY LineIs, Zenon
  <1>. HIDE DEF f, r, u
  <1>3. u \o (i \o f) = (u \o i) \o f /\ u \o i \in Bytes
    <2>1. u \o i \in Bytes
      BY <1>2, CatFacts, Zenon
    <2>2. Assoc(u, i, f)
      BY <1>1, <1>2, CatAssoc, Zenon
    <2>. QED BY <2>1, <2>2, Zenon DEF Assoc
  <1>4. ((u \o i) \o f) \o r = (u \o i) \o (f \o r)
    <2>1. Assoc(u \o i, f, r)
      BY <1>1, <1>3, CatAssoc, Zenon
    <2>. QED BY <2>1, Zenon DEF Assoc
  <1>5. (u \o (i \o f)) \o r = (u \o i) \o n
    BY <1>1, <1>3, <1>4, Zenon
  <1>. QED BY <1>5, Zenon DEF ReadKeeps, Line, f, r, u

\* Moving the input to the output.
LEMMA LineMove ==
  ASSUME NEW h \in Bytes, NEW o \in Bytes, NEW i \in Bytes, NEW n \in Bytes
  PROVE  Line(h, o \o i, <<>>, n) = Line(h, o, i, n)
  <1>1. h \o (o \o i) = (h \o o) \o i /\ (h \o o) \o i \in Bytes
    <2>1. (h \o o) \o i \in Bytes
      BY LineIs, Zenon
    <2>2. Assoc(h, o, i)
      BY CatAssoc, Zenon
    <2>. QED BY <2>1, <2>2, Zenon DEF Assoc
  <1>2. ((h \o o) \o i) \o <<>> = (h \o o) \o i
    BY <1>1, CatEmpty, Zenon
  <1>. QED BY <1>1, <1>2, Zenon DEF Line

\* Handing on the first k bytes of the output leaves the stream as it is.
WriteKeeps(h, o, i, n, k) ==
  Line(h \o SubSeq(o, 1, k), SubSeq(o, k + 1, Len(o)), i, n) = Line(h, o, i, n)

\* Writing from the output.
LEMMA LineWrite ==
  ASSUME NEW h \in Bytes, NEW o \in Bytes, NEW i \in Bytes, NEW n \in Bytes, NEW k \in 1..Len(o)
  PROVE  WriteKeeps(h, o, i, n, k)
  <1>. DEFINE f == SubSeq(o, 1, k)
              r == SubSeq(o, k + 1, Len(o))
  <1>1. f \in Bytes /\ r \in Bytes /\ f \o r = o
    BY CutFacts, Zenon
  <1>. HIDE DEF f, r
  <1>2. (h \o f) \o r = h \o o
    <2>1. Assoc(h, f, r)
      BY <1>1, CatAssoc, Zenon
    <2>. QED BY <1>1, <2>1, Zenon DEF Assoc
  <1>. QED BY <1>2, Zenon DEF WriteKeeps, Line, f, r

\* A byte that is sent goes to the end of the stream.
SendKeeps(h, o, i, n, x) == Line(h, o, i, Append(n, x)) = Append(Line(h, o, i, n), x)

\* The peer sends.
LEMMA LineSend ==
  ASSUME NEW h \in Bytes, NEW o \in Bytes, NEW i \in Bytes, NEW n \in Bytes, NEW x \in Nat
  PROVE  SendKeeps(h, o, i, n, x)
  <1>. DEFINE u == (h \o o) \o i
              q == <<x>>
  <1>1. u \in Bytes
    BY LineIs, Zenon
  <1>2. q \in Bytes /\ \A v \in Bytes : Append(v, x) = v \o q
    <2>1. q \in Bytes
      BY DEF Bytes
    <2>2. ASSUME NEW v \in Bytes PROVE Append(v, x) = v \o q
      BY <2>2 DEF Bytes
    <2>. QED BY <2>1, <2>2, Zenon
  <1>. HIDE DEF u, q
  <1>3. u \o (n \o q) = (u \o n) \o q /\ u \o n \in Bytes
    <2>1. Assoc(u, n, q) /\ u \o n \in Bytes
      BY <1>1, <1>2, CatAssoc, CatFacts, Zenon
    <2>. QED BY <2>1, Zenon DEF Assoc
  <1>4. u \o Append(n, x) = Append(u \o n, x)
    BY <1>2, <1>3, Zenon
  <1>. QED BY <1>4, Zenon DEF SendKeeps, Line, u

\* h is the beginning of q.
Begins(h, q) ==
  Len(h) \in Nat /\ Len(q) \in Nat /\ Len(h) <= Len(q) /\ h = SubSeq(q, 1, Len(h))

\* What is handed on is the beginning of the stream, and all of it when the
\* rest is empty.
LEMMA LineHanded ==
  ASSUME NEW h \in Bytes, NEW o \in Bytes, NEW i \in Bytes, NEW n \in Bytes
  PROVE  /\ Begins(h, Line(h, o, i, n))
         /\ o = <<>> /\ i = <<>> /\ n = <<>> => h = Line(h, o, i, n)
  <1>. DEFINE q == Line(h, o, i, n)
              r == o \o (i \o n)
  <1>1. i \o n \in Bytes /\ r \in Bytes /\ h \o o \in Bytes /\ q \in Bytes
    BY CatFacts, LineIs, Zenon
  <1>2. q = h \o r
    <2>1. Assoc(h \o o, i, n)
      BY <1>1, CatAssoc, Zenon
    <2>2. Assoc(h, o, i \o n)
      BY <1>1, CatAssoc, Zenon
    <2>. QED BY <2>1, <2>2, Zenon DEF Line, Assoc
  <1>3. o = <<>> /\ i = <<>> /\ n = <<>> => h = q
    BY CatEmpty, Zenon DEF Line
  <1>. HIDE DEF r
  <1>4. Len(h) <= Len(q) /\ h = SubSeq(q, 1, Len(h))
    BY <1>1, <1>2, CatPrefix, Zenon
  <1>5. Len(h) \in Nat /\ Len(q) \in Nat
    BY <1>1, CatFacts, Zenon
  <1>. QED BY <1>3, <1>4, <1>5, Zenon DEF Begins

-----------------------------------------------------------------------------
(* The refinement mapping.                                                 *)

\* What is handed on, from what the peers got, the filter holds and the close lost.
Hand(g, t, l) == [g EXCEPT !["remote"] = (@ \o t) \o l]

\* handed is made of got, the output buffer of remotetcp, and what was lost.
LEMMA HandedIs ==
  /\ handed = Hand(got, bev["remote"].tcp, lost)
  /\ handed' = Hand(got', bev'["remote"].tcp, lost')
  BY Zenon DEF handed, Hand

\* What a side p has been handed; the stream of side s, with unread bytes n.
To(b, g, p) == IF p = "remote" THEN g[p] \o b[p].tcp ELSE g[p]
Handed(b, g) == [p \in Sides |-> To(b, g, p)]
Flow(b, g, n, s) ==
  Line(To(b, g, Partner(s)), b[Partner(s)].out, b[s].in, n[s])

\* A stream for each side.
Streams == [Sides -> Bytes]

\* The types.
LEMMA FlowTypes ==
  ASSUME NEW b \in Bevs, NEW g \in Streams, NEW n \in Streams, NEW s \in Sides
  PROVE  /\ b[s] \in Bev /\ b[s].in \in Bytes /\ b[s].out \in Bytes /\ b[s].tcp \in Bytes
         /\ To(b, g, s) \in Bytes /\ n[s] \in Bytes /\ g[s] \in Bytes /\ Handed(b, g) \in Streams
  <1>1. \A r \in Sides : b[r] \in Bev /\ g[r] \in Bytes /\ n[r] \in Bytes
    BY DEF Bevs, Streams
  <1>2. \A r \in Sides : b[r].in \in Bytes /\ b[r].out \in Bytes /\ b[r].tcp \in Bytes
    BY <1>1, BevTypes, Zenon DEF Bytes
  <1>3. \A r \in Sides : To(b, g, r) \in Bytes
    BY <1>1, <1>2, CatFacts, Zenon DEF To
  <1>. QED BY <1>1, <1>2, <1>3, Zenon DEF Handed, Streams

\* It does not matter on which side of the free what is in remotetcp is
\* counted.
LEMMA HandIs ==
  ASSUME NEW b \in Bevs, NEW g \in Streams
  PROVE  /\ Hand(g, b["remote"].tcp, <<>>) = Handed(b, g)
         /\ Hand(g, <<>>, b["remote"].tcp) = Handed(b, g)
  <1>1. "local" \in Sides /\ "remote" \in Sides /\ \A p \in Sides : p = "local" \/ p = "remote"
    BY DEF Sides
  <1>2. g["remote"] \in Bytes /\ b["remote"].tcp \in Bytes
    BY <1>1, FlowTypes, Zenon
  <1>3. ASSUME NEW t, NEW l, (g["remote"] \o t) \o l = g["remote"] \o b["remote"].tcp
        PROVE  Hand(g, t, l) = Handed(b, g)
    <2>. DEFINE x == (g["remote"] \o t) \o l
    <2>1. Hand(g, t, l) = [g EXCEPT !["remote"] = x]
      BY Zenon DEF Hand
    <2>2. x = To(b, g, "remote")
      BY <1>3, Zenon DEF To
    <2>. HIDE DEF x
    <2>3. To(b, g, "local") = g["local"]
      BY DEF To
    <2>4. Hand(g, t, l) = [p \in Sides |-> IF p = "remote" THEN x ELSE g[p]]
      BY <2>1, Zenon DEF Streams
    <2>. QED BY <1>1, <2>2, <2>3, <2>4 DEF Handed
  <1>4. /\ (g["remote"] \o b["remote"].tcp) \o <<>> = g["remote"] \o b["remote"].tcp
        /\ (g["remote"] \o <<>>) \o b["remote"].tcp = g["remote"] \o b["remote"].tcp
    <2>1. g["remote"] \o b["remote"].tcp \in Bytes
      BY <1>2, CatFacts, Zenon
    <2>. QED BY <1>2, <2>1, CatEmpty, Zenon
  <1>. QED BY <1>3, <1>4, Zenon

\* StreamsKept, by its parts.
LEMMA KeptIs ==
  ASSUME IInv, StreamsKept, phase # "closed"
  PROVE  /\ bev \in Bevs /\ got \in Streams /\ net \in Streams /\ sent \in Streams
         /\ end = "no" /\ lost = <<>> /\ handed = Handed(bev, got)
         /\ \A s \in Sides : Flow(bev, got, net, s) = sent[s]
  <1>1. bev \in Bevs /\ got \in Streams /\ net \in Streams /\ sent \in Streams
    BY StreamTypes DEF Streams, Bytes
  <1>2. end = "no" /\ lost = <<>> /\ \A s \in Sides : Carried(s) = sent[s]
    BY Zenon DEF StreamsKept
  <1>3. handed = Handed(bev, got)
    BY <1>1, <1>2, HandedIs, HandIs, Zenon
  <1>4. ASSUME NEW s \in Sides PROVE Carried(s) = Flow(bev, got, net, s)
    <2>1. handed[Partner(s)] = To(bev, got, Partner(s))
      BY <1>3, SideFacts, Zenon DEF Handed
    <2>. QED BY <2>1, Zenon DEF Carried, Flow, Line
  <1>. QED BY <1>1, <1>2, <1>3, <1>4, Zenon

\* And back.
LEMMA KeptNext ==
  ASSUME bev' \in Bevs, got' \in Streams, phase' # "closed", end' = "no", lost' = <<>>,
         \A s \in Sides : Flow(bev', got', net', s) = sent'[s]
  PROVE  StreamsKept' /\ handed' = Handed(bev', got')
  <1>1. handed' = Handed(bev', got')
    BY HandedIs, HandIs, Zenon
  <1>2. ASSUME NEW s \in Sides PROVE Carried(s)' = Flow(bev', got', net', s)
    <2>1. handed'[Partner(s)] = To(bev', got', Partner(s))
      BY <1>1, SideFacts, Zenon DEF Handed
    <2>. QED BY <2>1, Zenon DEF Carried, Flow, Line
  <1>. QED BY <1>1, <1>2, Zenon DEF StreamsKept

\* A step of Relay, or one that leaves what Relay sees alone.
RelayNext == [R!Next]_<<sent, fin, handed, end>>

\* A step that keeps the streams and hands bytes to one side at most.
LEMMA GoesOn ==
  ASSUME IInv, IInv', StreamsKept, phase # "closed", phase' # "closed",
         UNCHANGED <<sent, fin, end, lost>>, NEW q \in Sides,
         To(bev', got', q) = To(bev, got, q),
         Len(To(bev, got, Partner(q))) <= Len(To(bev', got', Partner(q))),
         \A s \in Sides : Flow(bev', got', net', s) = Flow(bev, got, net, s)
  PROVE  StreamsKept' /\ RelayNext
  <1>. DEFINE p == Partner(q)
              x == To(bev', got', p)
  <1>1. /\ bev \in Bevs /\ got \in Streams /\ net \in Streams /\ sent \in Streams
        /\ end = "no" /\ lost = <<>> /\ handed = Handed(bev, got)
        /\ \A s \in Sides : Flow(bev, got, net, s) = sent[s]
    BY KeptIs, Zenon
  <1>2. bev' \in Bevs /\ got' \in Streams /\ net' \in Streams
    BY DEF IInv, TypeOK, Bevs, Streams, Bytes
  <1>3. StreamsKept' /\ handed' = Handed(bev', got')
    BY <1>1, <1>2, KeptNext, Zenon
  <1>4. p \in Sides /\ p # q /\ Partner(p) = q /\ \A r \in Sides : r = q \/ r = p
    BY SideFacts, Zenon
  <1>5. /\ Len(x) \in Nat /\ Len(sent[q]) \in Nat /\ Len(x) <= Len(sent[q])
        /\ x = SubSeq(sent[q], 1, Len(x))
    <2>1. x \in Bytes /\ bev'[p].out \in Bytes /\ bev'[q].in \in Bytes /\ net'[q] \in Bytes
      BY <1>2, <1>4, FlowTypes, Zenon
    <2>2. sent[q] = Line(x, bev'[p].out, bev'[q].in, net'[q])
      BY <1>1, Zenon DEF Flow
    <2>. HIDE DEF x
    <2>3. Begins(x, Line(x, bev'[p].out, bev'[q].in, net'[q]))
      BY <2>1, LineHanded, Zenon
    <2>. QED BY <2>2, <2>3, Zenon DEF Begins
  <1>. HIDE DEF x
  <1>6. handed' = [handed EXCEPT ![p] = x]
    <2>1. handed' = [r \in Sides |-> To(bev', got', r)] /\ handed = [r \in Sides |-> To(bev, got, r)]
      BY <1>1, <1>3, Zenon DEF Handed
    <2>2. To(bev', got', p) = x
      BY DEF x
    <2>. QED BY <1>4, <2>1, <2>2
  <1>7. handed[p] = To(bev, got, p)
    BY <1>1, <1>4, ZenonT(60) DEF Handed
  <1>8. Len(handed[p]) \in Nat /\ Len(handed[p]) <= Len(x)
    <2>1. To(bev, got, p) \in Bytes
      BY <1>1, <1>4, FlowTypes, Zenon
    <2>. QED BY <1>7, <2>1, CatFacts DEF x
  <1>9. Len(x) \in Len(handed[p])..Len(sent[q])
    BY <1>5, <1>8
  <1>10. R!HandOn(q)
    BY <1>1, <1>5, <1>6, <1>9, Zenon DEF R!HandOn, R!Partner, Partner
  <1>. QED BY <1>3, <1>10, Zenon DEF RelayNext, R!Next, R!Sides, Sides

\* StateCleanup ends the relay as Relay says: it fails with nothing more handed
\* on, or closes with all of an ended stream handed on.
LEMMA Ends ==
  ASSUME IInv, StreamsKept, phase # "closed", NEW b \in Bevs, NEW o, NEW r, NEW why,
         StateCleanup(b, o, r, why), UNCHANGED <<net, sent, fin, got>>,
         \/ why = "failed" /\ \A p \in Sides : To(b, got, p) = To(bev, got, p)
         \/ /\ why = "clean"
            /\ \E s \in Sides : /\ fin[s] /\ To(b, got, Partner(s)) = sent[s]
                                /\ To(b, got, s) = To(bev, got, s)
  PROVE  StreamsKept' /\ RelayNext
  <1>1. /\ got \in Streams /\ end = "no" /\ handed = Handed(bev, got)
    BY KeptIs, Zenon
  <1>2. phase' = "closed" /\ end' = why /\ lost' = b["remote"].tcp /\ bev'["remote"].tcp = <<>>
    BY DEF StateCleanup, NewBev, Sides
  <1>3. handed' = Handed(b, got)
    BY <1>1, <1>2, HandedIs, HandIs, ZenonT(60)
  <1>4. StreamsKept'
    BY <1>2 DEF StreamsKept
  <1>5. CASE why = "failed" /\ \A p \in Sides : To(b, got, p) = To(bev, got, p)
    <2>1. Handed(b, got) = Handed(bev, got)
      BY <1>5 DEF Handed
    <2>. QED BY <1>1, <1>2, <1>3, <1>4, <1>5, <2>1, ZenonT(60) DEF RelayNext, R!Next,
                R!Fail
  <1>6. ASSUME why = "clean", NEW s \in Sides, fin[s], To(b, got, Partner(s)) = sent[s],
               To(b, got, s) = To(bev, got, s)
        PROVE  RelayNext
    <2>1. Partner(s) \in Sides /\ Partner(s) # s /\ \A p \in Sides : p = s \/ p = Partner(s)
      BY SideFacts, ZenonT(60)
    <2>2. handed' = [handed EXCEPT ![Partner(s)] = sent[s]]
      BY <1>1, <1>3, <1>6, <2>1 DEF Handed
    <2>3. R!Close
      BY <1>1, <1>2, <1>6, <2>2, Zenon DEF R!Close, R!Sides, R!Partner, Partner, Sides
    <2>. QED BY <2>3, Zenon DEF RelayNext, R!Next
  <1>. QED BY <1>4, <1>5, <1>6, Zenon

-----------------------------------------------------------------------------
(* What the steps do to the bytes.                                         *)

\* The bytes of a bufferevent, and of both, are the same.
SameBuf(x, y) == x.in = y.in /\ x.out = y.out /\ x.tcp = y.tcp
SameBufs(b, c) == \A s \in Sides : SameBuf(c[s], b[s])

\* A step that leaves the buffers alone.
LEMMA StaysPut ==
  ASSUME IInv, IInv', StreamsKept, phase # "closed", phase' # "closed",
         UNCHANGED <<sent, fin, end, lost, net, got>>, SameBufs(bev, bev')
  PROVE  StreamsKept' /\ RelayNext
  <1>1. \A p \in Sides : To(bev', got', p) = To(bev, got, p)
    BY Zenon DEF SameBufs, SameBuf, To
  <1>2. \A s \in Sides : Flow(bev', got', net', s) = Flow(bev, got, net, s)
    BY <1>1, SideFacts, Zenon DEF SameBufs, SameBuf, Flow
  <1>3. "local" \in Sides /\ Partner("local") \in Sides
    BY DEF Sides, Partner
  <1>4. bev \in Bevs /\ got \in Streams /\ net \in Streams
    BY KeptIs, Zenon
  <1>5. Len(To(bev, got, Partner("local"))) \in Nat
    BY <1>3, <1>4, FlowTypes, CatFacts, Zenon
  <1>6. Len(To(bev, got, Partner("local"))) <= Len(To(bev', got', Partner("local")))
    BY <1>1, <1>3, <1>5
  <1>. QED BY <1>1, <1>2, <1>3, <1>6, GoesOn, Zenon

\* The assignments that leave the buffers of a bufferevent alone.
LEMMA PutsKeep ==
  ASSUME NEW x \in Bev, NEW v, NEW w, NEW r, NEW l
  PROVE  /\ SameBuf(PutOn(x, v), x) /\ SameBuf(PutPend(x, v), x) /\ SameBuf(PutOff(x, v), x)
         /\ SameBuf(PutDead(x, v), x) /\ SameBuf(PutReadCb(x), x) /\ SameBuf(PutCbs(x, r, w, l), x)
         /\ SameBuf(PutClosing(x), x)
  BY Zenon DEF Bev, SameBuf, PutOn, PutPend, PutOff, PutDead, PutReadCb, PutCbs,
     PutClosing

\* One bufferevent is changed.
LEMMA OneSide ==
  ASSUME NEW b \in Bevs, NEW s \in Sides, NEW x, SameBuf(x, b[s])
  PROVE  SameBufs(b, [b EXCEPT ![s] = x])
  <1>1. \A r \in Sides : [b EXCEPT ![s] = x][r] = IF r = s THEN x ELSE b[r]
    BY DEF Bevs
  <1>. QED BY <1>1, Zenon DEF SameBufs, SameBuf

\* Both are.
LEMMA BothSides ==
  ASSUME NEW b \in Bevs, NEW x, NEW y, SameBuf(x, b["local"]), SameBuf(y, b["remote"])
  PROVE  SameBufs(b, [b EXCEPT !["local"] = x, !["remote"] = y])
  <1>1. /\ [b EXCEPT !["local"] = x, !["remote"] = y]["local"] = x
        /\ [b EXCEPT !["local"] = x, !["remote"] = y]["remote"] = y
        /\ \A s \in Sides : s = "local" \/ s = "remote"
    BY DEF Bevs, Sides
  <1>. QED BY <1>1, Zenon DEF SameBufs

\* Running an event leaves the buffers alone.
LEMMA ClearKeeps ==
  ASSUME bev \in Bevs, NEW s \in Sides, NEW marks
  PROVE  SameBufs(bev, Clear(s, marks)) /\ Clear(s, marks) \in Bevs
  <1>. DEFINE x == PutPend(bev[s], bev[s].pend \ marks)
  <1>1. Clear(s, marks) = [bev EXCEPT ![s] = x]
    BY Zenon DEF Clear, PutPend
  <1>2. SameBuf(x, bev[s])
    BY SideFacts, PutsKeep, Zenon
  <1>. HIDE DEF x
  <1>3. SameBufs(bev, [bev EXCEPT ![s] = x])
    BY <1>2, OneSide, Zenon
  <1>4. Clear(s, marks) \in Bevs
    BY ClearFacts, Zenon
  <1>. QED BY <1>1, <1>3, <1>4, Zenon

\* Keeping is keeping.
LEMMA KeepTwice ==
  ASSUME NEW b, NEW c, NEW d, SameBufs(b, c), SameBufs(c, d)
  PROVE  SameBufs(b, d)
  BY Zenon DEF SameBufs, SameBuf

\* drained_write_cb leaves the buffers alone.
LEMMA DrainedKeeps ==
  ASSUME NEW b \in Bevs, NEW s \in Sides
  PROVE  SameBufs(b, drained_write_cb(b, s))
  <1>1. /\ drained_write_cb(b, s)[s].in = b[s].in /\ drained_write_cb(b, s)[s].out = b[s].out
        /\ drained_write_cb(b, s)[s].tcp = b[s].tcp
        /\ drained_write_cb(b, s)[Partner(s)].in = b[Partner(s)].in
        /\ drained_write_cb(b, s)[Partner(s)].out = b[Partner(s)].out
        /\ drained_write_cb(b, s)[Partner(s)].tcp = b[Partner(s)].tcp
    BY DrainedFacts, Zenon DEF Same
  <1>. QED BY <1>1, SideFacts, Zenon DEF SameBufs, SameBuf

\* So does registering close_on_finished_write_cb.
LEMMA ClosingKeeps ==
  ASSUME NEW b \in Bevs, NEW s \in Sides
  PROVE  SameBufs(b, CloseWhenWritten(b, Partner(s)))
  <1>1. /\ CloseWhenWritten(b, Partner(s))[s] = b[s]
        /\ CloseWhenWritten(b, Partner(s))[Partner(s)].in = b[Partner(s)].in
        /\ CloseWhenWritten(b, Partner(s))[Partner(s)].out = b[Partner(s)].out
        /\ CloseWhenWritten(b, Partner(s))[Partner(s)].tcp = b[Partner(s)].tcp
    BY ClosingFacts, Zenon DEF Same
  <1>. QED BY <1>1, SideFacts, Zenon DEF SameBufs, SameBuf

\* And pausing.
LEMMA PausedKeeps ==
  ASSUME NEW b \in Bevs, NEW s \in Sides
  PROVE  SameBufs(b, Paused(b, s))
  <1>1. /\ Paused(b, s)[s].in = b[s].in /\ Paused(b, s)[s].out = b[s].out
        /\ Paused(b, s)[s].tcp = b[s].tcp
        /\ Paused(b, s)[Partner(s)].in = b[Partner(s)].in
        /\ Paused(b, s)[Partner(s)].out = b[Partner(s)].out
        /\ Paused(b, s)[Partner(s)].tcp = b[Partner(s)].tcp
    BY PausedFacts, Zenon DEF Same
  <1>. QED BY <1>1, SideFacts, Zenon DEF SameBufs, SameBuf

\* k bytes of the output of s count as handed on.
Wrote(b, g, c, h, s, k) ==
  /\ c[s].in = b[s].in /\ c[s].out = SubSeq(b[s].out, k + 1, Len(b[s].out))
  /\ To(c, h, s) = To(b, g, s) \o SubSeq(b[s].out, 1, k)
  /\ c[Partner(s)].in = b[Partner(s)].in /\ c[Partner(s)].out = b[Partner(s)].out
  /\ To(c, h, Partner(s)) = To(b, g, Partner(s))

\* The streams are kept, and no less is handed on to s.
Onward(b, g, c, h, n, s) ==
  /\ \A r \in Sides : Flow(c, h, n, r) = Flow(b, g, n, r)
  /\ To(c, h, Partner(s)) = To(b, g, Partner(s))
  /\ Len(To(b, g, s)) <= Len(To(c, h, s))

\* Writing keeps the streams.
LEMMA WroteFlow ==
  ASSUME NEW b \in Bevs, NEW g \in Streams, NEW n \in Streams, NEW s \in Sides,
         NEW k \in 1..Len(b[s].out), NEW c, NEW h, Wrote(b, g, c, h, s, k)
  PROVE  Onward(b, g, c, h, n, s)
  <1>. DEFINE p == Partner(s)
              f == SubSeq(b[s].out, 1, k)
              o == SubSeq(b[s].out, k + 1, Len(b[s].out))
  <1>1. p \in Sides /\ Partner(p) = s /\ \A r \in Sides : r = s \/ r = p
    BY SideFacts, Zenon
  <1>2. /\ b[s].out \in Bytes /\ b[p].in \in Bytes /\ To(b, g, s) \in Bytes /\ n[p] \in Bytes
    BY <1>1, FlowTypes, Zenon
  <1>3. f \in Bytes
    BY <1>2, CutFacts, Zenon
  <1>4. Line(To(b, g, s) \o f, o, b[p].in, n[p]) = Line(To(b, g, s), b[s].out, b[p].in, n[p])
    <2>1. WriteKeeps(To(b, g, s), b[s].out, b[p].in, n[p], k)
      BY <1>2, LineWrite, Zenon
    <2>. QED BY <2>1, Zenon DEF WriteKeeps
  <1>5. Flow(c, h, n, p) = Flow(b, g, n, p)
    BY <1>1, <1>4, Zenon DEF Flow, Wrote
  <1>6. Flow(c, h, n, s) = Flow(b, g, n, s)
    BY Zenon DEF Flow, Wrote
  <1>7. Len(To(b, g, s)) <= Len(To(b, g, s) \o f)
    BY <1>2, <1>3, CatPrefix, Zenon
  <1>. QED BY <1>1, <1>5, <1>6, <1>7, Zenon DEF Wrote, Onward

\* Written, on the bytes.
WroteBytes(b, c, s, k) ==
  /\ c \in Bevs /\ c[Partner(s)] = b[Partner(s)] /\ c[s].in = b[s].in
  /\ c[s].out = SubSeq(b[s].out, k + 1, Len(b[s].out))
  /\ c[s].tcp = IF s = "remote" THEN b[s].tcp \o SubSeq(b[s].out, 1, k) ELSE b[s].tcp

\* So it is.
LEMMA WrittenBytes ==
  ASSUME NEW b \in Bevs, NEW s \in Sides, NEW k \in 1..Len(b[s].out)
  PROVE  WroteBytes(b, Written(b, s, k), s, k)
  <1>. DEFINE c == Written(b, s, k)
              o == SubSeq(b[s].out, k + 1, Len(b[s].out))
              f == SubSeq(b[s].out, 1, k)
              t == IF s = "remote" THEN b[s].tcp \o f ELSE b[s].tcp
              m == IF Len(o) <= b[s].low /\ b[s].writecb # "none"
                     THEN b[s].pend \cup {"write"} ELSE b[s].pend
              y == PutWritten(b[s], o, m, t)
  <1>1. c = [b EXCEPT ![s] = y]
    BY Zenon DEF Written, PutWritten
  <1>2. c \in Bevs /\ c[Partner(s)] = b[Partner(s)] /\ c[s].in = b[s].in /\ b[s] \in Bev
    <2>1. b[s] \in Bev
      BY SideFacts, Zenon
    <2>. QED BY <2>1, WrittenFacts, SMTT(40)
  <1>. HIDE DEF m, o, t, c
  <1>3. y.out = o /\ y.tcp = t
    BY <1>2, Zenon DEF PutWritten, Bev
  <1>. HIDE DEF y
  <1>4. c[s] = y
    BY <1>1, Zenon DEF Bevs
  <1>5. c[s].out = o /\ c[s].tcp = t
    BY <1>3, <1>4, Zenon
  <1>. QED BY <1>2, <1>5, ZenonT(60) DEF WroteBytes, o, t, f, c

\* The SSL filter takes bytes.
LEMMA FilterFlow ==
  ASSUME NEW b \in Bevs, NEW g \in Streams, NEW n \in Streams,
         NEW k \in 1..Len(b["remote"].out), NEW c, WroteBytes(b, c, "remote", k)
  PROVE  Onward(b, g, c, g, n, "remote")
  <1>. DEFINE f == SubSeq(b["remote"].out, 1, k)
  <1>1. "remote" \in Sides /\ Partner("remote") = "local"
    BY DEF Sides, Partner
  <1>2. /\ c \in Bevs /\ c["local"] = b["local"] /\ c["remote"].in = b["remote"].in
        /\ c["remote"].out = SubSeq(b["remote"].out, k + 1, Len(b["remote"].out))
        /\ c["remote"].tcp = IF "remote" = "remote" THEN b["remote"].tcp \o f ELSE b["remote"].tcp
    BY <1>1, Zenon DEF WroteBytes
  <1>3. To(c, g, "local") = To(b, g, "local")
    BY <1>2 DEF To
  <1>4. f \in Bytes /\ g["remote"] \in Bytes /\ b["remote"].tcp \in Bytes
    BY <1>1, FlowTypes, CutFacts, Zenon
  <1>. HIDE DEF f
  <1>5. Assoc(g["remote"], b["remote"].tcp, f)
    BY <1>4, CatAssoc, Zenon
  <1>6. To(c, g, "remote") = To(b, g, "remote") \o f
    BY <1>2, <1>5, Zenon DEF To, Assoc
  <1>7. To(c, g, "remote") = To(b, g, "remote") \o SubSeq(b["remote"].out, 1, k)
    BY <1>6, Zenon DEF f
  <1>8. Wrote(b, g, c, g, "remote", k)
    BY <1>1, <1>2, <1>3, <1>7, Zenon DEF Wrote
  <1>. QED BY <1>1, <1>8, WroteFlow, Zenon

\* What is handed on and the streams are the same.
SameFlows(b, c, g, n) ==
  /\ \A r \in Sides : To(c, g, r) = To(b, g, r)
  /\ \A r \in Sides : Flow(c, g, n, r) = Flow(b, g, n, r)

\* Equal buffers carry equal streams.
LEMMA SameFlow ==
  ASSUME NEW b, NEW c, NEW g, NEW n, SameBufs(b, c)
  PROVE  SameFlows(b, c, g, n)
  <1>1. \A r \in Sides : To(c, g, r) = To(b, g, r)
    BY Zenon DEF To, SameBufs, SameBuf
  <1>. QED BY <1>1, SideFacts, Zenon DEF SameFlows, Flow, SameBufs, SameBuf

\* read_cb hands on the input of s, and keeps both streams.
LEMMA ReadCbFlow ==
  ASSUME NEW b \in Bevs, NEW g \in Streams, NEW n \in Streams, NEW s \in Sides, NEW c \in read_cb(b, s)
  PROVE  c \in Bevs /\ c[s].in = <<>> /\ Onward(b, g, c, g, n, Partner(s))
  <1>. DEFINE p == Partner(s)
              a == Moved(b, s)
  <1>1. p \in Sides /\ p # s /\ Partner(p) = s /\ \A r \in Sides : r = s \/ r = p
    BY SideFacts, Zenon
  <1>2. /\ a \in Bevs /\ a[s].in = <<>> /\ a[s].out = b[s].out /\ a[s].tcp = b[s].tcp
        /\ a[p].in = b[p].in /\ a[p].out = b[p].out \o b[s].in /\ a[p].tcp = b[p].tcp
    BY MovedFacts, Zenon DEF Same
  <1>3. PICK d \in Added(a, p) : c = Paused(d, s)
    BY Zenon DEF read_cb
  <1>. HIDE DEF a
  <1>4. \A r \in Sides : To(a, g, r) = To(b, g, r)
    BY <1>1, <1>2, Zenon DEF To
  <1>5. /\ To(b, g, p) \in Bytes /\ b[p].out \in Bytes /\ b[s].in \in Bytes /\ n[s] \in Bytes
    BY <1>1, FlowTypes, Zenon
  <1>6. \A r \in Sides : Flow(a, g, n, r) = Flow(b, g, n, r)
    <2>1. Line(To(b, g, p), b[p].out \o b[s].in, <<>>, n[s]) = Line(To(b, g, p), b[p].out, b[s].in, n[s])
      BY <1>5, LineMove, ZenonT(60)
    <2>2. Flow(a, g, n, s) = Flow(b, g, n, s)
      BY <1>1, <1>2, <1>4, <2>1, Zenon DEF Flow
    <2>3. Flow(a, g, n, p) = Flow(b, g, n, p)
      BY <1>1, <1>2, <1>4, Zenon DEF Flow
    <2>. QED BY <1>1, <2>2, <2>3, Zenon
  <1>7. /\ d \in Bevs /\ d[s].in = <<>>
        /\ \A r \in Sides : Flow(d, g, n, r) = Flow(a, g, n, r)
        /\ To(d, g, s) = To(a, g, s)
        /\ Len(To(a, g, p)) <= Len(To(d, g, p))
    <2>1. CASE d = a
      <3>1. Len(To(a, g, p)) \in Nat
        BY <1>1, <1>4, <1>5, CatFacts, Zenon
      <3>2. Len(To(a, g, p)) <= Len(To(a, g, p))
        BY <3>1
      <3>. QED BY <1>2, <2>1, <3>2, Zenon
    <2>2. ASSUME p = "remote", NEW k \in 1..Len(a[p].out), d = Written(a, p, k)
          PROVE  /\ d \in Bevs /\ d[s].in = <<>>
                 /\ \A r \in Sides : Flow(d, g, n, r) = Flow(a, g, n, r)
                 /\ To(d, g, s) = To(a, g, s)
                 /\ Len(To(a, g, p)) <= Len(To(d, g, p))
      <3>1. s = "local"
        BY <1>1, <2>2 DEF Sides
      <3>2. WroteBytes(a, d, p, k)
        BY <1>1, <1>2, <2>2, WrittenBytes, Zenon
      <3>3. Onward(a, g, d, g, n, "remote")
        <4>1. k \in 1..Len(a["remote"].out) /\ WroteBytes(a, d, "remote", k)
          BY <2>2, <3>2, Zenon
        <4>. QED BY <1>2, <4>1, FilterFlow, Zenon
      <3>. QED BY <1>1, <1>2, <2>2, <3>1, <3>2, <3>3, Zenon DEF Onward, WroteBytes
    <2>3. d = a \/ (p = "remote" /\ \E k \in 1..Len(a[p].out) : d = Written(a, p, k))
      BY <1>3 DEF Added
    <2>. QED BY <2>1, <2>2, <2>3, Zenon
  <1>8. SameBufs(d, c) /\ c \in Bevs
    BY <1>3, <1>7, PausedKeeps, PausedFacts, Zenon
  <1>9. /\ \A r \in Sides : To(c, g, r) = To(d, g, r)
        /\ \A r \in Sides : Flow(c, g, n, r) = Flow(d, g, n, r)
        /\ c[s].in = d[s].in
    <2>1. c[s].in = d[s].in
      BY <1>8, Zenon DEF SameBufs, SameBuf
    <2>2. SameFlows(d, c, g, n)
      BY <1>8, SameFlow, Zenon
    <2>. QED BY <2>1, <2>2, Zenon DEF SameFlows
  <1>10. /\ \A r \in Sides : Flow(c, g, n, r) = Flow(b, g, n, r)
         /\ To(c, g, s) = To(b, g, s) /\ Len(To(b, g, p)) <= Len(To(c, g, p))
    BY <1>1, <1>4, <1>6, <1>7, <1>9, Zenon
  <1>. QED BY <1>1, <1>7, <1>8, <1>9, <1>10, Zenon DEF Onward

\* Steps that keep the buffers may come before or after one that writes.
LEMMA OnwardKeeps ==
  ASSUME NEW a, NEW b, NEW c, NEW d, NEW g, NEW n, NEW s \in Sides,
         SameBufs(a, b), Onward(b, g, c, g, n, s), SameBufs(c, d)
  PROVE  Onward(a, g, d, g, n, s)
  <1>1. SameFlows(a, b, g, n) /\ SameFlows(c, d, g, n)
    BY SameFlow, Zenon
  <1>2. Partner(s) \in Sides
    BY SideFacts, Zenon
  <1>3. \A r \in Sides : Flow(d, g, n, r) = Flow(a, g, n, r)
    BY <1>1, Zenon DEF SameFlows, Onward
  <1>4. To(b, g, s) = To(a, g, s) /\ To(d, g, s) = To(c, g, s)
    BY <1>1, Zenon DEF SameFlows
  <1>5. To(d, g, Partner(s)) = To(a, g, Partner(s))
    BY <1>1, <1>2, Zenon DEF SameFlows, Onward
  <1>. QED BY <1>3, <1>4, <1>5, Zenon DEF Onward

\* Nothing is as good as keeping.
LEMMA SameBufsSelf ==
  ASSUME NEW b
  PROVE  SameBufs(b, b)
  BY Zenon DEF SameBufs, SameBuf

\* A step that hands bytes on to s.
LEMMA GoesOnward ==
  ASSUME IInv, IInv', StreamsKept, phase # "closed", phase' # "closed",
         UNCHANGED <<sent, fin, end, lost, net>>, NEW s \in Sides,
         Onward(bev, got, bev', got', net, s)
  PROVE  StreamsKept' /\ RelayNext
  <1>. DEFINE q == Partner(s)
  <1>1. q \in Sides /\ Partner(q) = s
    BY SideFacts, Zenon
  <1>2. /\ To(bev', got', q) = To(bev, got, q)
        /\ Len(To(bev, got, Partner(q))) <= Len(To(bev', got', Partner(q)))
        /\ \A r \in Sides : Flow(bev', got', net', r) = Flow(bev, got, net, r)
    BY <1>1, Zenon DEF Onward
  <1>. HIDE DEF q
  <1>. QED BY <1>1, <1>2, GoesOn, Zenon

\* All of the stream of s is handed on when nothing is left of it elsewhere.
LEMMA AllHanded ==
  ASSUME NEW b \in Bevs, NEW g \in Streams, NEW n \in Streams, NEW s \in Sides,
         b[Partner(s)].out = <<>>, b[s].in = <<>>, n[s] = <<>>
  PROVE  To(b, g, Partner(s)) = Flow(b, g, n, s)
  <1>1. Partner(s) \in Sides
    BY SideFacts, Zenon
  <1>2. To(b, g, Partner(s)) \in Bytes /\ <<>> \in Bytes
    BY <1>1, FlowTypes, CatEmpty, Zenon
  <1>3. To(b, g, Partner(s)) = Line(To(b, g, Partner(s)), <<>>, <<>>, <<>>)
    BY <1>2, LineHanded, Zenon
  <1>. QED BY <1>3, Zenon DEF Flow

-----------------------------------------------------------------------------
(* The steps.                                                              *)

\* What each step has to show.
Refined == StreamsKept' /\ RelayNext

\* read_cb.
LEMMA RunReadCbRefines ==
  ASSUME IInv, IInv', StreamsKept, NEW s \in Sides, RunReadCb(s)
  PROVE  Refined
  <1>. DEFINE b == Clear(s, {"read"})
  <1>1. /\ Alive /\ bev' \in read_cb(b, s)
        /\ UNCHANGED <<phase, net, sent, fin, got, end, lost>>
    BY DEF RunReadCb, Due, streams, ending
  <1>2. phase # "closed" /\ phase' # "closed"
    BY <1>1 DEF Alive
  <1>3. bev \in Bevs /\ got \in Streams /\ net \in Streams
    BY <1>2, KeptIs, Zenon
  <1>4. SameBufs(bev, b) /\ b \in Bevs
    BY <1>3, ClearKeeps, Zenon
  <1>. HIDE DEF b
  <1>5. Onward(b, got, bev', got, net, Partner(s)) /\ Partner(s) \in Sides
    BY <1>1, <1>3, <1>4, ReadCbFlow, SideFacts, Zenon
  <1>6. Onward(bev, got, bev', got, net, Partner(s))
    BY <1>4, <1>5, SameBufsSelf, OnwardKeeps, Zenon
  <1>7. Onward(bev, got, bev', got', net, Partner(s))
    BY <1>1, <1>6, Zenon
  <1>. QED BY <1>1, <1>2, <1>5, <1>7, GoesOnward, Zenon DEF Refined

\* drained_write_cb and close_on_finished_write_cb.
LEMMA RunWriteCbRefines ==
  ASSUME IInv, IInv', StreamsKept, NEW s \in Sides, RunWriteCb(s)
  PROVE  Refined
  <1>. DEFINE b == Clear(s, {"write"})
              p == Partner(s)
  <1>1. Alive /\ UNCHANGED <<net, sent, fin, got>>
    BY DEF RunWriteCb, Due, streams
  <1>2. phase # "closed"
    BY <1>1 DEF Alive
  <1>3. /\ bev \in Bevs /\ got \in Streams /\ net \in Streams
        /\ \A r \in Sides : Flow(bev, got, net, r) = sent[r]
    BY <1>2, KeptIs, Zenon
  <1>4. SameBufs(bev, b) /\ b \in Bevs
    BY <1>3, ClearKeeps, Zenon
  <1>5. CASE /\ bev' = drained_write_cb(b, s) /\ UNCHANGED <<phase, objs, refs, ending>>
    <2>1. SameBufs(bev, bev')
      <3>. HIDE DEF b
      <3>. QED BY <1>4, <1>5, DrainedKeeps, KeepTwice, Zenon
    <2>2. UNCHANGED <<phase, end, lost>>
      BY <1>5 DEF ending
    <2>. QED BY <1>1, <1>2, <2>1, <2>2, StaysPut, Zenon DEF Refined
  <1>6. CASE bev[s].writecb = "close_on_finished_write_cb" /\ close_on_finished_write_cb(s)
    <2>1. CASE bev[s].out # <<>>
      <3>1. SameBufs(bev, bev') /\ UNCHANGED <<phase, end, lost>>
        BY <1>4, <1>6, <2>1, Zenon DEF close_on_finished_write_cb, ending
      <3>. QED BY <1>1, <1>2, <3>1, StaysPut, Zenon DEF Refined
    <2>2. CASE bev[s].out = <<>>
      <3>1. StateCleanup(bev, objs, refs, "clean")
        BY <1>6, <2>2, Zenon DEF close_on_finished_write_cb
      <3>2. p \in Sides /\ Partner(p) = s
        BY SideFacts, Zenon
      <3>3. fin[p] /\ bev[p].in = <<>> /\ net[p] = <<>>
        BY <1>6, Zenon DEF IInv, FinishFinal
      <3>. HIDE DEF p
      <3>4. To(bev, got, Partner(p)) = Flow(bev, got, net, p)
        BY <1>3, <2>2, <3>2, <3>3, AllHanded, Zenon
      <3>5. To(bev, got, Partner(p)) = sent[p] /\ To(bev, got, p) = To(bev, got, p)
        BY <1>3, <3>2, <3>4, Zenon
      <3>. QED BY <1>1, <1>2, <1>3, <3>1, <3>2, <3>3, <3>5, Ends, ZenonT(60) DEF Refined
    <2>. QED BY <2>1, <2>2
  <1>. QED BY <1>5, <1>6, Zenon DEF RunWriteCb

\* event_cb for an end of file or an error.
LEMMA RunEventCbRefines ==
  ASSUME IInv, IInv', StreamsKept, NEW s \in Sides, RunEventCb(s)
  PROVE  Refined
  <1>. DEFINE a == Clear(s, {"eof", "error"})
              p == Partner(s)
  <1>1. Alive /\ UNCHANGED <<net, sent, fin, got>>
    BY DEF RunEventCb, Due, streams
  <1>2. phase # "closed"
    BY <1>1 DEF Alive
  <1>3. /\ bev \in Bevs /\ got \in Streams /\ net \in Streams
        /\ \A r \in Sides : Flow(bev, got, net, r) = sent[r]
    BY <1>2, KeptIs, Zenon
  <1>4. SameBufs(bev, a) /\ a \in Bevs
    BY <1>3, ClearKeeps, Zenon
  <1>5. p \in Sides /\ Partner(p) = s
    BY SideFacts, Zenon
  <1>6. CASE OnError(s)
    <2>1. StateCleanup(bev, objs, refs, "failed")
      BY <1>6 DEF OnError
    <2>. QED BY <1>1, <1>2, <1>3, <2>1, Ends, Zenon DEF Refined
  <1>7. CASE Due(s, "eof") /\ OnEof(s)
    <2>1. PICK b \in AfterFlush(a, s) :
            IF b[p].out # <<>>
              THEN bev' = CloseWhenWritten(b, p) /\ UNCHANGED <<phase, objs, refs, ending>>
              ELSE StateCleanup(b, objs, refs, "clean")
      BY <1>7, Zenon DEF OnEof
    <2>2. fin[s] /\ net[s] = <<>>
      BY <1>7, Zenon DEF IInv, FinishFinal, Due
    <2>. HIDE DEF a
    <2>3. b \in Bevs /\ b[s].in = <<>> /\ Onward(a, got, b, got, net, p)
      <3>1. CASE a[s].in # <<>>
        BY <1>3, <1>4, <2>1, <3>1, ReadCbFlow, Zenon DEF AfterFlush
      <3>2. CASE a[s].in = <<>>
        <4>1. b = a
          BY <2>1, <3>2, Zenon DEF AfterFlush
        <4>2. Len(To(a, got, p)) \in Nat
          BY <1>3, <1>4, <1>5, FlowTypes, CatFacts, Zenon
        <4>3. Len(To(a, got, p)) <= Len(To(a, got, p))
          BY <4>2
        <4>. QED BY <1>4, <3>2, <4>1, <4>3, Zenon DEF Onward
      <3>. QED BY <3>1, <3>2, Zenon
    <2>4. CASE b[p].out # <<>>
      <3>1. bev' = CloseWhenWritten(b, p) /\ UNCHANGED <<phase, end, lost>>
        BY <2>1, <2>4, Zenon DEF ending
      <3>2. SameBufs(b, bev')
        BY <2>3, <3>1, ClosingKeeps, Zenon
      <3>. HIDE DEF p
      <3>3. Onward(bev, got, bev', got, net, p)
        BY <1>4, <1>5, <2>3, <3>2, OnwardKeeps, Zenon
      <3>4. Onward(bev, got, bev', got', net, p)
        BY <1>1, <3>3, Zenon
      <3>. QED BY <1>1, <1>2, <1>5, <3>1, <3>4, GoesOnward, Zenon DEF Refined
    <2>5. CASE b[p].out = <<>>
      <3>1. StateCleanup(b, objs, refs, "clean")
        BY <2>1, <2>5, Zenon
      <3>2. To(b, got, Partner(s)) = Flow(b, got, net, s)
        BY <1>3, <2>2, <2>3, <2>5, AllHanded, Zenon
      <3>3. Onward(bev, got, b, got, net, p)
        <4>. HIDE DEF p
        <4>. QED BY <1>4, <1>5, <2>3, SameBufsSelf, OnwardKeeps, Zenon
      <3>4. Flow(b, got, net, s) = sent[s] /\ To(b, got, s) = To(bev, got, s)
        BY <1>3, <1>5, <3>3, Zenon DEF Onward
      <3>5. To(b, got, Partner(s)) = sent[s]
        BY <3>2, <3>4, Zenon
      <3>. QED BY <1>1, <1>2, <2>2, <2>3, <3>1, <3>4, <3>5, Ends, ZenonT(60) DEF Refined
    <2>. QED BY <2>4, <2>5
  <1>. QED BY <1>6, <1>7, Zenon DEF RunEventCb

\* The steps of libevent that leave the buffers alone.
LEMMA QuietRefines ==
  ASSUME IInv, IInv', StreamsKept,
         \/ Connected \/ OnConnected
         \/ \E s \in Sides : ReadEof(s) \/ SocketError(s)
  PROVE  Refined
  <1>1. phase # "closed" /\ phase' # "closed" /\ UNCHANGED <<sent, fin, end, lost, net, got>>
    BY Zenon DEF Connected, OnConnected, ReadEof, SocketError, Usable, Due, Alive,
       streams, ending
  <1>2. bev \in Bevs
    BY <1>1, KeptIs, Zenon
  <1>3. "local" \in Sides /\ "remote" \in Sides
    BY DEF Sides
  <1>4. CASE Connected
    <2>. DEFINE x == PutPend(bev["remote"], bev["remote"].pend \cup {"connected"})
    <2>1. bev' = [bev EXCEPT !["remote"] = x]
      BY <1>4, Zenon DEF Connected, PutPend
    <2>2. SameBuf(x, bev["remote"])
      BY <1>2, <1>3, SideFacts, PutsKeep, Zenon
    <2>. HIDE DEF x
    <2>3. SameBufs(bev, bev')
      BY <1>2, <1>3, <2>1, <2>2, OneSide, Zenon
    <2>. QED BY <1>1, <2>3, StaysPut, Zenon DEF Refined
  <1>5. ASSUME NEW s \in Sides, ReadEof(s) PROVE Refined
    <2>. DEFINE x == PutOff(bev[s], bev[s].pend \cup {"eof"})
    <2>1. bev' = [bev EXCEPT ![s] = x]
      BY <1>5, Zenon DEF ReadEof, PutOff
    <2>2. SameBuf(x, bev[s])
      BY <1>2, SideFacts, PutsKeep, Zenon
    <2>. HIDE DEF x
    <2>3. SameBufs(bev, bev')
      BY <1>2, <2>1, <2>2, OneSide, Zenon
    <2>. QED BY <1>1, <2>3, StaysPut, Zenon DEF Refined
  <1>6. ASSUME NEW s \in Sides, SocketError(s) PROVE Refined
    <2>. DEFINE x == PutDead(bev[s], bev[s].pend \cup {"error"})
    <2>1. bev' = [bev EXCEPT ![s] = x]
      BY <1>6, Zenon DEF SocketError, PutDead
    <2>2. SameBuf(x, bev[s])
      BY <1>2, SideFacts, PutsKeep, ZenonT(60)
    <2>. HIDE DEF x
    <2>3. SameBufs(bev, bev')
      BY <1>2, <2>1, <2>2, OneSide, Zenon
    <2>. QED BY <1>1, <2>3, StaysPut, Zenon DEF Refined
  <1>7. CASE OnConnected
    <2>. DEFINE b == Clear("remote", {"connected"})
                x == PutOn(b["local"], TRUE)
                y == PutOn(b["remote"], TRUE)
    <2>1. bev' = [b EXCEPT !["local"].on = TRUE, !["remote"].on = TRUE]
      BY <1>7 DEF OnConnected
    <2>2. SameBufs(bev, b) /\ b \in Bevs
      BY <1>2, <1>3, ClearKeeps, Zenon
    <2>. HIDE DEF b
    <2>3. bev' = [b EXCEPT !["local"] = x, !["remote"] = y]
      BY <2>1, <2>2, <1>3, SMTT(40) DEF Bevs, PutOn
    <2>4. SameBuf(x, b["local"]) /\ SameBuf(y, b["remote"])
      BY <1>3, <2>2, SideFacts, PutsKeep, Zenon
    <2>. HIDE DEF x, y
    <2>5. SameBufs(b, bev')
      BY <2>2, <2>3, <2>4, BothSides, Zenon
    <2>6. SameBufs(bev, bev')
      BY <2>2, <2>5, KeepTwice, Zenon
    <2>. QED BY <1>1, <2>6, StaysPut, Zenon DEF Refined
  <1>. QED BY <1>4, <1>5, <1>6, <1>7, Zenon

\* Bytes go to the browser, or through the SSL filter.
LEMMA WriteRefines ==
  ASSUME IInv, IInv', StreamsKept, WriteLocal \/ Encrypt
  PROVE  Refined
  <1>1. phase # "closed" /\ phase' # "closed" /\ UNCHANGED <<sent, fin, end, lost, net>>
    BY DEF WriteLocal, Encrypt, Usable, Alive, streams, ending
  <1>2. bev \in Bevs /\ got \in Streams /\ net \in Streams
    BY <1>1, KeptIs, Zenon
  <1>3. /\ "local" \in Sides /\ "remote" \in Sides
        /\ Partner("local") = "remote" /\ Partner("remote") = "local"
    BY DEF Sides, Partner
  <1>4. CASE WriteLocal
    <2>1. PICK k \in 1..Len(bev["local"].out) :
            /\ bev' = Written(bev, "local", k)
            /\ got' = [got EXCEPT !["local"] = @ \o SubSeq(bev["local"].out, 1, k)]
      BY <1>4, Zenon DEF WriteLocal
    <2>2. WroteBytes(bev, bev', "local", k)
      BY <1>2, <1>3, <2>1, WrittenBytes, Zenon
    <2>3. /\ got'["local"] = got["local"] \o SubSeq(bev["local"].out, 1, k)
          /\ got'["remote"] = got["remote"]
      BY <1>2, <1>3, <2>1, Zenon DEF Streams
    <2>4. Wrote(bev, got, bev', got', "local", k)
      <3>1. "local" # "remote"
        OBVIOUS
      <3>. QED BY <1>3, <2>2, <2>3, <3>1, Zenon DEF WroteBytes, Wrote, To
    <2>5. Onward(bev, got, bev', got', net, "local")
      BY <1>2, <1>3, <2>4, WroteFlow, Zenon
    <2>. QED BY <1>1, <1>3, <2>5, GoesOnward, Zenon DEF Refined
  <1>5. CASE Encrypt
    <2>1. PICK k \in 1..Len(bev["remote"].out) : bev' = Written(bev, "remote", k)
      BY <1>5, Zenon DEF Encrypt
    <2>2. got' = got
      BY <1>5 DEF Encrypt
    <2>3. WroteBytes(bev, bev', "remote", k)
      BY <1>2, <1>3, <2>1, WrittenBytes, Zenon
    <2>4. Onward(bev, got, bev', got, net, "remote")
      BY <1>2, <2>3, FilterFlow, Zenon
    <2>5. Onward(bev, got, bev', got', net, "remote")
      BY <2>2, <2>4, Zenon
    <2>. QED BY <1>1, <1>3, <2>5, GoesOnward, Zenon DEF Refined
  <1>. QED BY <1>4, <1>5

\* Bytes leave remotetcp: the filter had taken them before.
LEMMA WriteRemotetcpRefines ==
  ASSUME IInv, IInv', StreamsKept, WriteRemotetcp
  PROVE  Refined
  <1>1. phase # "closed" /\ phase' # "closed" /\ UNCHANGED <<sent, fin, end, lost, net>>
    BY DEF WriteRemotetcp, Usable, Alive, streams, ending
  <1>2. bev \in Bevs /\ got \in Streams /\ net \in Streams
    BY <1>1, KeptIs, Zenon
  <1>3. /\ "local" \in Sides /\ "remote" \in Sides /\ "local" # "remote"
        /\ Partner("local") = "remote" /\ Partner("remote") = "local"
        /\ \A r \in Sides : r = "local" \/ r = "remote"
    BY DEF Sides, Partner
  <1>4. PICK k \in 1..Len(bev["remote"].tcp) :
          /\ bev' = [bev EXCEPT !["remote"].tcp = SubSeq(@, k + 1, Len(@))]
          /\ got' = [got EXCEPT !["remote"] = @ \o SubSeq(bev["remote"].tcp, 1, k)]
    BY Zenon DEF WriteRemotetcp
  <1>. DEFINE t == SubSeq(bev["remote"].tcp, k + 1, Len(bev["remote"].tcp))
              f == SubSeq(bev["remote"].tcp, 1, k)
              x == PutTcp(bev["remote"], t)
  <1>5. bev' = [bev EXCEPT !["remote"] = x] /\ got' = [got EXCEPT !["remote"] = @ \o f]
    BY <1>4, Zenon DEF PutTcp
  <1>6. bev["remote"] \in Bev /\ bev["remote"].tcp \in Bytes /\ got["remote"] \in Bytes
    BY <1>2, <1>3, FlowTypes, Zenon
  <1>7. t \in Bytes /\ f \in Bytes /\ f \o t = bev["remote"].tcp
    BY <1>6, CutFacts, Zenon
  <1>. HIDE DEF t, f
  <1>8. x.tcp = t /\ x.in = bev["remote"].in /\ x.out = bev["remote"].out
    BY <1>6, Zenon DEF PutTcp, Bev
  <1>. HIDE DEF x
  <1>9. /\ bev'["remote"] = x /\ bev'["local"] = bev["local"]
        /\ got'["remote"] = got["remote"] \o f /\ got'["local"] = got["local"]
    BY <1>2, <1>3, <1>5 DEF Bevs, Streams
  <1>10. Assoc(got["remote"], f, t)
    BY <1>6, <1>7, CatAssoc, Zenon
  <1>11. To(bev', got', "remote") = To(bev, got, "remote")
    BY <1>7, <1>8, <1>9, <1>10, Zenon DEF To, Assoc
  <1>12. To(bev', got', "local") = To(bev, got, "local")
    BY <1>3, <1>9, Zenon DEF To
  <1>13. \A r \in Sides : Flow(bev', got', net, r) = Flow(bev, got, net, r)
    BY <1>3, <1>8, <1>9, <1>11, <1>12, Zenon DEF Flow
  <1>14. Len(To(bev, got, "remote")) \in Nat
    BY <1>2, <1>3, FlowTypes, CatFacts, Zenon
  <1>15. Len(To(bev, got, "remote")) <= Len(To(bev', got', "remote"))
    BY <1>11, <1>14
  <1>16. Onward(bev, got, bev', got', net, "remote")
    BY <1>3, <1>12, <1>13, <1>15, Zenon DEF Onward
  <1>. QED BY <1>1, <1>3, <1>16, GoesOnward, Zenon DEF Refined

\* Input arrives.
LEMMA ReadSocketRefines ==
  ASSUME IInv, IInv', StreamsKept, NEW s \in Sides, ReadSocket(s)
  PROVE  Refined
  <1>1. phase # "closed" /\ phase' # "closed" /\ UNCHANGED <<sent, fin, end, lost, got>>
    BY DEF ReadSocket, Usable, Alive, streams, ending
  <1>2. bev \in Bevs /\ got \in Streams /\ net \in Streams
    BY <1>1, KeptIs, Zenon
  <1>. DEFINE p == Partner(s)
  <1>3. p \in Sides /\ p # s /\ Partner(p) = s /\ \A r \in Sides : r = s \/ r = p
    BY SideFacts, Zenon
  <1>4. PICK k \in 1..Len(net[s]) :
          /\ bev' = [bev EXCEPT ![s].in = @ \o SubSeq(net[s], 1, k),
                                ![s].pend = IF bev[s].readcb # "none"
                                              THEN @ \cup {"read"} ELSE @]
          /\ net' = [net EXCEPT ![s] = SubSeq(@, k + 1, Len(@))]
    BY Zenon DEF ReadSocket
  <1>. DEFINE i == bev[s].in \o SubSeq(net[s], 1, k)
              m == IF bev[s].readcb # "none" THEN bev[s].pend \cup {"read"} ELSE bev[s].pend
              x == PutRead(bev[s], i, m)
  <1>5. bev' = [bev EXCEPT ![s] = x]
    BY <1>4, Zenon DEF PutRead
  <1>6. /\ bev[s] \in Bev /\ bev[s].in \in Bytes /\ net[s] \in Bytes
        /\ bev[p].out \in Bytes /\ To(bev, got, p) \in Bytes
    BY <1>2, <1>3, FlowTypes, Zenon
  <1>7. x.in = i /\ x.out = bev[s].out /\ x.tcp = bev[s].tcp
    <2>. HIDE DEF i, m
    <2>. QED BY <1>6, Zenon DEF PutRead, Bev
  <1>8. /\ bev'[s] = x /\ bev'[p] = bev[p]
        /\ net'[s] = SubSeq(net[s], k + 1, Len(net[s])) /\ net'[p] = net[p]
    <2>. HIDE DEF x
    <2>. QED BY <1>2, <1>3, <1>4, <1>5, Zenon DEF Bevs, Streams
  <1>. HIDE DEF x, m
  <1>9. \A r \in Sides : To(bev', got', r) = To(bev, got, r)
    BY <1>1, <1>3, <1>7, <1>8, Zenon DEF To
  <1>10. ReadKeeps(To(bev, got, p), bev[p].out, bev[s].in, net[s], k)
    BY <1>6, LineRead, Zenon
  <1>11. Flow(bev', got', net', s) = Flow(bev, got, net, s)
    BY <1>3, <1>7, <1>8, <1>9, <1>10, Zenon DEF Flow, ReadKeeps
  <1>12. Flow(bev', got', net', p) = Flow(bev, got, net, p)
    BY <1>3, <1>7, <1>8, <1>9, Zenon DEF Flow
  <1>13. Len(To(bev, got, p)) \in Nat
    BY <1>6, CatFacts, Zenon
  <1>14. Len(To(bev, got, p)) <= Len(To(bev', got', p))
    BY <1>3, <1>9, <1>13
  <1>15. \A r \in Sides : Flow(bev', got', net', r) = Flow(bev, got, net, r)
    BY <1>3, <1>11, <1>12, Zenon
  <1>. QED BY <1>1, <1>3, <1>9, <1>14, <1>15, GoesOn, ZenonT(60) DEF Refined

\* A peer sends, or ends its stream.
LEMMA PeerRefines ==
  ASSUME IInv, IInv', StreamsKept, NEW s \in Sides, PeerSends(s) \/ PeerEnds(s)
  PROVE  Refined
  <1>1. phase # "closed" /\ UNCHANGED <<phase, end, lost, got, bev>>
    BY DEF PeerSends, PeerEnds, ending
  <1>2. /\ bev \in Bevs /\ got \in Streams /\ net \in Streams /\ sent \in Streams
        /\ end = "no" /\ lost = <<>> /\ handed = Handed(bev, got)
        /\ \A r \in Sides : Flow(bev, got, net, r) = sent[r]
    BY <1>1, KeptIs, Zenon
  <1>. DEFINE p == Partner(s)
  <1>3. p \in Sides /\ p # s /\ Partner(p) = s /\ \A r \in Sides : r = s \/ r = p
    BY SideFacts, Zenon
  <1>4. R!Sides = Sides
    BY DEF R!Sides, Sides
  <1>5. handed' = handed
    BY <1>1, Zenon DEF handed
  <1>6. CASE PeerEnds(s)
    <2>1. ~fin[s] /\ fin' = [fin EXCEPT ![s] = TRUE] /\ UNCHANGED <<net, sent>>
      BY <1>6 DEF PeerEnds
    <2>2. \A r \in Sides : Flow(bev', got', net', r) = sent'[r]
      BY <1>1, <1>2, <2>1, Zenon
    <2>3. StreamsKept'
      BY <1>1, <1>2, <2>2, KeptNext, Zenon
    <2>4. R!EndStream(s)
      BY <1>1, <1>5, <2>1, Zenon DEF R!EndStream
    <2>. QED BY <1>4, <2>3, <2>4, Zenon DEF Refined, RelayNext, R!Next
  <1>7. CASE PeerSends(s)
    <2>. DEFINE v == Len(sent[s]) + 1
    <2>1. /\ ~fin[s] /\ UNCHANGED fin
          /\ sent' = [sent EXCEPT ![s] = Append(@, Len(@) + 1)]
          /\ net' = [net EXCEPT ![s] = Append(@, v)]
      BY <1>7, Zenon DEF PeerSends
    <2>2. /\ bev[s].in \in Bytes /\ net[s] \in Bytes /\ sent[s] \in Bytes
          /\ bev[p].out \in Bytes /\ To(bev, got, p) \in Bytes
      BY <1>2, <1>3, FlowTypes, Zenon DEF Streams
    <2>3. v \in Nat
      BY <2>2 DEF Bytes
    <2>. HIDE DEF v
    <2>4. /\ sent'[s] = Append(sent[s], v) /\ sent'[p] = sent[p]
          /\ net'[s] = Append(net[s], v) /\ net'[p] = net[p]
      BY <1>2, <1>3, <2>1, Zenon DEF Streams, v
    <2>5. SendKeeps(To(bev, got, p), bev[p].out, bev[s].in, net[s], v)
      BY <2>2, <2>3, LineSend, Zenon
    <2>6. Flow(bev, got, net', s) = sent'[s]
      BY <1>2, <2>4, <2>5, Zenon DEF Flow, SendKeeps
    <2>7. Flow(bev, got, net', p) = sent'[p]
      <3>1. Flow(bev, got, net', p) = Flow(bev, got, net, p)
        BY <1>3, <2>4, Zenon DEF Flow
      <3>. QED BY <1>2, <1>3, <2>4, <3>1, Zenon
    <2>8. \A r \in Sides : Flow(bev', got', net', r) = sent'[r]
      BY <1>1, <1>3, <2>6, <2>7, ZenonT(60)
    <2>9. StreamsKept'
      BY <1>1, <1>2, <2>8, KeptNext, Zenon
    <2>10. R!Send(s)
      BY <1>1, <1>5, <2>1, Zenon DEF R!Send
    <2>. QED BY <1>4, <2>9, <2>10, Zenon DEF Refined, RelayNext, R!Next
  <1>. QED BY <1>6, <1>7

\* proxy_accept_cb and proxy_notblocked_getaddrinfo_cb.
LEMMA OpeningRefines ==
  ASSUME IInv, IInv', StreamsKept, proxy_accept_cb \/ proxy_notblocked_getaddrinfo_cb
  PROVE  Refined
  <1>1. phase # "closed" /\ UNCHANGED <<net, sent, fin, got>>
    BY DEF proxy_accept_cb, proxy_notblocked_getaddrinfo_cb, streams
  <1>2. bev \in Bevs
    BY <1>1, KeptIs, Zenon
  <1>3. ASSUME NEW o, NEW r, StateCleanup(bev, o, r, "failed") PROVE Refined
    BY <1>1, <1>2, <1>3, Ends, Zenon DEF Refined
  <1>4. ASSUME NEW q, NEW o, NEW r, Proceed(q, o, r), q # "closed", SameBufs(bev, bev') PROVE Refined
    <2>1. phase' # "closed" /\ UNCHANGED <<end, lost>>
      BY <1>4 DEF Proceed, ending
    <2>. QED BY <1>1, <1>4, <2>1, StaysPut, Zenon DEF Refined
  <1>5. ASSUME bev' = [bev EXCEPT !["local"].readcb = "read_cb", !["remote"].readcb = "read_cb"]
        PROVE  SameBufs(bev, bev')
    <2>. DEFINE x == PutReadCb(bev["local"])
                y == PutReadCb(bev["remote"])
    <2>1. bev' = [bev EXCEPT !["local"] = x, !["remote"] = y]
      BY <1>2, <1>5, SMTT(40) DEF Bevs, Sides, PutReadCb
    <2>2. bev["local"] \in Bev /\ bev["remote"] \in Bev
      BY <1>2 DEF Bevs, Sides
    <2>3. SameBuf(x, bev["local"]) /\ SameBuf(y, bev["remote"])
      BY <2>2, PutsKeep, Zenon
    <2>. HIDE DEF x, y
    <2>. QED BY <1>2, <2>1, <2>3, BothSides, Zenon
  <1>6. "resolving" # "closed" /\ "handshake" # "closed"
    OBVIOUS
  <1>7. CASE proxy_accept_cb
    <2>1. UNCHANGED bev => SameBufs(bev, bev')
      BY SameBufsSelf, Zenon
    <2>. QED BY <1>3, <1>4, <1>6, <1>7, <2>1, Zenon DEF proxy_accept_cb
  <1>8. CASE proxy_notblocked_getaddrinfo_cb
    BY <1>3, <1>4, <1>5, <1>6, <1>8, Zenon DEF proxy_notblocked_getaddrinfo_cb
  <1>. QED BY <1>7, <1>8

\* Every step of a tunnel is one of Relay, or leaves what Relay sees alone.
LEMMA NextRefines == IInv /\ IInv' /\ StreamsKept /\ [Next]_vars => StreamsKept' /\ RelayNext
  <1>. SUFFICES ASSUME IInv, IInv', StreamsKept, [Next]_vars PROVE Refined
    BY Zenon DEF Refined
  <1>1. CASE UNCHANGED vars
    <2>1. UNCHANGED <<phase, bev, net, sent, fin, got, end, lost>>
      BY <1>1 DEF vars
    <2>2. handed' = handed
      BY <2>1, Zenon DEF handed
    <2>3. \A s \in Sides : Carried(s)' = Carried(s)
      BY <2>1, <2>2, Zenon DEF Carried
    <2>4. StreamsKept'
      BY <2>1, <2>3, Zenon DEF StreamsKept
    <2>. QED BY <2>1, <2>2, <2>4, Zenon DEF Refined, RelayNext
  <1>. QED BY <1>1, OpeningRefines, QuietRefines, WriteRefines, WriteRemotetcpRefines,
              RunReadCbRefines,
              RunWriteCbRefines, RunEventCbRefines, ReadSocketRefines, PeerRefines, ZenonT(60) DEF Next

\* The streams at the start.
LEMMA InitRefines == Init => StreamsKept /\ R!Init
  <1>. SUFFICES ASSUME Init PROVE StreamsKept /\ R!Init
    OBVIOUS
  <1>. DEFINE none == [s \in Sides |-> <<>>]
  <1>1. /\ phase = "none" /\ end = "no" /\ lost = <<>> /\ net = none /\ sent = none /\ got = none
        /\ fin = [s \in Sides |-> FALSE] /\ \A s \in Sides : bev[s] = NewBev
    BY DEF Init
  <1>2. NewBev.tcp = <<>> /\ NewBev.in = <<>> /\ NewBev.out = <<>>
    BY DEF NewBev
  <1>3. <<>> \o <<>> = <<>> /\ "remote" \in Sides
    BY DEF Sides
  <1>4. (<<>> \o <<>>) \o <<>> = <<>> /\ ((<<>> \o <<>>) \o <<>>) \o <<>> = <<>>
    BY <1>3, Zenon
  <1>5. bev["remote"].tcp = <<>> /\ none["remote"] = <<>>
    BY <1>1, <1>2, <1>3, Zenon
  <1>6. handed = none
    <2>1. handed = [got EXCEPT !["remote"] = (@ \o bev["remote"].tcp) \o lost]
      BY Zenon DEF handed
    <2>2. handed = [none EXCEPT !["remote"] = <<>>]
      BY <1>1, <1>4, <1>5, <2>1, Zenon
    <2>. QED BY <2>2
  <1>7. \A s \in Sides : Carried(s) = sent[s]
    BY <1>1, <1>2, <1>4, <1>6, SideFacts, ZenonT(60) DEF Carried
  <1>8. StreamsKept
    BY <1>1, <1>7 DEF StreamsKept
  <1>9. R!Init
    BY <1>1, <1>6, Zenon DEF R!Init, R!Sides, Sides
  <1>. QED BY <1>8, <1>9

\* What a side sends is at every time handed on, buffered and unread, in this
\* order: proxy.c loses, repeats and reorders nothing while the tunnel lasts.
THEOREM StreamsKeptHolds == Spec => []StreamsKept
  BY InitRefines, NextRefines, TunnelInvariance, PTL DEF Spec

\* The tunnel keeps the promise of Relay.
THEOREM RelayImplementedHolds == Spec => RelayImplemented
  <1>1. RelayNext <=> [R!Next]_<<sent, fin, handed, end>>
    BY DEF RelayNext
  <1>. QED BY <1>1, InitRefines, NextRefines, TunnelInvariance, StreamsKeptHolds, PTL
           DEF Spec, RelayImplemented, R!Spec

=============================================================================
