-------------------------- MODULE ArithmeticProofs --------------------------
(***************************************************************************)
(* Proofs about what the station computes: the statistics of httpd.c, for  *)
(* logs, tables and columns of any length, and the checksum of telex_tcp.c *)
(* for every word size.                                                    *)
(*                                                                         *)
(* Statistics.  Recursive functions are reasoned about with sets: a set    *)
(* that has 0 and with a number the next has all (SetInduction, from the   *)
(* well-founded order of the numbers).  It shows that a recursion has a    *)
(* solution (Recursion) and what a sum is (SumIs).  SInv is inductive:     *)
(* the counter counts, each line of the log goes on from the one before,   *)
(* and each row of a chart is a line of the log on the present columns.    *)
(* RowAligned, the invariant of the two loops of httpd_log_fmt_port, then  *)
(* gives the layout of a row.                                              *)
(*                                                                         *)
(* Checksum.  The loop keeps sum and reference equal modulo Base - 1; a    *)
(* fold takes a multiple of Base - 1 away; and two words that are equal    *)
(* modulo Base - 1 and zero together only are the same.                    *)
(***************************************************************************)
EXTENDS Stats, Checksum, FiniteSetTheorems, TLAPS

-----------------------------------------------------------------------------
(* Induction.                                                              *)

\* Every set of numbers that is not empty has a least one.
LEMMA Least ==
  ASSUME NEW T \in SUBSET Nat, T # {}
  PROVE  \E x \in T : \A y \in T : x <= y
  <1>. DEFINE R == OpToRel(<, Nat)
  <1>1. IsWellFoundedOn(R, Nat)
    BY NatLessThanWellFounded, Zenon
  <1>2. \A x, y \in Nat : y < x => <<y, x>> \in R
    BY DEF OpToRel
  <1>. HIDE DEF R
  <1>3. \E x \in T : \A y \in T : ~ (<<y, x>> \in R)
    BY <1>1, WFMin, Zenon
  <1>4. PICK x \in T : \A y \in T : ~ (<<y, x>> \in R)
    BY <1>3
  <1>5. ASSUME NEW y \in T PROVE x <= y
    <2>1. ~ (y < x)
      BY <1>2, <1>4, Zenon
    <2>. QED BY <2>1
  <1>. QED BY <1>5

\* A set with 0 that has the next of each of its numbers has all.
LEMMA SetInduction ==
  ASSUME NEW T \in SUBSET Nat, 0 \in T, \A n \in T : n + 1 \in T
  PROVE  T = Nat
  <1>1. SUFFICES ASSUME Nat \ T # {} PROVE FALSE
    BY Zenon
  <1>2. PICK x \in Nat \ T : \A y \in Nat \ T : x <= y
    BY <1>1, Least, Zenon
  <1>3. x # 0 /\ x - 1 \in Nat
    BY <1>2
  <1>4. x - 1 \in T
    BY <1>2, <1>3
  <1>5. (x - 1) + 1 \in T
    BY <1>4
  <1>. QED BY <1>5, <1>2

\* What holds at 0 and with each number below N of the next holds up to N.
LEMMA UpTo ==
  ASSUME NEW N \in Nat, NEW T, 0 \in T, \A n \in 0..(N - 1) : n \in T => n + 1 \in T
  PROVE  0..N \subseteq T
  <1>. DEFINE U == {n \in Nat : n <= N => n \in T}
  <1>1. 0 \in U
    OBVIOUS
  <1>2. ASSUME NEW n \in U PROVE n + 1 \in U
    OBVIOUS
  <1>3. U = Nat
    <2>. HIDE DEF U
    <2>1. U \in SUBSET Nat
      BY DEF U
    <2>. QED BY <1>1, <1>2, <2>1, SetInduction
  <1>. QED BY <1>3

Follows(f, z, N, G) == f[0] = z /\ \A k \in 1..N : f[k] = G[k][f[k - 1]]

\* A function defined by what it is at 0 and by a step from each number to the
\* next exists.
LEMMA Recursion ==
  ASSUME NEW S, NEW z \in S, NEW N \in Nat, NEW G \in [1..N -> [S -> S]]
  PROVE  \E f \in [0..N -> S] : Follows(f, z, N, G)
  <1>. DEFINE T == {n \in Nat : \E f \in [0..n -> S] : f[0] = z /\ \A k \in 1..n : f[k] = G[k][f[k - 1]]}
  <1>1. 0 \in T
    <2>. DEFINE f == [k \in 0..0 |-> z]
    <2>1. f \in [0..0 -> S] /\ f[0] = z /\ \A k \in 1..0 : f[k] = G[k][f[k - 1]]
      OBVIOUS
    <2>. QED BY <2>1, Zenon
  <1>2. ASSUME NEW n \in 0..(N - 1), n \in T PROVE n + 1 \in T
    <2>1. PICK f \in [0..n -> S] : f[0] = z /\ \A k \in 1..n : f[k] = G[k][f[k - 1]]
      BY <1>2
    <2>. DEFINE g == [k \in 0..(n + 1) |-> IF k <= n THEN f[k] ELSE G[k][f[k - 1]]]
    <2>2. f[n] \in S /\ G[n + 1] \in [S -> S]
      BY <2>1
    <2>3. G[n + 1][f[n]] \in S
      BY <2>2
    <2>4. g \in [0..(n + 1) -> S]
      BY <2>1, <2>3
    <2>5. g[0] = z
      BY <2>1
    <2>6. ASSUME NEW k \in 1..(n + 1) PROVE g[k] = G[k][g[k - 1]]
      <3>1. g[k - 1] = f[k - 1]
        OBVIOUS
      <3>2. CASE k <= n
        BY <2>1, <3>1, <3>2
      <3>3. CASE k = n + 1
        BY <3>1, <3>3
      <3>. QED BY <3>2, <3>3
    <2>. HIDE DEF g
    <2>7. n + 1 \in Nat
      OBVIOUS
    <2>. QED BY <2>4, <2>5, <2>6, <2>7
  <1>. HIDE DEF T
  <1>3. N \in T
    <2>1. \A n \in 0..(N - 1) : n \in T => n + 1 \in T
      BY <1>2
    <2>2. 0..N \subseteq T
      BY <1>1, <2>1, UpTo, Zenon
    <2>. QED BY <2>2
  <1>. QED BY <1>3 DEF T, Follows

-----------------------------------------------------------------------------
(* Sums and sorting.                                                       *)

\* A function that starts from 0 and grows by the elements of a sequence ends
\* with their sum.
LEMMA SumIs ==
  ASSUME NEW s \in Seq(Int), NEW g \in [0..Len(s) -> Int],
         g[0] = 0, \A i \in 1..Len(s) : g[i] = g[i - 1] + s[i]
  PROVE  SumOf(s) = g[Len(s)]
  <1>. DEFINE f == CHOOSE f : f = [i \in 0..Len(s) |-> IF i = 0 THEN 0 ELSE f[i - 1] + s[i]]
  <1>1. g = [i \in 0..Len(s) |-> IF i = 0 THEN 0 ELSE g[i - 1] + s[i]]
    OBVIOUS
  <1>2. f = [i \in 0..Len(s) |-> IF i = 0 THEN 0 ELSE f[i - 1] + s[i]]
    BY <1>1, Zenon
  <1>3. SumOf(s) = f[Len(s)]
    BY Zenon DEF SumOf
  <1>. HIDE DEF f
  <1>. DEFINE T == {n \in Nat : f[n] = g[n]}
  <1>4. 0 \in T
    BY <1>2
  <1>5. ASSUME NEW n \in 0..(Len(s) - 1), n \in T PROVE n + 1 \in T
    BY <1>2, <1>5
  <1>6. Len(s) \in Nat
    OBVIOUS
  <1>. HIDE DEF T
  <1>7. Len(s) \in T
    <2>1. \A n \in 0..(Len(s) - 1) : n \in T => n + 1 \in T
      BY <1>5
    <2>2. 0..Len(s) \subseteq T
      BY <1>4, <1>6, <2>1, UpTo, Zenon
    <2>. QED BY <1>6, <2>2
  <1>. QED BY <1>3, <1>7 DEF T

\* qsort returns the elements of a finite set of numbers in ascending order.
LEMMA QsortIs ==
  ASSUME NEW S \in SUBSET Int, IsFiniteSet(S)
  PROVE  /\ Cardinality(S) \in Nat /\ qsort(S) \in [1..Cardinality(S) -> S]
         /\ \A i, j \in 1..Cardinality(S) : i < j => qsort(S)[i] < qsort(S)[j]
         /\ \A p \in S : \E i \in 1..Cardinality(S) : qsort(S)[i] = p
  <1>. DEFINE n == Cardinality(S)
              below(p) == {q \in S : q <= p}
              rank == [p \in S |-> Cardinality(below(p))]
              Up(s) == s \in [1..n -> S] /\ \A i, j \in 1..n : i < j => s[i] < s[j]
  <1>1. n \in Nat
    BY FS_CardinalityType
  <1>2. IsFiniteSet(1..n) /\ Cardinality(1..n) = n
    BY <1>1, FS_Interval
  <1>3. \A p \in S : IsFiniteSet(below(p)) /\ Cardinality(below(p)) <= n /\ Cardinality(below(p)) \in Nat
    <2>. TAKE p \in S
    <2>1. below(p) \in SUBSET S
      OBVIOUS
    <2>. HIDE DEF below
    <2>. QED BY <2>1, FS_Subset, FS_CardinalityType
  <1>4. \A p, q \in S : p < q => Cardinality(below(p)) < Cardinality(below(q))
    <2>. SUFFICES ASSUME NEW p \in S, NEW q \in S, p < q
                  PROVE  Cardinality(below(p)) < Cardinality(below(q))
      OBVIOUS
    <2>1. below(p) \in SUBSET below(q) /\ below(p) # below(q)
      <3>0. p \in Int /\ q \in Int
        OBVIOUS
      <3>1. q \in below(q) /\ q \notin below(p)
        BY <3>0
      <3>2. ASSUME NEW x \in below(p) PROVE x \in below(q)
        <4>1. x \in S /\ x \in Int /\ x <= p
          OBVIOUS
        <4>. QED BY <3>0, <4>1
      <3>. QED BY <3>1, <3>2, Zenon
    <2>. HIDE DEF below
    <2>2. Cardinality(below(p)) <= Cardinality(below(q)) /\ Cardinality(below(q)) # Cardinality(below(p))
      BY <2>1, <1>3, FS_Subset
    <2>. QED BY <2>2, <1>3
  <1>5. \A p \in S : Cardinality(below(p)) >= 1
    <2>. TAKE p \in S
    <2>1. below(p) # {}
      OBVIOUS
    <2>. HIDE DEF below
    <2>2. Cardinality(below(p)) # 0
      BY <2>1, <1>3, FS_EmptySet
    <2>. QED BY <2>2, <1>3
  <1>. HIDE DEF below
  <1>6. rank \in [S -> 1..n] /\ \A p, q \in S : p < q => rank[p] < rank[q]
    BY <1>1, <1>3, <1>4, <1>5
  <1>. HIDE DEF rank
  <1>7. \A p, q \in S : rank[p] = rank[q] => p = q
    <2>. SUFFICES ASSUME NEW p \in S, NEW q \in S, rank[p] = rank[q], p # q PROVE FALSE
      OBVIOUS
    <2>1. rank[p] \in 1..n /\ (p < q \/ q < p)
      BY <1>6
    <2>. QED BY <2>1, <1>6
  <1>8. rank \in Injection(S, 1..n)
    BY <1>6, <1>7 DEF Injection, IsInjective
  <1>9. rank \in Surjection(S, 1..n)
    BY <1>2, <1>8, FS_Injection
  <1>10. \A i \in 1..n : \E p \in S : rank[p] = i
    BY <1>9 DEF Surjection
  <1>. DEFINE s == [i \in 1..n |-> CHOOSE p \in S : rank[p] = i]
  <1>11. \A i \in 1..n : s[i] \in S /\ rank[s[i]] = i
    BY <1>10
  <1>12. s \in [1..n -> S]
    BY <1>11
  <1>. HIDE DEF s
  <1>13. Up(s)
    <2>1. ASSUME NEW i \in 1..n, NEW j \in 1..n, i < j PROVE s[i] < s[j]
      <3>1. s[i] \in S /\ s[j] \in S /\ rank[s[i]] < rank[s[j]]
        BY <1>11, <2>1
      <3>2. rank[s[i]] \in Int /\ rank[s[j]] \in Int /\ s[i] \in Int /\ s[j] \in Int
        <4>1. rank[s[i]] \in 1..n /\ rank[s[j]] \in 1..n
          BY <1>6, <3>1, Zenon
        <4>2. \A x \in 1..n : x \in Int
          BY <1>1
        <4>3. \A x \in S : x \in Int
          OBVIOUS
        <4>. QED BY <3>1, <4>1, <4>2, <4>3, Zenon
      <3>3. s[j] < s[i] => rank[s[j]] < rank[s[i]]
        BY <1>6, <3>1, Zenon
      <3>. QED BY <3>1, <3>2, <3>3
    <2>. QED BY <1>12, <2>1
  <1>14. Up(qsort(S))
    <2>1. qsort(S) = CHOOSE t \in [1..n -> S] : \A i, j \in 1..n : i < j => t[i] < t[j]
      BY DEF qsort
    <2>. QED BY <1>13, <2>1, Zenon
  <1>. DEFINE t == qsort(S)
  <1>. HIDE DEF t
  <1>15. Up(t)
    BY <1>14 DEF t
  <1>16. \A i, j \in 1..n : t[i] = t[j] => i = j
    <2>. SUFFICES ASSUME NEW i \in 1..n, NEW j \in 1..n, t[i] = t[j], i # j PROVE FALSE
      OBVIOUS
    <2>0. t[i] \in S
      BY <1>15
    <2>1. t[i] \in Int
      BY <2>0, Zenon
    <2>2. i < j \/ j < i
      BY <1>1
    <2>3. (i < j => t[i] < t[j]) /\ (j < i => t[j] < t[i])
      BY <1>15
    <2>. QED BY <2>1, <2>2, <2>3
  <1>17. t \in Injection(1..n, S)
    BY <1>15, <1>16 DEF Injection, IsInjective
  <1>18. t \in Surjection(1..n, S)
    BY <1>2, <1>17, FS_Injection
  <1>19. \A p \in S : \E i \in 1..n : t[i] = p
    BY <1>18 DEF Surjection
  <1>. QED BY <1>1, <1>15, <1>19 DEF t

-----------------------------------------------------------------------------
(* The loops of httpd_log_fmt_port.                                        *)

PortStat == [port : Int, users : Nat, connections : Nat]
PortStats == Seq(PortStat)
Ascending(ps) == \A i, j \in DOMAIN ps : i < j => ps[i].port < ps[j].port

Lists == [0..MAX_PORTS -> Int]
Rising(list, len) == \A i, j \in 0..(len - 1) : i < j => list[i] < list[j]

\* Where the loops may be.
Loops(ps) ==
  {l \in [i : 0..Len(ps), at : {"for", "while", "end"}, row : Seq(Nat)] :
     l.at = "while" => l.i < Len(ps)}
Start == [i |-> 0, at |-> "for", row |-> <<>>]

\* What the ports of a line are.
LEMMA PortStatsIs ==
  ASSUME NEW ps \in PortStats
  PROVE  /\ Len(ps) \in Nat /\ DOMAIN ps = 1..Len(ps)
         /\ \A i \in 1..Len(ps) : ps[i] \in PortStat /\ ps[i].port \in Int /\ ps[i].users \in Nat
  <1>1. Len(ps) \in Nat /\ DOMAIN ps = 1..Len(ps) /\ \A i \in 1..Len(ps) : ps[i] \in PortStat
    BY DEF PortStats
  <1>2. \A x \in PortStat : x.port \in Int /\ x.users \in Nat
    BY DEF PortStat
  <1>. QED BY <1>1, <1>2

\* The value of a port that a line has, and of one that it does not have.
LEMMA ValueIs ==
  ASSUME NEW ps \in PortStats, Ascending(ps)
  PROVE  /\ \A m \in DOMAIN ps : Value(ps, ps[m].port) = ps[m].users
         /\ \A p : (\A m \in DOMAIN ps : ps[m].port # p) => Value(ps, p) = 0
  <1>1. ASSUME NEW m \in DOMAIN ps PROVE Value(ps, ps[m].port) = ps[m].users
    <2>. DEFINE at == {i \in DOMAIN ps : ps[i].port = ps[m].port}
    <2>1. m \in at
      OBVIOUS
    <2>2. ASSUME NEW i \in at PROVE i = m
      <3>1. i \in DOMAIN ps /\ ps[i].port = ps[m].port
        OBVIOUS
      <3>2. i \in Int /\ m \in Int /\ ps[i].port \in Int
        BY <3>1, PortStatsIs
      <3>3. (i < m => ps[i].port < ps[m].port) /\ (m < i => ps[m].port < ps[i].port)
        BY <3>1 DEF Ascending
      <3>. QED BY <3>1, <3>2, <3>3
    <2>3. Value(ps, ps[m].port) = IF at = {} THEN 0 ELSE ps[CHOOSE i \in at : TRUE].users
      BY DEF Value
    <2>. HIDE DEF at
    <2>4. (CHOOSE i \in at : TRUE) = m
      BY <2>1, <2>2, Zenon
    <2>. QED BY <2>1, <2>3, <2>4, Zenon
  <1>2. ASSUME NEW p, \A m \in DOMAIN ps : ps[m].port # p PROVE Value(ps, p) = 0
    BY <1>2 DEF Value
  <1>. QED BY <1>1, <1>2

\* A turn of the loops leaves them at a place where they may be.
LEMMA TurnType ==
  ASSUME NEW ps \in PortStats, NEW list, NEW len \in Nat, NEW k \in 0..len, NEW l \in Loops(ps)
  PROVE  Turn(l, ps, list, len, k) \in Loops(ps)
  <1>. DEFINE n == Turn(l, ps, list, len, k)
  <1>0. Len(ps) \in Nat
    BY PortStatsIs
  <1>1. l \in [i : 0..Len(ps), at : {"for", "while", "end"}, row : Seq(Nat)]
        /\ (l.at = "while" => l.i < Len(ps))
    BY DEF Loops
  <1>2. CASE l.at = "end" \/ (l.at = "for" /\ ~(l.i < Len(ps) /\ k < len))
    <2>1. n = [l EXCEPT !.at = "end"]
      BY <1>2, Zenon DEF Turn
    <2>2. n \in [i : 0..Len(ps), at : {"for", "while", "end"}, row : Seq(Nat)] /\ n.at = "end"
      BY <1>1, <2>1
    <2>. QED BY <2>2 DEF Loops
  <1>3. CASE ~(l.at = "end" \/ (l.at = "for" /\ ~(l.i < Len(ps) /\ k < len)))
    <2>1. l.i \in 0..Len(ps) /\ l.i < Len(ps)
      BY <1>1, <1>3
    <2>2. l.i + 1 \in 1..Len(ps)
      BY <1>0, <2>1
    <2>3. ps[l.i + 1].users \in Nat
      BY <2>2, PortStatsIs
    <2>4. Append(l.row, 0) \in Seq(Nat) /\ Append(l.row, ps[l.i + 1].users) \in Seq(Nat)
      BY <1>1, <2>3
    <2>5. n = IF ps[l.i + 1].port > list[k]
              THEN [i |-> l.i, at |-> IF k + 1 > len THEN "end" ELSE "while", row |-> Append(l.row, 0)]
              ELSE [i |-> l.i + 1, at |-> "for",
                    row |-> IF ps[l.i + 1].port = list[k] THEN Append(l.row, ps[l.i + 1].users) ELSE l.row]
      BY <1>3, Zenon DEF Turn
    <2>. HIDE DEF n
    <2>6. CASE ps[l.i + 1].port > list[k]
      <3>. DEFINE w == IF k + 1 > len THEN "end" ELSE "while"
      <3>0. w \in {"for", "while", "end"}
        OBVIOUS
      <3>1. n = [i |-> l.i, at |-> w, row |-> Append(l.row, 0)]
        BY <2>5, <2>6
      <3>. HIDE DEF w
      <3>2. n \in [i : 0..Len(ps), at : {"for", "while", "end"}, row : Seq(Nat)]
        BY <2>1, <2>4, <3>0, <3>1
      <3>3. n.i < Len(ps)
        BY <2>1, <3>1
      <3>4. n \in Loops(ps)
        BY <3>2, <3>3 DEF Loops
      <3>. QED BY <3>4 DEF n
    <2>7. CASE ~(ps[l.i + 1].port > list[k])
      <3>1. n = [i |-> l.i + 1, at |-> "for", row |-> n.row] /\ n.row \in Seq(Nat)
        BY <1>1, <2>4, <2>5, <2>7
      <3>. QED BY <1>0, <2>1, <2>2, <3>1 DEF Loops, n
    <2>. QED BY <2>6, <2>7
  <1>. QED BY <1>2, <1>3

\* The row is what the loops have made after a turn for every column and one.
LEMMA LoopIs ==
  ASSUME NEW line, line.ports \in PortStats, NEW list, NEW len \in Nat
  PROVE  \E f \in [0..(len + 1) -> Loops(line.ports)] :
           /\ f[0] = Start
           /\ \A k \in 1..(len + 1) : f[k] = Turn(f[k - 1], line.ports, list, len, k - 1)
           /\ httpd_log_fmt_port(line, list, len) = [ports |-> line.ports, row |-> f[len + 1].row]
  <1>. DEFINE ps == line.ports
              S == Loops(ps)
              G == [k \in 1..(len + 1) |-> [l \in S |-> Turn(l, ps, list, len, k - 1)]]
              Is(f) == f = [k \in 0..(len + 1) |-> IF k = 0 THEN Start ELSE Turn(f[k - 1], ps, list, len, k - 1)]
              f == CHOOSE f : Is(f)
  <1>1. Start \in S
    BY DEF Start, Loops, PortStats
  <1>2. ASSUME NEW k \in 1..(len + 1), NEW l \in S PROVE Turn(l, ps, list, len, k - 1) \in S
    <2>1. k - 1 \in 0..len
      OBVIOUS
    <2>. HIDE DEF S, ps
    <2>. QED BY <2>1, TurnType, Zenon DEF S, ps
  <1>. HIDE DEF S
  <1>3. G \in [1..(len + 1) -> [S -> S]]
    BY <1>2
  <1>4. \A k \in 1..(len + 1) : \A l \in S : G[k][l] = Turn(l, ps, list, len, k - 1)
    OBVIOUS
  <1>. HIDE DEF G
  <1>5. len + 1 \in Nat
    OBVIOUS
  <1>6. PICK g \in [0..(len + 1) -> S] : g[0] = Start /\ \A k \in 1..(len + 1) : g[k] = G[k][g[k - 1]]
    <2>. DEFINE N == len + 1
    <2>1. N \in Nat /\ G \in [1..N -> [S -> S]]
      BY <1>3, <1>5
    <2>. HIDE DEF N
    <2>2. \E g \in [0..N -> S] : Follows(g, Start, N, G)
      BY <1>1, <2>1, Recursion, Zenon
    <2>. QED BY <2>2 DEF N, Follows
  <1>7. \A k \in 1..(len + 1) : g[k] = Turn(g[k - 1], ps, list, len, k - 1)
    BY <1>4, <1>6
  <1>8. Is(g)
    <2>1. g = [k \in 0..(len + 1) |-> g[k]]
      BY <1>6
    <2>2. \A k \in 0..(len + 1) : g[k] = IF k = 0 THEN Start ELSE Turn(g[k - 1], ps, list, len, k - 1)
      BY <1>6, <1>7
    <2>. QED BY <2>1, <2>2
  <1>9. Is(f)
    BY <1>8, Zenon
  <1>10. httpd_log_fmt_port(line, list, len) = [ports |-> line.ports, row |-> f[len + 1].row]
    BY Zenon DEF httpd_log_fmt_port, Start
  <1>. HIDE DEF f
  <1>11. f[0] = Start /\ \A k \in 1..(len + 1) : f[k] = Turn(f[k - 1], ps, list, len, k - 1)
    BY <1>9
  <1>12. f = [k \in 0..(len + 1) |-> f[k]]
    BY <1>9
  <1>13. 0..(len + 1) \subseteq {k \in 0..(len + 1) : f[k] \in S}
    <2>. DEFINE T == {k \in 0..(len + 1) : f[k] \in S}
    <2>1. 0 \in T
      BY <1>1, <1>11
    <2>2. ASSUME NEW n \in 0..((len + 1) - 1), n \in T PROVE n + 1 \in T
      <3>1. n + 1 \in 1..(len + 1) /\ (n + 1) - 1 = n
        OBVIOUS
      <3>2. f[n + 1] = Turn(f[n], ps, list, len, n)
        BY <1>11, <3>1
      <3>3. f[n + 1] \in S
        BY <1>2, <2>2, <3>1, <3>2
      <3>. QED BY <3>1, <3>3
    <2>. HIDE DEF T
    <2>3. \A n \in 0..((len + 1) - 1) : n \in T => n + 1 \in T
      BY <2>2
    <2>4. 0..(len + 1) \subseteq T
      BY <1>5, <2>1, <2>3, UpTo, Zenon
    <2>. QED BY <2>4 DEF T
  <1>14. f \in [0..(len + 1) -> S]
    BY <1>12, <1>13
  <1>. QED BY <1>10, <1>11, <1>14, Zenon DEF S

\* What the loops have done before column k, where the first c columns are to
\* be right: each column before k has its value in the row, and the ports
\* before i are the ones among these columns.  Later the row only grows.
Laid(l, ps, list, len, c, k) ==
  IF l.at = "end" \/ k > c
  THEN /\ Aligned([ports |-> ps, row |-> l.row], list, len, c)
       /\ l.at = "end" \/ (c < len /\ Len(l.row) >= c)
  ELSE /\ Len(l.row) = k
       /\ \A j \in 1..k : l.row[j] = Value(ps, list[j - 1])
       /\ \A m \in 1..l.i : \E j \in 0..(k - 1) : ps[m].port = list[j]
       /\ \A m \in (l.i + 1)..Len(ps) : \A j \in 0..(k - 1) : list[j] < ps[m].port

\* A turn of the loops lays out the next column, or ends with the rest zero.
LEMMA TurnLaid ==
  ASSUME NEW ps \in PortStats, Ascending(ps), NEW list, NEW len \in Nat,
         \A j \in 0..len : list[j] \in Int, Rising(list, len),
         NEW c \in 0..len, Known(ps, list, len, c),
         NEW k \in 0..len, NEW l \in Loops(ps), Laid(l, ps, list, len, c, k)
  PROVE  Laid(Turn(l, ps, list, len, k), ps, list, len, c, k + 1)
  <1>. DEFINE n == Turn(l, ps, list, len, k)
              N == Len(ps)
              i == l.i
  <1>1. N \in Nat /\ DOMAIN ps = 1..N /\ \A m \in 1..N : ps[m].port \in Int /\ ps[m].users \in Nat
    BY PortStatsIs
  <1>2. l \in [i : 0..N, at : {"for", "while", "end"}, row : Seq(Nat)] /\ (l.at = "while" => i < N)
    BY DEF Loops
  <1>3. \A a, b \in 1..N : a < b => ps[a].port < ps[b].port
    BY <1>1, Zenon DEF Ascending
  <1>4. \A m \in 1..N : c = len \/ ps[m].port < list[c] => \E j \in 0..(c - 1) : ps[m].port = list[j]
    BY <1>1, Zenon DEF Known
  <1>5. \A a, b \in 0..(len - 1) : a < b => list[a] < list[b]
    BY DEF Rising
  <1>6. \A p : (\A m \in 1..N : ps[m].port # p) => Value(ps, p) = 0
    BY <1>1, ValueIs
  <1>7. \A m \in 1..N : Value(ps, ps[m].port) = ps[m].users
    BY <1>1, ValueIs
  <1>8. i \in Nat /\ i <= N /\ l.row \in Seq(Nat)
    BY <1>1, <1>2
  <1>9. CASE l.at = "end"
    <2>1. n = [l EXCEPT !.at = "end"]
      BY <1>9, Zenon DEF Turn
    <2>2. n.at = "end" /\ n.row = l.row
      BY <1>2, <2>1
    <2>. HIDE DEF n
    <2>3. Laid(n, ps, list, len, c, k + 1)
      BY <1>9, <2>2, Zenon DEF Laid
    <2>. QED BY <2>3 DEF n
  <1>11. CASE l.at = "for" /\ ~(i < N /\ k < len) /\ k > c
    <2>1. n = [l EXCEPT !.at = "end"]
      BY <1>11, Zenon DEF Turn
    <2>2. n.at = "end" /\ n.row = l.row
      BY <1>2, <2>1
    <2>. HIDE DEF n
    <2>3. Laid(n, ps, list, len, c, k + 1)
      BY <1>11, <2>2, Zenon DEF Laid
    <2>. QED BY <2>3 DEF n
  <1>12. CASE l.at # "end" /\ ~(l.at = "for" /\ ~(i < N /\ k < len)) /\ k >= c /\ c < len
    <2>1. Len(l.row) >= c /\ \A j \in 1..c : l.row[j] = Value(ps, list[j - 1])
      <3>1. CASE k > c
        <4>1. Aligned([ports |-> ps, row |-> l.row], list, len, c) /\ Len(l.row) >= c
          BY <1>12, <3>1, Zenon DEF Laid
        <4>. QED BY <1>8, <4>1 DEF Aligned
      <3>2. CASE k = c
        <4>1. ~(k > c)
          BY <3>2
        <4>. QED BY <1>12, <3>2, <4>1 DEF Laid
      <3>. QED BY <1>12, <3>1, <3>2
    <2>2. i < N
      BY <1>2, <1>12
    <2>3. i + 1 \in 1..N
      BY <1>1, <1>8, <2>2
    <2>4. n = IF ps[i + 1].port > list[k]
              THEN [i |-> i, at |-> IF k + 1 > len THEN "end" ELSE "while", row |-> Append(l.row, 0)]
              ELSE [i |-> i + 1, at |-> "for",
                    row |-> IF ps[i + 1].port = list[k] THEN Append(l.row, ps[i + 1].users) ELSE l.row]
      BY <1>12, Zenon DEF Turn
    <2>. HIDE DEF n
    <2>5. n.row = l.row \/ \E x \in Nat : n.row = Append(l.row, x)
      <3>1. CASE ps[i + 1].port > list[k]
        BY <2>4, <3>1
      <3>2. CASE ~(ps[i + 1].port > list[k])
        BY <1>1, <2>3, <2>4, <3>2, SMTT(30)
      <3>. QED BY <3>1, <3>2
    <2>6. Len(n.row) >= c /\ \A j \in 1..c : n.row[j] = Value(ps, list[j - 1]) /\ j <= Len(n.row)
      <3>1. CASE n.row = l.row
        BY <1>8, <2>1, <3>1
      <3>2. ASSUME NEW x \in Nat, n.row = Append(l.row, x)
            PROVE  /\ Len(n.row) >= c
                   /\ \A j \in 1..c : n.row[j] = Value(ps, list[j - 1]) /\ j <= Len(n.row)
        <4>1. Len(l.row) \in Nat /\ Len(n.row) = Len(l.row) + 1
          BY <1>8, <3>2
        <4>2. \A j \in 1..Len(l.row) : n.row[j] = l.row[j]
          BY <1>8, <3>2
        <4>. QED BY <2>1, <4>1, <4>2
      <3>. QED BY <2>5, <3>1, <3>2
    <2>7. Aligned([ports |-> ps, row |-> n.row], list, len, c)
      BY <1>12, <2>6 DEF Aligned
    <2>8. k + 1 > c
      BY <1>12
    <2>9. Laid(n, ps, list, len, c, k + 1)
      BY <1>12, <2>6, <2>7, <2>8, Zenon DEF Laid
    <2>. QED BY <2>9 DEF n
  <1>10. CASE /\ l.at # "end" /\ k <= c
              /\ (l.at = "for" /\ ~(i < N /\ k < len)) \/ k < c \/ c = len
    <2>0. ~(k > c)
      BY <1>10
    <2>1. /\ Len(l.row) = k
          /\ \A j \in 1..k : l.row[j] = Value(ps, list[j - 1])
          /\ \A m \in 1..i : \E j \in 0..(k - 1) : ps[m].port = list[j]
          /\ \A m \in (i + 1)..N : \A j \in 0..(k - 1) : list[j] < ps[m].port
      BY <1>10, <2>0, Zenon DEF Laid
    <2>2. CASE l.at = "for" /\ ~(i < N /\ k < len)
      <3>1. n = [l EXCEPT !.at = "end"]
        BY <2>2, Zenon DEF Turn
      <3>2. n.at = "end" /\ n.row = l.row
        BY <1>2, <3>1
      <3>3. ASSUME NEW j \in 1..c, ~(j <= k) PROVE Value(ps, list[j - 1]) = 0
        <4>1. i = N
          BY <2>2, <1>8, <3>3
        <4>2. ASSUME NEW m \in 1..N PROVE ps[m].port # list[j - 1]
          <5>1. PICK h \in 0..(k - 1) : ps[m].port = list[h]
            BY <2>1, <4>1
          <5>2. h \in 0..(len - 1) /\ j - 1 \in 0..(len - 1) /\ h < j - 1
            BY <3>3, <5>1
          <5>3. list[h] < list[j - 1] /\ list[h] \in Int /\ list[j - 1] \in Int
            BY <1>5, <5>2
          <5>. QED BY <5>1, <5>3
        <4>. QED BY <1>6, <4>2
      <3>4. Aligned([ports |-> ps, row |-> l.row], list, len, c)
        BY <1>10, <2>1, <3>3 DEF Aligned
      <3>. HIDE DEF n
      <3>5. Laid(n, ps, list, len, c, k + 1)
        BY <3>2, <3>4, Zenon DEF Laid
      <3>. QED BY <3>5 DEF n
    <2>3. CASE ~(l.at = "for" /\ ~(i < N /\ k < len))
      <3>1. i < N
        BY <1>2, <1>10, <2>3
      <3>2. i + 1 \in 1..N /\ i + 1 \in (i + 1)..N
        BY <1>1, <1>8, <3>1
      <3>3. ASSUME NEW h \in 0..(len - 1), ps[i + 1].port = list[h] PROVE ~(h < k)
        <4>1. SUFFICES ASSUME h < k PROVE FALSE
          OBVIOUS
        <4>2. list[h] < ps[i + 1].port /\ list[h] \in Int
          BY <2>1, <3>2, <4>1
        <4>. QED BY <3>3, <4>2
      <3>4. k < c
        <4>1. SUFFICES ASSUME c = len, k = len PROVE FALSE
          BY <1>10, <2>3
        <4>2. PICK h \in 0..(len - 1) : ps[i + 1].port = list[h]
          BY <1>4, <3>2, <4>1
        <4>. QED BY <3>3, <4>1, <4>2
      <3>5. k < len /\ k \in 0..(len - 1) /\ list[k] \in Int
        BY <3>4
      <3>6. n = IF ps[i + 1].port > list[k]
                THEN [i |-> i, at |-> IF k + 1 > len THEN "end" ELSE "while", row |-> Append(l.row, 0)]
                ELSE [i |-> i + 1, at |-> "for",
                      row |-> IF ps[i + 1].port = list[k] THEN Append(l.row, ps[i + 1].users) ELSE l.row]
        BY <1>10, <2>3, Zenon DEF Turn
      <3>7. \A m \in 1..i : ps[m].port < list[k]
        <4>. TAKE m \in 1..i
        <4>1. PICK j \in 0..(k - 1) : ps[m].port = list[j]
          BY <2>1
        <4>. QED BY <1>5, <3>5, <4>1
      <3>. HIDE DEF n
      <3>8. CASE ps[i + 1].port > list[k]
        <4>0. ~(k + 1 > len)
          BY <3>5
        <4>1. n = [i |-> i, at |-> "while", row |-> Append(l.row, 0)]
          BY <3>6, <3>8, <4>0, Zenon
        <4>2. n.i = i /\ n.at = "while" /\ n.at # "end" /\ n.row = Append(l.row, 0)
          BY <4>1
        <4>3. \A m \in (i + 1)..N : list[k] < ps[m].port
          <5>. TAKE m \in (i + 1)..N
          <5>1. m \in 1..N /\ (m = i + 1 \/ ps[i + 1].port < ps[m].port)
            BY <1>3, <1>8, <3>2, SMTT(30)
          <5>. QED BY <1>1, <3>2, <3>5, <3>8, <5>1
        <4>4. Value(ps, list[k]) = 0
          <5>1. ASSUME NEW m \in 1..N PROVE ps[m].port # list[k]
            <6>1. m \in 1..i \/ m \in (i + 1)..N
              BY <1>8
            <6>. QED BY <1>1, <3>5, <3>7, <4>3, <6>1
          <5>. QED BY <1>6, <5>1
        <4>5. Len(n.row) = k + 1 /\ n.row[k + 1] = 0 /\ \A j \in 1..k : n.row[j] = l.row[j]
          BY <1>8, <2>1, <4>2
        <4>6. \A j \in 1..(k + 1) : n.row[j] = Value(ps, list[j - 1])
          <5>. TAKE j \in 1..(k + 1)
          <5>1. CASE j = k + 1
            BY <4>4, <4>5, <5>1
          <5>2. CASE j \in 1..k
            BY <2>1, <4>5, <5>2
          <5>. QED BY <5>1, <5>2
        <4>7. \A m \in 1..i : \E j \in 0..((k + 1) - 1) : ps[m].port = list[j]
          <5>1. 0..(k - 1) \subseteq 0..((k + 1) - 1)
            OBVIOUS
          <5>. QED BY <2>1, <5>1, Zenon
        <4>8. \A m \in (i + 1)..N : \A j \in 0..((k + 1) - 1) : list[j] < ps[m].port
          BY <2>1, <4>3
        <4>9. ~(k + 1 > c)
          BY <3>4
        <4>10. Laid(n, ps, list, len, c, k + 1)
          BY <4>2, <4>5, <4>6, <4>7, <4>8, <4>9, Zenon DEF Laid
        <4>. QED BY <4>10 DEF n
      <3>9. CASE ~(ps[i + 1].port > list[k])
        <4>0. c = len \/ ps[i + 1].port < list[c]
          BY <1>1, <1>5, <3>2, <3>4, <3>5, <3>9, SMTT(30)
        <4>1. PICK h \in 0..(c - 1) : ps[i + 1].port = list[h]
          BY <1>4, <3>2, <4>0
        <4>2. ps[i + 1].port = list[k]
          <5>1. h \in 0..(len - 1) /\ ~(h < k)
            BY <3>3, <4>1
          <5>. QED BY <1>5, <3>5, <3>9, <4>1, <5>1
        <4>3. n = [i |-> i + 1, at |-> "for", row |-> Append(l.row, ps[i + 1].users)]
          BY <3>6, <3>9, <4>2
        <4>4. n.i = i + 1 /\ n.at = "for" /\ n.at # "end" /\ n.row = Append(l.row, ps[i + 1].users)
          BY <4>3
        <4>5. Value(ps, list[k]) = ps[i + 1].users
          BY <1>7, <3>2, <4>2
        <4>6. Len(n.row) = k + 1 /\ n.row[k + 1] = ps[i + 1].users /\ \A j \in 1..k : n.row[j] = l.row[j]
          <5>1. ps[i + 1].users \in Nat
            BY <1>1, <3>2
          <5>2. Len(l.row) = k
            BY <2>1
          <5>. QED BY <1>8, <4>4, <5>1, <5>2
        <4>7. \A j \in 1..(k + 1) : n.row[j] = Value(ps, list[j - 1])
          <5>. TAKE j \in 1..(k + 1)
          <5>1. CASE j = k + 1
            BY <4>5, <4>6, <5>1
          <5>2. CASE j \in 1..k
            BY <2>1, <4>6, <5>2
          <5>. QED BY <5>1, <5>2
        <4>8. \A m \in 1..(i + 1) : \E j \in 0..((k + 1) - 1) : ps[m].port = list[j]
          <5>. TAKE m \in 1..(i + 1)
          <5>1. CASE m = i + 1
            <6>1. k \in 0..((k + 1) - 1)
              OBVIOUS
            <6>. QED BY <4>2, <5>1, <6>1
          <5>2. CASE m \in 1..i
            <6>1. PICK j \in 0..(k - 1) : ps[m].port = list[j]
              BY <2>1, <5>2
            <6>2. j \in 0..((k + 1) - 1)
              BY <6>1
            <6>. QED BY <6>1, <6>2
          <5>3. m = i + 1 \/ m \in 1..i
            BY <1>8
          <5>. QED BY <5>1, <5>2, <5>3
        <4>9. \A m \in ((i + 1) + 1)..N : \A j \in 0..((k + 1) - 1) : list[j] < ps[m].port
          <5>. TAKE m \in ((i + 1) + 1)..N
          <5>. TAKE j \in 0..((k + 1) - 1)
          <5>0. m \in 1..N /\ i + 1 < m /\ m \in (i + 1)..N
            BY <1>1, <1>8
          <5>1. m \in 1..N /\ ps[i + 1].port < ps[m].port /\ m \in (i + 1)..N
            BY <1>3, <3>2, <5>0, Zenon
          <5>2. j = k \/ j \in 0..(k - 1)
            OBVIOUS
          <5>. QED BY <2>1, <4>2, <5>1, <5>2
        <4>10. ~(k + 1 > c)
          BY <3>4
        <4>11. Laid(n, ps, list, len, c, k + 1)
          BY <4>4, <4>6, <4>7, <4>8, <4>9, <4>10, Zenon DEF Laid
        <4>. QED BY <4>11 DEF n
      <3>. QED BY <3>8, <3>9
    <2>. QED BY <2>2, <2>3
  <1>. QED BY <1>9, <1>10, <1>11, <1>12

\* A line of which the ports up to column c are all columns of the table has
\* the value of each of the first c columns in its place.
LEMMA RowAligned ==
  ASSUME NEW line, line.ports \in PortStats, Ascending(line.ports),
         NEW list \in Lists, NEW len \in 0..(MAX_PORTS - 1), Rising(list, len),
         NEW c \in 0..len, Known(line.ports, list, len, c)
  PROVE  Aligned(httpd_log_fmt_port(line, list, len), list, len, c)
  <1>. DEFINE ps == line.ports
  <1>0. len \in Nat
    BY StatsAssumption
  <1>1. PICK f \in [0..(len + 1) -> Loops(ps)] :
          /\ f[0] = Start
          /\ \A k \in 1..(len + 1) : f[k] = Turn(f[k - 1], ps, list, len, k - 1)
          /\ httpd_log_fmt_port(line, list, len) = [ports |-> ps, row |-> f[len + 1].row]
    BY <1>0, LoopIs, Zenon
  <1>2. len \in Nat /\ len + 1 \in Nat /\ \A j \in 0..len : list[j] \in Int
    BY StatsAssumption DEF Lists
  <1>. DEFINE T == {k \in 0..(len + 1) : Laid(f[k], ps, list, len, c, k)}
  <1>3. 0 \in T
    <2>1. Start.at # "end" /\ Start.i = 0 /\ Start.row = << >>
      BY DEF Start
    <2>2. ~(0 > c) /\ Len(Start.row) = 0 /\ 1..0 = {} /\ 0..(0 - 1) = {}
      BY <1>2, <2>1
    <2>3. Laid(Start, ps, list, len, c, 0)
      BY <2>1, <2>2, Zenon DEF Laid
    <2>4. 0 \in 0..(len + 1)
      BY <1>2
    <2>5. Laid(f[0], ps, list, len, c, 0)
      BY <1>1, <2>3, Zenon
    <2>. QED BY <2>4, <2>5, Zenon
  <1>4. ASSUME NEW k \in 0..((len + 1) - 1), k \in T PROVE k + 1 \in T
    <2>1. k \in 0..len /\ k + 1 \in 1..(len + 1) /\ (k + 1) - 1 = k /\ k + 1 \in 0..(len + 1)
      BY <1>2, <1>4
    <2>2. f[k] \in Loops(ps) /\ Laid(f[k], ps, list, len, c, k)
      BY <1>4
    <2>3. Laid(Turn(f[k], ps, list, len, k), ps, list, len, c, k + 1)
      BY <1>2, <2>1, <2>2, TurnLaid, Zenon
    <2>. QED BY <1>1, <2>1, <2>3, Zenon
  <1>5. 0..(len + 1) \subseteq T
    <2>. HIDE DEF T
    <2>. QED BY <1>2, <1>3, <1>4, UpTo, Zenon
  <1>6. Laid(f[len + 1], ps, list, len, c, len + 1) /\ len + 1 > c
    BY <1>2, <1>5
  <1>7. Aligned([ports |-> ps, row |-> f[len + 1].row], list, len, c)
    BY <1>6, Zenon DEF Laid
  <1>. QED BY <1>1, <1>7, Zenon

-----------------------------------------------------------------------------
(* The inductive invariant.                                                *)

Lines ==
  [up : Int, down : Int, tot_up : Int, tot_down : Int, num : Int, clients : Int,
   active : Int, total : Int, ports : PortStats]
\* A line as httpd_log writes it: its ports are known, ascend and agree with it.
LineRight(l) ==
  /\ Ascending(l.ports) /\ Agrees(l)
  /\ \A i \in DOMAIN l.ports : l.ports[i].port \in Ports \cup {-1}

\* The totals as of line n; line 0 is before the first.
Totals(lg, n) ==
  IF n = 0 THEN [up |-> 0, down |-> 0] ELSE [up |-> lg[n].tot_up, down |-> lg[n].tot_down]

\* active_connections counts the allocations in use.
CountInv ==
  IsFiniteSet(Active) /\ stats.active = Cardinality(Active) /\ stats.active <= stats.total

\* Each line tells what came since the one before it, and last is of the newest.
LogInv ==
  /\ log \in Seq(Lines)
  /\ \A n \in 1..Len(log) :
       /\ LineRight(log[n])
       /\ log[n].up = Totals(log, n).up - Totals(log, n - 1).up
       /\ log[n].down = Totals(log, n).down - Totals(log, n - 1).down
  /\ last = Totals(log, Len(log))

\* The columns ascend, and each row is a line of the log on these columns.
ChartInv ==
  /\ port_list \in [0..MAX_PORTS -> Ports \cup {0, -1}] /\ Rising(port_list, port_list_len)
  /\ \A n \in DOMAIN chart :
       \E m \in 1..Len(log) : chart[n] = httpd_log_fmt_port(log[m], port_list, port_list_len)

SInv == TypeOK /\ CountInv /\ LogInv /\ ChartInv

-----------------------------------------------------------------------------
(* A line of the log.                                                      *)

\* The clients and the ports of connections are no more than the connections.
LEMMA ImageIs ==
  ASSUME NEW C, IsFiniteSet(C)
  PROVE  /\ IsFiniteSet(Clients(C)) /\ Cardinality(Clients(C)) <= Cardinality(C)
         /\ Cardinality(Clients(C)) \in Nat /\ Cardinality(C) \in Nat
         /\ IsFiniteSet({connections[c].port : c \in C})
  <1>1. ASSUME NEW T, NEW f \in [C -> T], \A y \in T : \E c \in C : f[c] = y
        PROVE  IsFiniteSet(T) /\ Cardinality(T) <= Cardinality(C)
    <2>1. f \in Surjection(C, T)
      BY <1>1 DEF Surjection
    <2>. QED BY <2>1, FS_Surjection
  <1>2. IsFiniteSet(Clients(C)) /\ Cardinality(Clients(C)) <= Cardinality(C)
    <2>. DEFINE f == [c \in C |-> connections[c].ip]
    <2>1. f \in [C -> Clients(C)] /\ \A y \in Clients(C) : \E c \in C : f[c] = y
      BY DEF Clients
    <2>. HIDE DEF f
    <2>. QED BY <1>1, <2>1
  <1>3. IsFiniteSet({connections[c].port : c \in C})
    <2>. DEFINE f == [c \in C |-> connections[c].port]
                T == {connections[c].port : c \in C}
    <2>1. f \in [C -> T] /\ \A y \in T : \E c \in C : f[c] = y
      OBVIOUS
    <2>. HIDE DEF f, T
    <2>2. IsFiniteSet(T)
      BY <1>1, <2>1
    <2>. QED BY <2>2 DEF T
  <1>. QED BY <1>2, <1>3, FS_CardinalityType

\* The ports of a line, as httpd_log finds them.
Found(ps) ==
  /\ ps \in PortStats /\ Ascending(ps)
  /\ \A i \in DOMAIN ps :
       /\ ps[i].port \in Ports \cup {-1}
       /\ ps[i].users = Cardinality(Clients(Of(ps[i].port)))
       /\ ps[i].connections = Cardinality(Of(ps[i].port))
  /\ \A c \in Active : \E i \in DOMAIN ps : ps[i].port = connections[c].port

LEMMA PortsFound ==
  ASSUME TypeOK, IsFiniteSet(Active)
  PROVE  Found(port_stats)
  <1>. DEFINE P == {connections[c].port : c \in Active}
              n == Cardinality(P)
              q == qsort(P)
              ps == port_stats
  <1>1. \A c \in Active : connections[c].port \in Ports \cup {-1}
    <2>. TAKE c \in Active
    <2>1. connections[c] \in [ip : Ips \cup {0}, port : Ports \cup {-1}]
      BY DEF TypeOK, Active
    <2>. QED BY <2>1
  <1>2. P \subseteq Ports \cup {-1} /\ P \in SUBSET Int /\ IsFiniteSet(P)
    <2>1. IsFiniteSet(P)
      BY ImageIs, Zenon
    <2>2. P \subseteq Ports \cup {-1}
      BY <1>1, Zenon
    <2>3. Ports \cup {-1} \subseteq Int
      BY StatsAssumption
    <2>. QED BY <2>1, <2>2, <2>3, Zenon
  <1>3. /\ n \in Nat /\ q \in [1..n -> P]
        /\ \A i, j \in 1..n : i < j => q[i] < q[j]
        /\ \A p \in P : \E i \in 1..n : q[i] = p
    <2>. HIDE DEF P
    <2>. QED BY <1>2, QsortIs
  <1>4. ps = [i \in DOMAIN q |-> [port |-> q[i], users |-> Cardinality(Clients(Of(q[i]))),
                                  connections |-> Cardinality(Of(q[i]))]]
    BY Zenon DEF port_stats
  <1>. HIDE DEF P, q, ps, n
  <1>5. DOMAIN q = 1..n
    BY <1>3
  <1>6. ASSUME NEW i \in 1..n
        PROVE  /\ ps[i] \in PortStat /\ ps[i].port = q[i] /\ q[i] \in Ports \cup {-1}
               /\ ps[i].users = Cardinality(Clients(Of(q[i])))
               /\ ps[i].connections = Cardinality(Of(q[i]))
    <2>1. ps[i] = [port |-> q[i], users |-> Cardinality(Clients(Of(q[i]))),
                   connections |-> Cardinality(Of(q[i]))]
      BY <1>4, <1>5, Zenon
    <2>2. IsFiniteSet(Of(q[i]))
      BY FS_Subset DEF Of
    <2>3. Cardinality(Clients(Of(q[i]))) \in Nat /\ Cardinality(Of(q[i])) \in Nat
      BY <2>2, ImageIs, Zenon
    <2>4. q[i] \in Int /\ q[i] \in Ports \cup {-1}
      BY <1>2, <1>3, Zenon
    <2>. QED BY <2>1, <2>3, <2>4 DEF PortStat
  <1>7. DOMAIN ps = 1..n
    BY <1>4, <1>5
  <1>8. ps \in [1..n -> PortStat]
    BY <1>4, <1>5, <1>6
  <1>9. ps \in PortStats
    BY <1>3, <1>8 DEF PortStats
  <1>10. Ascending(ps)
    BY <1>3, <1>6, <1>7 DEF Ascending
  <1>11. \A c \in Active : \E i \in DOMAIN ps : ps[i].port = connections[c].port
    <2>. TAKE c \in Active
    <2>1. connections[c].port \in P
      BY DEF P
    <2>. QED BY <1>3, <1>6, <1>7, <2>1
  <1>12. \A i \in DOMAIN ps :
           /\ ps[i].port \in Ports \cup {-1}
           /\ ps[i].users = Cardinality(Clients(Of(ps[i].port)))
           /\ ps[i].connections = Cardinality(Of(ps[i].port))
    BY <1>6, <1>7
  <1>13. Found(ps)
    BY <1>9, <1>10, <1>11, <1>12, Zenon DEF Found
  <1>. QED BY <1>13 DEF ps

\* The connections by port add up to the connections.
LEMMA ConnectionsAddUp ==
  ASSUME NEW ps, Found(ps), IsFiniteSet(Active)
  PROVE  SumOf([i \in DOMAIN ps |-> ps[i].connections]) = Cardinality(Active)
  <1>. DEFINE s == [i \in DOMAIN ps |-> ps[i].connections]
              First(k) == {c \in Active : \E j \in 1..k : ps[j].port = connections[c].port}
              g == [k \in 0..Len(s) |-> Cardinality(First(k))]
  <1>1. ps \in PortStats /\ Len(ps) \in Nat /\ DOMAIN ps = 1..Len(ps)
        /\ \A i \in 1..Len(ps) : ps[i] \in PortStat /\ ps[i].connections \in Int /\ ps[i].port \in Int
    <2>1. ps \in PortStats
      BY DEF Found
    <2>2. \A x \in PortStat : x.connections \in Int
      BY DEF PortStat
    <2>. QED BY <2>1, <2>2, PortStatsIs
  <1>2. s \in Seq(Int) /\ Len(s) = Len(ps) /\ \A i \in 1..Len(ps) : s[i] = ps[i].connections
    BY <1>1
  <1>3. \A k : IsFiniteSet(First(k)) /\ Cardinality(First(k)) \in Nat
    BY FS_Subset, FS_CardinalityType
  <1>4. g \in [0..Len(s) -> Int]
    <2>. HIDE DEF First
    <2>. QED BY <1>3
  <1>5. First(0) = {} /\ First(Len(ps)) = Active
    <2>1. First(0) = {}
      OBVIOUS
    <2>2. \A c \in Active : \E j \in 1..Len(ps) : ps[j].port = connections[c].port
      BY <1>1, Zenon DEF Found
    <2>3. First(Len(ps)) = Active
      BY <2>2, Zenon
    <2>. QED BY <2>1, <2>3
  <1>6. ASSUME NEW i \in 1..Len(ps)
        PROVE  Cardinality(First(i)) = Cardinality(First(i - 1)) + ps[i].connections
    <2>. DEFINE A == First(i - 1)
                B == Of(ps[i].port)
    <2>1. First(i) = A \cup B
      <3>1. \A j : j \in 1..i <=> (j \in 1..(i - 1) \/ j = i)
        BY <1>1
      <3>. QED BY <3>1, Zenon DEF Of
    <2>2. A \cap B = {}
      <3>1. SUFFICES ASSUME NEW c \in A, c \in B PROVE FALSE
        OBVIOUS
      <3>2. PICK j \in 1..(i - 1) : ps[j].port = connections[c].port
        OBVIOUS
      <3>3. connections[c].port = ps[i].port
        BY <3>1 DEF Of
      <3>4. j \in DOMAIN ps /\ i \in DOMAIN ps /\ j < i
        BY <1>1, <3>2
      <3>5. ps[j].port < ps[i].port
        BY <3>4, Zenon DEF Found, Ascending
      <3>6. ps[j].port \in Int
        BY <1>1, <3>4
      <3>. QED BY <3>2, <3>3, <3>5, <3>6
    <2>3. IsFiniteSet(A) /\ IsFiniteSet(B) /\ Cardinality(A) \in Nat /\ Cardinality(B) \in Nat
      BY <1>3, FS_Subset, FS_CardinalityType DEF Of
    <2>4. ps[i].connections = Cardinality(B)
      BY <1>1, Zenon DEF Found
    <2>. HIDE DEF A, B, First
    <2>5. Cardinality(A \cup B) = Cardinality(A) + Cardinality(B) - Cardinality(A \cap B)
      BY <2>3, FS_Union
    <2>6. Cardinality(A \cap B) = 0
      BY <2>2, FS_EmptySet
    <2>7. Cardinality(First(i)) = Cardinality(A) + ps[i].connections
      BY <2>1, <2>3, <2>4, <2>5, <2>6
    <2>. QED BY <2>7 DEF A
  <1>. HIDE DEF First
  <1>7. g[0] = 0 /\ g[Len(s)] = Cardinality(Active)
    <2>1. 0 \in 0..Len(s) /\ Len(s) \in 0..Len(s) /\ Len(s) = Len(ps)
      BY <1>1, <1>2
    <2>2. g[0] = Cardinality(First(0)) /\ g[Len(s)] = Cardinality(First(Len(s)))
      BY <2>1, Zenon
    <2>. QED BY <1>5, <2>1, <2>2, FS_EmptySet, Zenon
  <1>8. \A i \in 1..Len(s) : g[i] = g[i - 1] + s[i]
    BY <1>1, <1>2, <1>6
  <1>. HIDE DEF g, s
  <1>9. SumOf(s) = Cardinality(Active)
    BY <1>2, <1>4, <1>7, <1>8, SumIs, Zenon
  <1>. QED BY <1>9 DEF s

\* The line that httpd_log writes is right.
LEMMA LineIs ==
  ASSUME TypeOK, CountInv, last.up \in Int, last.down \in Int
  PROVE  /\ Line \in Lines /\ LineRight(Line)
         /\ Line.up = stats.up - last.up /\ Line.down = stats.down - last.down
         /\ Line.tot_up = stats.up /\ Line.tot_down = stats.down
  <1>1. IsFiniteSet(Active) /\ stats.active = Cardinality(Active)
    BY DEF CountInv
  <1>2. Found(port_stats)
    BY <1>1, PortsFound
  <1>3. /\ stats.up \in Int /\ stats.down \in Int /\ stats.active \in Int /\ stats.total \in Int
    BY StatsAssumption DEF TypeOK
  <1>4. Cardinality(Active) \in Int /\ Cardinality(Clients(Active)) \in Nat /\ IsFiniteSet(Clients(Active))
    <2>1. Cardinality(Active) \in Nat /\ Cardinality(Clients(Active)) \in Nat /\ IsFiniteSet(Clients(Active))
      BY <1>1, ImageIs, Zenon
    <2>. QED BY <2>1
  <1>5. port_stats \in PortStats /\ Ascending(port_stats)
    BY <1>2 DEF Found
  <1>. DEFINE ps == port_stats
              l == Line
  <1>6. l = [up |-> stats.up - last.up, down |-> stats.down - last.down,
             tot_up |-> stats.up, tot_down |-> stats.down,
             num |-> Cardinality(Active), clients |-> Cardinality(Clients(Active)),
             active |-> stats.active, total |-> stats.total, ports |-> ps]
    BY DEF Line
  <1>. HIDE DEF l, ps
  <1>7. l \in Lines
    <2>1. ps \in PortStats
      BY <1>5 DEF ps
    <2>. QED BY <1>3, <1>4, <1>6, <2>1 DEF Lines
  <1>8. /\ l.up = stats.up - last.up /\ l.down = stats.down - last.down
        /\ l.tot_up = stats.up /\ l.tot_down = stats.down
        /\ l.num = Cardinality(Active) /\ l.clients = Cardinality(Clients(Active))
        /\ l.active = stats.active /\ l.ports = ps
    BY <1>6
  <1>9. ASSUME NEW i \in DOMAIN ps
        PROVE  ps[i].users <= l.clients /\ ps[i].users <= ps[i].connections
    <2>. DEFINE C == Of(ps[i].port)
    <2>1. ps[i].users = Cardinality(Clients(C)) /\ ps[i].connections = Cardinality(C)
      BY <1>2 DEF Found, ps
    <2>2. C \in SUBSET Active /\ Clients(C) \in SUBSET Clients(Active)
      BY DEF Of, Clients
    <2>. HIDE DEF C
    <2>3. IsFiniteSet(C)
      BY <1>1, <2>2, FS_Subset
    <2>4. Cardinality(Clients(C)) <= Cardinality(C)
      BY <2>3, ImageIs, Zenon
    <2>5. Cardinality(Clients(C)) <= Cardinality(Clients(Active))
      BY <1>4, <2>2, FS_Subset
    <2>. QED BY <1>8, <2>1, <2>4, <2>5
  <1>10. SumOf([i \in DOMAIN ps |-> ps[i].connections]) = Cardinality(Active)
    BY <1>1, <1>2, ConnectionsAddUp, Zenon DEF ps
  <1>11. Agrees(l)
    BY <1>1, <1>8, <1>9, <1>10, Zenon DEF Agrees
  <1>12. LineRight(l)
    BY <1>2, <1>8, <1>11, Zenon DEF LineRight, Found, ps
  <1>. QED BY <1>7, <1>8, <1>12 DEF l

-----------------------------------------------------------------------------
(* The invariant is inductive.                                             *)

LogAndCharts == <<log, last, port_list, port_list_len, chart>>

\* Nothing is logged, counted or drawn at the start.
LEMMA InitSInv == Init => SInv
  <1>. SUFFICES ASSUME Init PROVE SInv
    OBVIOUS
  <1>1. TypeOK
    BY StatsAssumption DEF Init, TypeOK
  <1>2. Active = {}
    BY DEF Init, Active
  <1>3. CountInv
    BY <1>2, FS_EmptySet DEF CountInv, Init
  <1>4. LogInv
    BY DEF Init, LogInv, Totals
  <1>5. ChartInv
    <2>1. port_list \in [0..MAX_PORTS -> Ports \cup {0, -1}]
      BY DEF Init
    <2>2. Rising(port_list, port_list_len)
      BY DEF Init, Rising
    <2>3. DOMAIN chart = {}
      BY DEF Init
    <2>. QED BY <2>1, <2>2, <2>3 DEF ChartInv
  <1>. QED BY <1>1, <1>3, <1>4, <1>5 DEF SInv

\* The log and the chart stay right while they are not touched.
LEMMA Untouched ==
  ASSUME LogInv, ChartInv, UNCHANGED LogAndCharts
  PROVE  LogInv' /\ ChartInv'
  <1>1. UNCHANGED log /\ UNCHANGED last /\ UNCHANGED port_list /\ UNCHANGED port_list_len /\ UNCHANGED chart
    BY DEF LogAndCharts
  <1>2. LogInv'
    BY <1>1 DEF LogInv, Totals, LineRight, Agrees, Ascending
  <1>3. ChartInv'
    BY <1>1 DEF ChartInv, Rising
  <1>. QED BY <1>2, <1>3

\* A connection comes, is named by its INIT record, or goes: the counter follows.
LEMMA ConnectionsKeep ==
  ASSUME TypeOK, CountInv, NEW c \in Conns,
         \/ handle_bro_connection(c)
         \/ \E ip \in Ips, p \in Ports : InitRecord(c, ip, p)
         \/ cleanup_connection_after_ssl(c)
  PROVE  TypeOK' /\ CountInv'
  <1>. DEFINE Named == [ip : Ips \cup {0}, port : Ports \cup {-1}]
  <1>1. /\ connections \in [Conns -> Named \cup {NoConn}]
        /\ stats \in [up : 0..MaxBytes, down : 0..MaxBytes, active : 0..MaxTotal, total : 0..MaxTotal]
        /\ NoConn \notin Named /\ MaxTotal \in Nat /\ MaxBytes \in Nat
    BY StatsAssumption DEF TypeOK
  <1>2. IsFiniteSet(Active) /\ stats.active = Cardinality(Active) /\ stats.active <= stats.total
        /\ Cardinality(Active) \in Nat
    BY FS_CardinalityType DEF CountInv
  <1>3. ASSUME UNCHANGED <<port_list, port_list_len>>,
               connections' \in [Conns -> Named \cup {NoConn}],
               stats' \in [up : 0..MaxBytes, down : 0..MaxBytes, active : 0..MaxTotal, total : 0..MaxTotal]
        PROVE  TypeOK'
    BY <1>3 DEF TypeOK
  <1>4. CASE handle_bro_connection(c)
    <2>1. [ip |-> 0, port |-> -1] \in Named
      OBVIOUS
    <2>. HIDE DEF Named
    <2>2. connections' = [connections EXCEPT ![c] = [ip |-> 0, port |-> -1]] /\ connections[c] = NoConn
          /\ stats' = [stats EXCEPT !.active = @ + 1, !.total = @ + 1] /\ stats.total < MaxTotal
          /\ UNCHANGED <<port_list, port_list_len>>
      BY <1>4 DEF handle_bro_connection
    <2>3. connections' \in [Conns -> Named \cup {NoConn}]
      BY <1>1, <2>1, <2>2
    <2>4. Active' = Active \cup {c} /\ c \notin Active
      BY <1>1, <2>1, <2>2 DEF Active
    <2>5. IsFiniteSet(Active') /\ Cardinality(Active') = Cardinality(Active) + 1
      BY <1>2, <2>4, FS_AddElement
    <2>6. stats'.active = stats.active + 1 /\ stats'.total = stats.total + 1
      BY <1>1, <2>2
    <2>7. stats' \in [up : 0..MaxBytes, down : 0..MaxBytes, active : 0..MaxTotal, total : 0..MaxTotal]
      <3>1. stats.active \in 0..MaxTotal /\ stats.total \in 0..MaxTotal
        BY <1>1
      <3>2. stats.active + 1 \in 0..MaxTotal /\ stats.total + 1 \in 0..MaxTotal
        BY <1>1, <1>2, <2>2, <3>1
      <3>. QED BY <1>1, <2>2, <3>2, Zenon
    <2>8. TypeOK'
      BY <1>3, <2>2, <2>3, <2>7 DEF Named
    <2>9. CountInv'
      BY <1>1, <1>2, <2>5, <2>6 DEF CountInv
    <2>. QED BY <2>8, <2>9
  <1>5. CASE \E ip \in Ips, p \in Ports : InitRecord(c, ip, p)
    <2>1. PICK ip \in Ips, p \in Ports : InitRecord(c, ip, p)
      BY <1>5
    <2>2. [ip |-> ip, port |-> p] \in Named
      OBVIOUS
    <2>3. [ip |-> 0, port |-> -1] \in Named
      OBVIOUS
    <2>. HIDE DEF Named
    <2>4. connections' = [connections EXCEPT ![c] = [ip |-> ip, port |-> p]] /\ connections[c] \in Named
          /\ UNCHANGED stats /\ UNCHANGED <<port_list, port_list_len>>
      BY <2>1, <2>3 DEF InitRecord
    <2>5. connections' \in [Conns -> Named \cup {NoConn}]
      BY <1>1, <2>2, <2>4
    <2>6. Active' = Active
      BY <1>1, <2>2, <2>4 DEF Active
    <2>7. TypeOK'
      BY <1>1, <1>3, <2>4, <2>5 DEF Named
    <2>8. CountInv'
      BY <1>2, <2>4, <2>6 DEF CountInv
    <2>. QED BY <2>7, <2>8
  <1>6. CASE cleanup_connection_after_ssl(c)
    <2>. HIDE DEF Named
    <2>1. connections' = [connections EXCEPT ![c] = NoConn] /\ connections[c] # NoConn
          /\ stats' = [stats EXCEPT !.active = @ - 1] /\ UNCHANGED <<port_list, port_list_len>>
      BY <1>6 DEF cleanup_connection_after_ssl
    <2>2. connections' \in [Conns -> Named \cup {NoConn}]
      BY <1>1, <2>1
    <2>3. Active' = Active \ {c} /\ c \in Active
      BY <1>1, <2>1 DEF Active
    <2>4. IsFiniteSet(Active') /\ Cardinality(Active') = Cardinality(Active) - 1
          /\ Cardinality(Active') \in Nat
      BY <1>2, <2>3, FS_RemoveElement, FS_CardinalityType
    <2>5. stats'.active = stats.active - 1 /\ stats'.total = stats.total
      BY <1>1, <2>1
    <2>6. stats' \in [up : 0..MaxBytes, down : 0..MaxBytes, active : 0..MaxTotal, total : 0..MaxTotal]
      BY <1>1, <1>2, <2>1, <2>4
    <2>7. TypeOK'
      BY <1>3, <2>1, <2>2, <2>6 DEF Named
    <2>8. CountInv'
      BY <1>1, <1>2, <2>4, <2>5 DEF CountInv
    <2>. QED BY <2>7, <2>8
  <1>. QED BY <1>4, <1>5, <1>6

\* Bytes are counted up to the bound; nothing else changes.
LEMMA ForwardsKeeps ==
  ASSUME TypeOK, CountInv, NEW d \in {"up", "down"}, Forwards(d)
  PROVE  TypeOK' /\ CountInv'
  <1>1. stats \in [up : 0..MaxBytes, down : 0..MaxBytes, active : 0..MaxTotal, total : 0..MaxTotal]
        /\ MaxTotal \in Nat /\ MaxBytes \in Nat
    BY StatsAssumption DEF TypeOK
  <1>2. stats[d] < MaxBytes /\ stats' = [stats EXCEPT ![d] = @ + 1]
        /\ UNCHANGED <<connections, port_list, port_list_len>>
    BY DEF Forwards
  <1>3. stats' \in [up : 0..MaxBytes, down : 0..MaxBytes, active : 0..MaxTotal, total : 0..MaxTotal]
        /\ stats'.active = stats.active /\ stats'.total = stats.total
    <2>1. CASE d = "up"
      BY <1>1, <1>2, <2>1
    <2>2. CASE d = "down"
      BY <1>1, <1>2, <2>2
    <2>. QED BY <2>1, <2>2
  <1>4. TypeOK'
    BY <1>2, <1>3 DEF TypeOK
  <1>5. Active' = Active
    BY <1>2 DEF Active
  <1>6. CountInv'
    BY <1>3, <1>5 DEF CountInv
  <1>. QED BY <1>4, <1>6

\* httpd_log adds a line that is right, and notes its totals.
LEMMA LogKeeps ==
  ASSUME SInv, httpd_log
  PROVE  SInv'
  <1>1. TypeOK /\ CountInv /\ LogInv /\ ChartInv
    BY DEF SInv
  <1>2. log' = Append(log, Line) /\ last' = [up |-> stats.up, down |-> stats.down]
        /\ UNCHANGED connections /\ UNCHANGED stats /\ UNCHANGED port_list /\ UNCHANGED port_list_len
        /\ UNCHANGED chart
    BY DEF httpd_log
  <1>. DEFINE N == Len(log)
              l == Line
  <1>3. log \in Seq(Lines) /\ N \in Nat /\ \A n \in 1..N : log[n] \in Lines
    BY <1>1 DEF LogInv
  <1>4. last = Totals(log, N)
    BY <1>1 DEF LogInv
  <1>5. last.up \in Int /\ last.down \in Int
    <2>1. \A x \in Lines : x.tot_up \in Int /\ x.tot_down \in Int
      BY DEF Lines
    <2>2. CASE N = 0
      BY <1>4, <2>2 DEF Totals
    <2>3. CASE N # 0
      <3>1. N \in 1..N
        BY <1>3, <2>3
      <3>2. log[N].tot_up \in Int /\ log[N].tot_down \in Int
        BY <1>3, <2>1, <3>1
      <3>. QED BY <1>4, <2>3, <3>2 DEF Totals
    <2>. QED BY <2>2, <2>3
  <1>6. /\ l \in Lines /\ LineRight(l)
        /\ l.up = stats.up - last.up /\ l.down = stats.down - last.down
        /\ l.tot_up = stats.up /\ l.tot_down = stats.down
    BY <1>1, <1>5, LineIs
  <1>. HIDE DEF l
  <1>7. log' \in Seq(Lines) /\ Len(log') = N + 1 /\ log'[N + 1] = l
        /\ \A n \in 1..N : log'[n] = log[n]
    <2>1. log' = Append(log, l)
      BY <1>2 DEF l
    <2>. QED BY <1>3, <1>6, <2>1
  <1>8. \A n \in 0..N : Totals(log', n) = Totals(log, n)
    <2>. TAKE n \in 0..N
    <2>1. n = 0 \/ n \in 1..N
      BY <1>3
    <2>. QED BY <1>7, <2>1, Zenon DEF Totals
  <1>9. Totals(log', N + 1) = [up |-> stats.up, down |-> stats.down]
    <2>1. N + 1 # 0
      BY <1>3
    <2>. QED BY <1>6, <1>7, <2>1, Zenon DEF Totals
  <1>10. ASSUME NEW n \in 1..(N + 1)
         PROVE  /\ LineRight(log'[n])
                /\ log'[n].up = Totals(log', n).up - Totals(log', n - 1).up
                /\ log'[n].down = Totals(log', n).down - Totals(log', n - 1).down
    <2>1. CASE n = N + 1
      <3>1. n - 1 = N /\ N \in 0..N
        BY <1>3, <2>1
      <3>2. Totals(log', n - 1) = last
        BY <1>4, <1>8, <3>1, Zenon
      <3>3. Totals(log', n).up = stats.up /\ Totals(log', n).down = stats.down
        BY <1>9, <2>1
      <3>. QED BY <1>6, <1>7, <2>1, <3>2, <3>3
    <2>2. CASE n \in 1..N
      <3>1. n \in 0..N /\ n - 1 \in 0..N
        BY <1>3, <2>2
      <3>2. Totals(log', n) = Totals(log, n) /\ Totals(log', n - 1) = Totals(log, n - 1) /\ log'[n] = log[n]
        BY <1>7, <1>8, <2>2, <3>1, Zenon
      <3>3. /\ LineRight(log[n])
            /\ log[n].up = Totals(log, n).up - Totals(log, n - 1).up
            /\ log[n].down = Totals(log, n).down - Totals(log, n - 1).down
        BY <1>1, <2>2, Zenon DEF LogInv
      <3>. QED BY <3>2, <3>3, Zenon
    <2>. QED BY <1>3, <2>1, <2>2
  <1>11. LogInv'
    <2>1. last' = Totals(log', Len(log'))
      BY <1>2, <1>7, <1>9, Zenon
    <2>2. \A n \in 1..Len(log') :
            /\ LineRight(log'[n])
            /\ log'[n].up = Totals(log', n).up - Totals(log', n - 1).up
            /\ log'[n].down = Totals(log', n).down - Totals(log', n - 1).down
      BY <1>7, <1>10, Zenon
    <2>. QED BY <1>7, <2>1, <2>2, Zenon DEF LogInv, Totals, LineRight, Agrees, Ascending
  <1>12. ChartInv'
    <2>1. \A m \in 1..N : m \in 1..Len(log')
      BY <1>3, <1>7
    <2>2. ASSUME NEW n \in DOMAIN chart
          PROVE  \E m \in 1..Len(log') :
                   chart[n] = httpd_log_fmt_port(log'[m], port_list, port_list_len)
      <3>1. PICK m \in 1..N : chart[n] = httpd_log_fmt_port(log[m], port_list, port_list_len)
        BY <1>1, Zenon DEF ChartInv
      <3>2. m \in 1..Len(log') /\ log'[m] = log[m]
        BY <1>7, <2>1, <3>1
      <3>. QED BY <3>1, <3>2, Zenon
    <2>. QED BY <1>1, <1>2, <2>2, Zenon DEF ChartInv, Rising
  <1>13. TypeOK'
    BY <1>1, <1>2 DEF TypeOK
  <1>14. CountInv'
    BY <1>1, <1>2 DEF CountInv, Active
  <1>. QED BY <1>11, <1>12, <1>13, <1>14 DEF SInv

\* A chart takes its columns from the last line, and its rows from the log.
LEMMA ChartKeeps ==
  ASSUME SInv, NEW e \in 1..2, httpd_port_users_handler(e)
  PROVE  SInv'
  <1>1. TypeOK /\ CountInv /\ LogInv /\ ChartInv
    BY DEF SInv
  <1>. DEFINE N == Len(log)
              ps == log[N].ports
              list == [i \in 0..MAX_PORTS |-> IF i < Len(ps) THEN ps[i + 1].port ELSE port_list[i]]
  <1>2. UNCHANGED connections /\ UNCHANGED stats /\ UNCHANGED last /\ UNCHANGED log /\ log # << >>
    BY DEF httpd_port_users_handler
  <1>3. IF Len(ps) >= MAX_PORTS
        THEN aborted' = TRUE /\ UNCHANGED <<port_list, port_list_len, chart>>
        ELSE /\ port_list' = list /\ port_list_len' = Len(ps)
             /\ chart' = httpd_log_to_js(e, list, Len(ps))
             /\ UNCHANGED aborted
    BY Zenon DEF httpd_port_users_handler
  <1>. HIDE DEF list
  <1>4. CountInv' /\ connections' = connections /\ stats' = stats
    BY <1>1, <1>2 DEF CountInv, Active
  <1>5. LogInv'
    BY <1>1, <1>2 DEF LogInv, Totals, LineRight, Agrees, Ascending
  <1>6. CASE Len(ps) >= MAX_PORTS
    <2>1. UNCHANGED port_list /\ UNCHANGED port_list_len /\ UNCHANGED chart
      BY <1>3, <1>6
    <2>2. ChartInv'
      BY <1>1, <1>2, <2>1 DEF ChartInv, Rising
    <2>3. TypeOK'
      BY <1>1, <1>4, <2>1 DEF TypeOK
    <2>. QED BY <1>4, <1>5, <2>2, <2>3 DEF SInv
  <1>7. CASE ~(Len(ps) >= MAX_PORTS)
    <2>1. port_list' = list /\ port_list_len' = Len(ps) /\ chart' = httpd_log_to_js(e, list, Len(ps))
      BY <1>3, <1>7
    <2>2. N \in Nat /\ N \in 1..N /\ log[N] \in Lines
      BY <1>1, <1>2 DEF LogInv
    <2>3. ps \in PortStats /\ Ascending(ps) /\ \A i \in DOMAIN ps : ps[i].port \in Ports \cup {-1}
      <3>1. ps \in PortStats
        BY <2>2 DEF Lines
      <3>. QED BY <1>1, <2>2, <3>1 DEF LogInv, LineRight
    <2>. HIDE DEF ps
    <2>4. Len(ps) \in Nat /\ DOMAIN ps = 1..Len(ps) /\ \A i \in 1..Len(ps) : ps[i].port \in Int
      BY <2>3, PortStatsIs
    <2>5. Len(ps) \in 0..(MAX_PORTS - 1) /\ MAX_PORTS \in Nat
      BY <1>7, <2>4, StatsAssumption
    <2>6. list \in [0..MAX_PORTS -> Ports \cup {0, -1}]
      <3>1. ASSUME NEW i \in 0..MAX_PORTS, i < Len(ps) PROVE ps[i + 1].port \in Ports \cup {0, -1}
        <4>1. i + 1 \in DOMAIN ps
          BY <2>4, <2>5, <3>1
        <4>. QED BY <2>3, <4>1
      <3>2. \A i \in 0..MAX_PORTS : port_list[i] \in Ports \cup {0, -1}
        BY <1>1 DEF TypeOK
      <3>. QED BY <3>1, <3>2 DEF list
    <2>7. \A i \in 0..(Len(ps) - 1) : list[i] = ps[i + 1].port /\ i + 1 \in DOMAIN ps
      BY <2>4, <2>5 DEF list
    <2>8. Rising(list, Len(ps))
      <3>1. ASSUME NEW i \in 0..(Len(ps) - 1), NEW j \in 0..(Len(ps) - 1), i < j PROVE list[i] < list[j]
        <4>1. i + 1 < j + 1
          BY <3>1
        <4>2. ps[i + 1].port < ps[j + 1].port
          BY <2>3, <2>7, <4>1, Zenon DEF Ascending
        <4>. QED BY <2>7, <4>2
      <3>. QED BY <3>1 DEF Rising
    <2>9. ASSUME NEW i \in 1..(N \div e) PROVE i * e \in 1..N
      <3>1. CASE e = 1
        BY <2>2, <3>1
      <3>2. CASE e = 2
        BY <2>2, <3>2
      <3>. QED BY <3>1, <3>2
    <2>10. chart' = [i \in 1..(N \div e) |-> httpd_log_fmt_port(log[i * e], list, Len(ps))]
      BY <2>1, Zenon DEF httpd_log_to_js
    <2>11. ASSUME NEW i \in DOMAIN chart'
           PROVE  \E m \in 1..N : chart'[i] = httpd_log_fmt_port(log[m], list, Len(ps))
      <3>1. i \in 1..(N \div e)
        BY <2>10, Zenon
      <3>. QED BY <2>9, <2>10, <3>1, Zenon
    <2>12. ChartInv'
      BY <1>2, <2>1, <2>6, <2>8, <2>11, Zenon DEF ChartInv, Rising
    <2>13. TypeOK'
      BY <1>1, <1>4, <2>1, <2>5, <2>6 DEF TypeOK
    <2>. QED BY <1>4, <1>5, <2>12, <2>13 DEF SInv
  <1>. QED BY <1>6, <1>7

\* No step leaves the invariant.
LEMMA NextSInv == SInv /\ [Next]_vars => SInv'
  <1>. SUFFICES ASSUME SInv, [Next]_vars PROVE SInv'
    OBVIOUS
  <1>0. TypeOK /\ CountInv /\ LogInv /\ ChartInv
    BY DEF SInv
  <1>1. ASSUME NEW c \in Conns,
               \/ handle_bro_connection(c)
               \/ \E ip \in Ips, p \in Ports : InitRecord(c, ip, p)
               \/ cleanup_connection_after_ssl(c)
        PROVE  SInv'
    <2>1. UNCHANGED LogAndCharts
      BY <1>1 DEF handle_bro_connection, InitRecord, cleanup_connection_after_ssl, LogAndCharts
    <2>2. TypeOK' /\ CountInv'
      BY <1>0, <1>1, ConnectionsKeep
    <2>. QED BY <1>0, <2>1, <2>2, Untouched DEF SInv
  <1>2. ASSUME NEW d \in {"up", "down"}, Forwards(d) PROVE SInv'
    <2>1. UNCHANGED LogAndCharts
      BY <1>2 DEF Forwards, LogAndCharts
    <2>2. TypeOK' /\ CountInv'
      BY <1>0, <1>2, ForwardsKeeps
    <2>. QED BY <1>0, <2>1, <2>2, Untouched DEF SInv
  <1>3. CASE httpd_log
    BY <1>3, LogKeeps
  <1>4. ASSUME NEW e \in 1..2, httpd_port_users_handler(e) PROVE SInv'
    BY <1>4, ChartKeeps
  <1>5. CASE UNCHANGED vars
    <2>1. UNCHANGED LogAndCharts
      BY <1>5 DEF vars, LogAndCharts
    <2>2. TypeOK'
      BY <1>0, <1>5 DEF TypeOK, vars
    <2>3. CountInv'
      BY <1>0, <1>5 DEF CountInv, Active, vars
    <2>. QED BY <1>0, <2>1, <2>2, <2>3, Untouched DEF SInv
  <1>. QED BY <1>1, <1>2, <1>3, <1>4, <1>5, Zenon DEF Next

-----------------------------------------------------------------------------
(* Theorems.                                                               *)

\* The inductive invariant of the statistics holds, for any connections, ports
\* and clients, any length of the log and any size of port_list.
THEOREM SInvHolds == Spec => []SInv
  BY InitSInv, NextSInv, PTL DEF Spec

\* The counters stay in their ranges: active_connections is never negative and
\* never above the total, and the columns fit in port_list (TypeOK).
THEOREM StatsTypeOK == Spec => []TypeOK
  <1>1. SInv => TypeOK
    BY DEF SInv
  <1>. QED BY <1>1, SInvHolds, PTL

\* active_connections is the number of connections in the table, always: every
\* connection is counted once when it comes and once when it goes.
THEOREM ActiveIsCounted == Spec => [](IsFiniteSet(Active) /\ stats.active = Cardinality(Active))
  <1>1. SInv => IsFiniteSet(Active) /\ stats.active = Cardinality(Active)
    BY DEF SInv, CountInv
  <1>. QED BY <1>1, SInvHolds, PTL

\* The intervals of the log add up to the totals of its last line, for a log of
\* any length (IntervalsAddUp).
THEOREM LogAddsUp == Spec => []IntervalsAddUp
  <1>1. SInv => IntervalsAddUp
    <2>. SUFFICES ASSUME SInv, log # << >> PROVE
           /\ SumOf([i \in DOMAIN log |-> log[i].up]) = log[Len(log)].tot_up
           /\ SumOf([i \in DOMAIN log |-> log[i].down]) = log[Len(log)].tot_down
      BY DEF IntervalsAddUp
    <2>. DEFINE N == Len(log)
    <2>1. log \in Seq(Lines) /\ N \in Nat /\ N # 0 /\ DOMAIN log = 1..N /\ \A n \in 1..N : log[n] \in Lines
      BY DEF SInv, LogInv
    <2>2. \A x \in Lines : x.tot_up \in Int /\ x.tot_down \in Int /\ x.up \in Int /\ x.down \in Int
      BY DEF Lines
    <2>3. \A n \in 0..N : Totals(log, n).up \in Int /\ Totals(log, n).down \in Int
      BY <2>1, <2>2 DEF Totals
    <2>4. \A n \in 1..N : /\ log[n].up = Totals(log, n).up - Totals(log, n - 1).up
                          /\ log[n].down = Totals(log, n).down - Totals(log, n - 1).down
      BY DEF SInv, LogInv
    <2>5. /\ Totals(log, 0).up = 0 /\ Totals(log, 0).down = 0
          /\ Totals(log, N).up = log[N].tot_up /\ Totals(log, N).down = log[N].tot_down
      BY <2>1 DEF Totals
    <2>6. SumOf([i \in DOMAIN log |-> log[i].up]) = log[N].tot_up
      <3>. DEFINE s == [i \in DOMAIN log |-> log[i].up]
                  g == [n \in 0..N |-> Totals(log, n).up]
      <3>1. s \in Seq(Int) /\ Len(s) = N
        BY <2>1, <2>2
      <3>2. g \in [0..Len(s) -> Int] /\ g[0] = 0 /\ g[Len(s)] = log[N].tot_up
        BY <2>1, <2>3, <2>5, <3>1
      <3>3. \A i \in 1..Len(s) : g[i] = g[i - 1] + s[i]
        BY <2>1, <2>3, <2>4, <3>1, SMTT(40)
      <3>. HIDE DEF g, s
      <3>4. SumOf(s) = log[N].tot_up
        BY <3>1, <3>2, <3>3, SumIs, Zenon
      <3>. QED BY <3>4 DEF s
    <2>7. SumOf([i \in DOMAIN log |-> log[i].down]) = log[N].tot_down
      <3>. DEFINE s == [i \in DOMAIN log |-> log[i].down]
                  g == [n \in 0..N |-> Totals(log, n).down]
      <3>1. s \in Seq(Int) /\ Len(s) = N
        BY <2>1, <2>2
      <3>2. g \in [0..Len(s) -> Int] /\ g[0] = 0 /\ g[Len(s)] = log[N].tot_down
        BY <2>1, <2>3, <2>5, <3>1
      <3>3. \A i \in 1..Len(s) : g[i] = g[i - 1] + s[i]
        BY <2>1, <2>3, <2>4, <3>1, SMTT(40)
      <3>. HIDE DEF g, s
      <3>4. SumOf(s) = log[N].tot_down
        BY <3>1, <3>2, <3>3, SumIs, Zenon
      <3>. QED BY <3>4 DEF s
    <2>. QED BY <2>6, <2>7
  <1>. QED BY <1>1, SInvHolds, PTL

\* Every line of the log agrees with itself: the connections by port add up to
\* the connections, which are the active ones, and no port has more users than
\* connections or than there are clients (LinesConsistent).
THEOREM LinesAgree == Spec => []LinesConsistent
  <1>1. SInv => LinesConsistent
    <2>. SUFFICES ASSUME SInv PROVE LinesConsistent
      OBVIOUS
    <2>1. DOMAIN log = 1..Len(log)
      BY DEF SInv, LogInv
    <2>. QED BY <2>1, Zenon DEF SInv, LogInv, LineRight, LinesConsistent
  <1>. QED BY <1>1, SInvHolds, PTL

\* The loops of httpd_log_fmt_port lay out every row right up to its first port
\* without a column, for any lines and columns (KnownPortsAligned).
THEOREM RowsAligned == Spec => []KnownPortsAligned
  <1>1. SInv => KnownPortsAligned
    <2>. SUFFICES ASSUME SInv, NEW n \in DOMAIN chart, NEW c \in 0..port_list_len,
                         Known(chart[n].ports, port_list, port_list_len, c)
                  PROVE  Aligned(chart[n], port_list, port_list_len, c)
      BY DEF KnownPortsAligned
    <2>1. PICK m \in 1..Len(log) : chart[n] = httpd_log_fmt_port(log[m], port_list, port_list_len)
      BY DEF SInv, ChartInv
    <2>2. log[m] \in Lines /\ LineRight(log[m])
      BY DEF SInv, LogInv
    <2>3. log[m].ports \in PortStats /\ Ascending(log[m].ports)
      BY <2>2 DEF Lines, LineRight
    <2>4. chart[n].ports = log[m].ports
      BY <2>1 DEF httpd_log_fmt_port
    <2>5. port_list \in Lists /\ port_list_len \in 0..(MAX_PORTS - 1) /\ Rising(port_list, port_list_len)
      <3>1. Ports \cup {0, -1} \subseteq Int
        BY StatsAssumption
      <3>2. port_list \in [0..MAX_PORTS -> Ports \cup {0, -1}] /\ Rising(port_list, port_list_len)
        BY DEF SInv, ChartInv
      <3>3. port_list \in Lists
        BY <3>1, <3>2 DEF Lists
      <3>4. port_list_len \in 0..(MAX_PORTS - 1)
        BY DEF SInv, TypeOK
      <3>. QED BY <3>2, <3>3, <3>4
    <2>. QED BY <2>1, <2>3, <2>4, <2>5, RowAligned, Zenon
  <1>. QED BY <1>1, SInvHolds, PTL

-----------------------------------------------------------------------------
(* Arithmetic with a modulus that is not a number.                         *)

\* A positive multiple of d is at least d.
LEMMA MultipleAtLeast ==
  ASSUME NEW c \in Nat, NEW d \in Nat, c > 0
  PROVE  c * d >= d
BY SMT

\* Multiplication distributes over a difference.
LEMMA Difference ==
  ASSUME NEW j \in Nat, NEW k \in Nat, NEW d \in Nat
  PROVE  (j - k) * d = j * d - k * d /\ j * d \in Nat /\ k * d \in Nat
BY SMT

\* One less in a factor.
LEMMA OneLess ==
  ASSUME NEW q \in Nat, NEW d \in Nat, d > 0
  PROVE  q * d = q * (d - 1) + q /\ q * (d - 1) \in Nat
BY SMT

\* Division with remainder, for the fold of csum.
LEMMA DivMod ==
  ASSUME NEW s \in Nat, NEW d \in Nat, d > 0
  PROVE  /\ s \div d \in Nat
         /\ s % d \in 0..(d - 1)
         /\ s = (s \div d) * d + (s % d)
BY SMT

\* Two words that differ by a multiple of Base - 1 and are zero together only
\* are equal.
LEMMA SameResidue ==
  ASSUME NEW a \in Word, NEW b \in Word, NEW j \in Nat, NEW k \in Nat,
         j * (Base - 1) + a = k * (Base - 1) + b,
         a = 0 <=> b = 0
  PROVE  a = b
<1> DEFINE d == Base - 1
<1>1. d \in Nat /\ d > 0 /\ a \in 0..d /\ b \in 0..d
  BY BaseAssumption DEF Word
<1>0. j * d + a = k * d + b
  OBVIOUS
<1> HIDE DEF d
<1>2. CASE j > k
  <2>1. (j - k) * d = b - a  BY <1>0, <1>1, Difference
  <2>2. (j - k) * d >= d  BY <1>1, <1>2, MultipleAtLeast
  <2> QED  BY <1>1, <2>1, <2>2
<1>3. CASE k > j
  <2>1. (k - j) * d = k * d - j * d /\ k * d \in Nat /\ j * d \in Nat
    BY <1>1, Difference
  <2>2. (k - j) * d >= d  BY <1>1, <1>3, MultipleAtLeast
  <2> QED  BY <1>0, <1>1, <2>1, <2>2
<1>4. CASE j = k
  <2>1. j * d \in Nat  BY <1>1
  <2> QED  BY <1>0, <1>1, <1>4, <2>1
<1> QED  BY <1>2, <1>3, <1>4

-----------------------------------------------------------------------------
(* The two folds of csum.                                                  *)

\* What the folds leave of a two-word sum: a word that is equal to the sum
\* modulo Base - 1, and zero only when the sum is.
LEMMA FoldResidue ==
  ASSUME NEW s \in 0..(Base * Base - 1)
  PROVE  /\ Fold(s) % Base \in Word
         /\ \E j \in Nat : s = j * (Base - 1) + (Fold(s) % Base)
         /\ Fold(s) % Base = 0 <=> s = 0
<1> DEFINE q == s \div Base
           t == s % Base
           once == q + t
<1>1. Base \in Nat /\ Base > 1 /\ Base * Base \in Nat /\ s \in Nat
  BY BaseAssumption
<1>2. q \in Nat /\ t \in 0..(Base - 1) /\ s = q * Base + t
  BY <1>1, DivMod
<1>3. q < Base
  <2>1. SUFFICES ASSUME q >= Base PROVE FALSE  BY <1>1, <1>2
  <2>2. q * Base >= Base * Base
    <3>1. (q - Base) * Base = q * Base - Base * Base /\ (q - Base) * Base >= 0
      BY <1>1, <1>2, <2>1, Difference
    <3> QED  BY <1>1, <1>2, <3>1, Difference
  <2> QED  BY <1>1, <1>2, <2>2
<1>4. Fold(s) = once + (once \div Base)
  BY DEF Fold
<1> HIDE DEF q, t
<1>5. q * Base = q * (Base - 1) + q /\ q * (Base - 1) \in Nat
  BY <1>1, <1>2, OneLess
<1>6. CASE once < Base
  <2>1. once \div Base = 0 /\ once % Base = once
    BY <1>1, <1>2, <1>6
  <2>2. Fold(s) % Base = once
    BY <1>2, <1>4, <2>1
  <2>3. s = q * (Base - 1) + once
    BY <1>1, <1>2, <1>5
  <2>4. once = 0 <=> s = 0
    BY <1>1, <1>2, <1>5, <2>3
  <2>5. q \in Nat /\ once \in 0..(Base - 1)
    BY <1>1, <1>2, <1>6
  <2> HIDE DEF once
  <2> QED  BY <2>2, <2>3, <2>4, <2>5 DEF Word
<1>7. CASE once >= Base
  <2>1. once \in Base..(2 * Base - 2)
    BY <1>1, <1>2, <1>3, <1>7
  <2>2. once \div Base = 1
    BY <1>1, <2>1
  <2>3. Fold(s) % Base = once - (Base - 1)
    BY <1>1, <1>4, <2>1, <2>2
  <2>4. (q + 1) * (Base - 1) = q * (Base - 1) + (Base - 1)
    BY <1>1, <1>2
  <2>5. s = (q + 1) * (Base - 1) + (once - (Base - 1))
    BY <1>1, <1>2, <1>5, <2>4
  <2>6. once - (Base - 1) \in 1..(Base - 1) /\ s > 0
    BY <1>1, <1>2, <1>5, <2>1
  <2>7. q + 1 \in Nat /\ once - (Base - 1) \in 0..(Base - 1) /\ once - (Base - 1) # 0 /\ s # 0
    BY <1>1, <1>2, <2>6
  <2> HIDE DEF once
  <2>8. \E j \in Nat : s = j * (Base - 1) + (Fold(s) % Base)
    BY <2>3, <2>5, <2>7
  <2> QED  BY <2>3, <2>7, <2>8 DEF Word
<1> QED  BY <1>1, <1>2, <1>6, <1>7

-----------------------------------------------------------------------------
(* The loop.                                                               *)

\* The sum has room for all words: MaxWords * (Base - 1) < Base * Base.
LEMMA Room ==
  ASSUME NEW m \in 0..MaxWords
  PROVE  m * (Base - 1) \in 0..(Base * Base - 1)
<1>1. Base \in Nat /\ Base > 1 /\ m \in Nat /\ m <= Base + 1
  BY BaseAssumption, MaxWordsAssumption
<1>2. (Base + 1) * (Base - 1) = Base * Base - 1
  BY <1>1
<1>3. ((Base + 1) - m) * (Base - 1) = (Base + 1) * (Base - 1) - m * (Base - 1)
  BY <1>1, Difference
<1>4. ((Base + 1) - m) * (Base - 1) >= 0 /\ m * (Base - 1) \in Nat
  BY <1>1
<1> QED  BY <1>1, <1>2, <1>3, <1>4

\* A word added keeps the loop's invariant.
LEMMA AddInv ==
  ASSUME CsumInv, NEW w \in Word, Add(w)
  PROVE  CsumInv'
<1>1. Base \in Nat /\ Base > 1 /\ w \in 0..(Base - 1) /\ MaxWords \in Nat
  BY BaseAssumption, MaxWordsAssumption DEF Word
<1>2. words \in 0..MaxWords /\ sum \in Nat /\ ref \in 0..(Base - 1) /\ sum <= words * (Base - 1)
  BY BaseAssumption DEF CsumInv, CsumTypeOK, Word
<1>3. words' = words + 1 /\ words' \in 0..MaxWords
  BY <1>1, <1>2 DEF Add
<1>4. words' * (Base - 1) = words * (Base - 1) + (Base - 1) /\ words * (Base - 1) \in Nat
  BY <1>1, <1>2, <1>3
<1>5. sum + w <= words' * (Base - 1) /\ sum + w \in 0..(Base * Base - 1)
  BY <1>1, <1>2, <1>3, <1>4, Room
<1>6. sum' = sum + w
  <2>1. Base * Base \in Nat  BY <1>1
  <2>2. sum' = (sum + w) % (Base * Base)  BY DEF Add, Plus
  <2> QED  BY <1>5, <2>1, <2>2
<1>7. ref' \in 0..(Base - 1) /\ (ref' = 0 <=> sum' = 0)
  <2>1. ref' = IF ref + w < Base THEN ref + w ELSE ref + w - (Base - 1)
    BY DEF Add, EndAround
  <2>2. ref = 0 <=> sum = 0  BY DEF CsumInv
  <2> QED  BY <1>1, <1>2, <1>6, <2>1, <2>2
<1>8. \E k \in 0..sum' : sum' = k * (Base - 1) + ref'
  <2>1. PICK k \in 0..sum : sum = k * (Base - 1) + ref
    BY DEF CsumInv
  <2>2. k * (Base - 1) \in Nat /\ (k + 1) * (Base - 1) = k * (Base - 1) + (Base - 1)
    BY <1>1, <1>2
  <2>3. CASE ref + w < Base
    <3>1. ref' = ref + w  BY <2>3 DEF Add, EndAround
    <3>2. k \in 0..sum' /\ sum' = k * (Base - 1) + ref'
      BY <1>1, <1>2, <1>6, <2>1, <2>2, <3>1
    <3> QED  BY <3>2
  <2>4. CASE ~(ref + w < Base)
    <3>1. ref' = ref + w - (Base - 1)  BY <2>4 DEF Add, EndAround
    <3>2. sum' = (k + 1) * (Base - 1) + ref'
      BY <1>1, <1>2, <1>6, <2>1, <2>2, <3>1
    <3>3. w >= 1
      BY <1>1, <1>2, <2>4
    <3>4. k + 1 \in 0..sum'
      BY <1>1, <1>2, <1>6, <2>1, <3>3
    <3> QED  BY <3>2, <3>4
  <2> QED  BY <2>3, <2>4
<1> QED  BY <1>3, <1>5, <1>6, <1>7, <1>8 DEF CsumInv, CsumTypeOK, Word

\* The loop of csum keeps the sum in step with one's complement addition and
\* never lets it wrap.
THEOREM LoopInvariance == CsumSpec => []CsumInv
<1>1. CsumInit => CsumInv
  <2> SUFFICES ASSUME CsumInit PROVE CsumInv  OBVIOUS
  <2>1. words = 0 /\ sum = 0 /\ ref = 0  BY DEF CsumInit
  <2>2. 0 * (Base - 1) = 0 /\ Base * Base - 1 \in Nat /\ 0 \in 0..(Base - 1)
    BY BaseAssumption
  <2>3. 0 \in 0..MaxWords /\ 0 \in 0..(Base * Base - 1)
    BY MaxWordsAssumption, <2>2
  <2>4. \E k \in 0..sum : sum = k * (Base - 1) + ref
    BY <2>1, <2>2
  <2> QED  BY <2>1, <2>2, <2>3, <2>4 DEF CsumInv, CsumTypeOK, Word
<1>2. CsumInv /\ [CsumNext]_csum_vars => CsumInv'
  <2> SUFFICES ASSUME CsumInv, [CsumNext]_csum_vars PROVE CsumInv'  OBVIOUS
  <2>1. CASE CsumNext  BY <2>1, AddInv DEF CsumNext
  <2>2. CASE UNCHANGED csum_vars  BY <2>2 DEF csum_vars, CsumInv, CsumTypeOK
  <2> QED  BY <2>1, <2>2
<1> QED  BY <1>1, <1>2, PTL DEF CsumSpec

\* What csum returns is the complement of the one's complement sum, for every
\* word size: the checksum that telex_tcp_forge_xmit puts into a packet is right.
THEOREM CsumCorrect == CsumSpec => []CsumIsReference
<1>1. CsumInv => CsumIsReference
  <2> SUFFICES ASSUME CsumInv PROVE CsumIsReference  OBVIOUS
  <2>1. sum \in 0..(Base * Base - 1) /\ ref \in Word /\ (ref = 0 <=> sum = 0)
    BY DEF CsumInv, CsumTypeOK
  <2>2. PICK k \in 0..sum : sum = k * (Base - 1) + ref
    BY DEF CsumInv
  <2>3. k \in Nat  BY <2>1, BaseAssumption
  <2>4. PICK j \in Nat : sum = j * (Base - 1) + (Fold(sum) % Base)
    BY <2>1, FoldResidue
  <2>5. Fold(sum) % Base \in Word /\ (Fold(sum) % Base = 0 <=> sum = 0)
    BY <2>1, FoldResidue
  <2>6. Fold(sum) % Base = ref
    BY <2>1, <2>2, <2>3, <2>4, <2>5, SameResidue
  <2> QED  BY <2>6 DEF CsumIsReference, csum
<1> QED  BY <1>1, LoopInvariance, PTL
=============================================================================
