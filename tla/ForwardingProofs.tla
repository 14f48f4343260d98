-------------------------- MODULE ForwardingProofs --------------------------
(***************************************************************************)
(* Theorems about Forwarding, for buffers, records and sockets of any size *)
(* and any number of bytes.                                                *)
(***************************************************************************)
EXTENDS Forwarding, TLAPS

-----------------------------------------------------------------------------
(* Sequences, element by element.                                          *)

\* First takes a beginning.
LEMMA FirstIs ==
  ASSUME NEW S, NEW s \in Seq(S), NEW n \in Nat
  PROVE  /\ First(s, n) \in Seq(S) /\ Len(First(s, n)) = Least(n, Len(s))
         /\ Least(n, Len(s)) \in Nat /\ Least(n, Len(s)) <= n /\ Least(n, Len(s)) <= Len(s)
         /\ \A i \in 1..Least(n, Len(s)) : First(s, n)[i] = s[i]
BY DEF First, Least

\* Rest takes what First leaves.
LEMMA RestIs ==
  ASSUME NEW S, NEW s \in Seq(S), NEW n \in Nat
  PROVE  /\ Rest(s, n) \in Seq(S)
         /\ Len(Rest(s, n)) = IF n <= Len(s) THEN Len(s) - n ELSE 0
         /\ \A i \in 1..Len(Rest(s, n)) : Rest(s, n)[i] = s[n + i]
BY SMTT(40) DEF Rest

\* Concatenation.
LEMMA JoinIs ==
  ASSUME NEW S, NEW s \in Seq(S), NEW t \in Seq(S)
  PROVE  /\ s \o t \in Seq(S) /\ Len(s \o t) = Len(s) + Len(t)
         /\ \A i \in 1..Len(s) : (s \o t)[i] = s[i]
         /\ \A i \in 1..Len(t) : (s \o t)[Len(s) + i] = t[i]
OBVIOUS

\* One more element.
LEMMA AppendIs ==
  ASSUME NEW S, NEW s \in Seq(S), NEW e \in S
  PROVE  /\ Append(s, e) \in Seq(S) /\ Len(Append(s, e)) = Len(s) + 1
         /\ \A i \in 1..Len(s) : Append(s, e)[i] = s[i]
         /\ Append(s, e)[Len(s) + 1] = e
OBVIOUS

\* One element less.
LEMMA TailIs ==
  ASSUME NEW S, NEW s \in Seq(S), s # <<>>
  PROVE  /\ Len(s) \in Nat /\ Len(s) >= 1 /\ Head(s) = s[1] /\ Head(s) \in S
         /\ Tail(s) \in Seq(S) /\ Len(Tail(s)) = Len(s) - 1
         /\ \A i \in 1..Len(s) - 1 : Tail(s)[i] = s[i + 1]
OBVIOUS

\* The bytes 1..n in order.
LEMMA NumbersIs ==
  ASSUME NEW S, NEW s \in Seq(S), NEW n \in Nat, Len(s) = n, \A i \in 1..n : s[i] = i
  PROVE  s = Numbers(n)
BY DEF Numbers

Record == Seq(Bytes) \ {<<>>}

\* A record has bytes.
LEMMA RecordIs ==
  ASSUME NEW r \in Record
  PROVE  r \in Seq(Bytes) /\ Len(r) \in Nat /\ Len(r) >= 1 /\ \A i \in 1..Len(r) : r[i] \in Nat
<1>1. r \in Seq(Bytes) /\ r # <<>>
  BY DEF Record
<1>2. Len(r) \in Nat /\ Len(r) >= 1 /\ \A i \in 1..Len(r) : r[i] \in Bytes
  BY <1>1
<1>3. \A x \in Bytes : x \in Nat
  BY SizesAssumption DEF Bytes
<1>. QED  BY <1>1, <1>2, <1>3

\* The records after the first start where it ends.
LEMMA FollowTail ==
  ASSUME NEW rs \in Seq(Record), rs # <<>>, NEW m \in Nat, NEW n \in Nat, RecordsFollow(rs, m, n)
  PROVE  /\ Tail(rs) \in Seq(Record) /\ Head(rs) \in Record
         /\ \A i \in 1..Len(Head(rs)) : Head(rs)[i] = m + i
         /\ m + Len(Head(rs)) <= n
         /\ RecordsFollow(Tail(rs), m + Len(Head(rs)), n)
<1>. DEFINE r == Head(rs)
            ts == Tail(rs)
<1>1. /\ Len(rs) \in Nat /\ Len(rs) >= 1 /\ r = rs[1] /\ r \in Record
      /\ ts \in Seq(Record) /\ Len(ts) = Len(rs) - 1
      /\ \A k \in 1..Len(rs) - 1 : ts[k] = rs[k + 1]
  BY TailIs
<1>2. Len(r) \in Nat /\ Len(r) >= 1 /\ r[1] \in Nat
  <2>1. Len(r) \in Nat /\ Len(r) >= 1 /\ \A i \in 1..Len(r) : r[i] \in Nat
    BY <1>1, RecordIs
  <2>. QED  BY <2>1
<1>. HIDE DEF r, ts
<1>3. PICK a \in Nat, l \in Nat : a = r[1] /\ l = Len(r)
  BY <1>2
<1>4. /\ m = a - 1 /\ a + l <= n + 1
      /\ a + l = IF 1 = Len(rs) THEN n + 1 ELSE rs[2][1]
  <2>1. 1 \in 1..Len(rs) /\ 1 + 1 = 2
    BY <1>1
  <2>. QED  BY <1>1, <1>3, <2>1, Zenon DEF RecordsFollow
<1>5. m + l <= n /\ (\A i \in 1..Len(r) : r[i] = m + i)
  <2>1. \A i \in 1..l : r[i] = a + i - 1
    BY <1>1, <1>3 DEF RecordsFollow
  <2>2. m + l <= n /\ \A i \in 1..l : a + i - 1 = m + i
    BY <1>4
  <2>. QED  BY <1>3, <2>1, <2>2, Zenon
<1>6. m + l = IF ts = <<>> THEN n ELSE ts[1][1] - 1
  <2>1. CASE Len(rs) = 1
    <3>1. ts = <<>>
      BY <1>1, <2>1
    <3>. QED  BY <1>4, <2>1, <3>1
  <2>2. CASE Len(rs) # 1
    <3>1. ts # <<>> /\ ts[1] = rs[2]
      BY <1>1, <2>2
    <3>. QED  BY <1>4, <2>2, <3>1
  <2>. QED  BY <2>1, <2>2
<1>7. ASSUME NEW k \in 1..Len(ts)
      PROVE  /\ \A i \in 1..Len(ts[k]) : ts[k][i] = ts[k][1] + i - 1
             /\ ts[k][1] + Len(ts[k]) = IF k = Len(ts) THEN n + 1 ELSE ts[k + 1][1]
             /\ ts[k][1] + Len(ts[k]) <= n + 1
  <2>1. /\ k + 1 \in 1..Len(rs) /\ ts[k] = rs[k + 1] /\ (k = Len(ts) <=> k + 1 = Len(rs))
        /\ k # Len(ts) => ts[k + 1] = rs[k + 1 + 1]
    BY <1>1
  <2>. QED  BY <2>1 DEF RecordsFollow
<1>8. RecordsFollow(ts, m + l, n)
  BY <1>7, <1>6, Zenon DEF RecordsFollow
<1>. QED  BY <1>1, <1>3, <1>5, <1>8, Zenon DEF r, ts

\* A record that is sent comes after the others.
LEMMA FollowAppend ==
  ASSUME NEW rs \in Seq(Record), NEW m \in Nat, NEW n \in Nat, RecordsFollow(rs, m, n),
         NEW r \in Record, \A i \in 1..Len(r) : r[i] = n + i
  PROVE  /\ Append(rs, r) \in Seq(Record)
         /\ RecordsFollow(Append(rs, r), m, n + Len(r))
<1>. DEFINE ts == Append(rs, r)
<1>1. /\ ts \in Seq(Record) /\ Len(ts) = Len(rs) + 1 /\ Len(rs) \in Nat
      /\ \A k \in 1..Len(rs) : ts[k] = rs[k]
      /\ ts[Len(rs) + 1] = r
  BY AppendIs
<1>2. Len(r) \in Nat /\ Len(r) >= 1 /\ r[1] = n + 1
  BY RecordIs
<1>. HIDE DEF ts
<1>3. ts # <<>>
  BY <1>1
<1>4. m = ts[1][1] - 1
  <2>1. CASE rs = <<>>
    BY <1>1, <1>2, <2>1 DEF RecordsFollow
  <2>2. CASE rs # <<>>
    <3>1. Len(rs) >= 1
      BY <2>2
    <3>. QED  BY <1>1, <2>2, <3>1 DEF RecordsFollow
  <2>. QED  BY <2>1, <2>2
<1>5. ASSUME NEW k \in 1..Len(ts)
      PROVE  /\ \A i \in 1..Len(ts[k]) : ts[k][i] = ts[k][1] + i - 1
             /\ ts[k][1] + Len(ts[k]) = IF k = Len(ts) THEN n + Len(r) + 1 ELSE ts[k + 1][1]
             /\ ts[k][1] + Len(ts[k]) <= n + Len(r) + 1
  <2>1. CASE k = Len(ts)
    <3>1. ts[k] = r
      BY <1>1, <2>1
    <3>2. \A i \in 1..Len(r) : r[i] = r[1] + i - 1
      <4>1. \A i \in 1..Len(r) : n + i = (n + 1) + i - 1
        BY <1>2
      <4>. QED  BY <1>2, <4>1, Zenon
    <3>3. r[1] + Len(r) = n + Len(r) + 1
      BY <1>2
    <3>. QED  BY <1>2, <2>1, <3>1, <3>2, <3>3, SMTT(40)
  <2>2. CASE k # Len(ts)
    <3>1. k \in 1..Len(rs) /\ ts[k] = rs[k] /\ (k = Len(rs) => ts[k + 1] = r)
          /\ (k # Len(rs) => ts[k + 1] = rs[k + 1])
      BY <1>1, <2>2
    <3>2. \A i \in 1..Len(ts[k]) : ts[k][i] = ts[k][1] + i - 1
      BY <3>1, Zenon DEF RecordsFollow
    <3>3. /\ rs[k][1] + Len(rs[k]) = IF k = Len(rs) THEN n + 1 ELSE rs[k + 1][1]
          /\ rs[k][1] + Len(rs[k]) <= n + 1
      BY <3>1, Zenon DEF RecordsFollow
    <3>4. rs[k] \in Record
      BY <3>1
    <3>5. Len(rs[k]) \in Nat /\ Len(rs[k]) >= 1 /\ rs[k][1] \in Nat
      <4>1. Len(rs[k]) \in Nat /\ Len(rs[k]) >= 1 /\ \A i \in 1..Len(rs[k]) : rs[k][i] \in Nat
        BY <3>4, RecordIs
      <4>. QED  BY <4>1
    <3>6. /\ ts[k][1] + Len(ts[k]) = ts[k + 1][1]
          /\ ts[k][1] + Len(ts[k]) <= n + Len(r) + 1
      BY <1>2, <3>1, <3>5, <3>3, SMTT(40)
    <3>. QED  BY <2>2, <3>2, <3>6
  <2>. QED  BY <2>1, <2>2
<1>6. RecordsFollow(ts, m, n + Len(r))
  BY <1>3, <1>4, <1>5 DEF RecordsFollow
<1>. QED  BY <1>1, <1>6 DEF ts

-----------------------------------------------------------------------------
(* Client to service.                                                      *)

\* What SSL_read gives are the bytes that come after those sent to the
\* service; what it leaves follows them.
LEMMA DecryptedIs ==
  ASSUME IInv, end = "no", Decrypted # <<>>
  PROVE  /\ Decrypted \in Seq(Bytes) /\ Len(Decrypted) \in Nat
         /\ \A i \in 1..Len(Decrypted) : Decrypted[i] = Sent + i
         /\ Sent + Len(Decrypted) <= up
         /\ LET left == IF sslIn # <<>> THEN records ELSE Tail(records) IN
            left \in Seq(Record) /\ RecordsFollow(left, Sent + Len(Decrypted), up)
<1>1. /\ sslIn \in Seq(Bytes) /\ records \in Seq(Record) /\ up \in Nat /\ Sent \in Nat
      /\ Len(sslIn) \in Nat
      /\ RecordsFollow(records, Sent + Len(sslIn), up)
      /\ \A i \in 1..Len(sslIn) : sslIn[i] = Sent + i
  BY SizesAssumption DEF IInv, TypeOK, UpStream, Sent, Bytes, Record
<1>2. CASE sslIn # <<>>
  <2>1. Decrypted = sslIn
    BY <1>2 DEF Decrypted
  <2>2. Sent + Len(sslIn) <= up
    <3>1. CASE records = <<>>
      BY <1>1, <3>1 DEF RecordsFollow
    <3>2. CASE records # <<>>
      <4>1. PICK m \in Nat : m = Sent + Len(sslIn)
        BY <1>1
      <4>2. m + Len(Head(records)) <= up /\ Head(records) \in Record
        BY <1>1, <3>2, <4>1, FollowTail, Zenon
      <4>3. PICK l \in Nat : l = Len(Head(records))
        BY <4>2, RecordIs, Zenon
      <4>4. m + l <= up
        BY <4>2, <4>3, Zenon
      <4>5. m <= up
        BY ONLY <4>4, m \in Nat, l \in Nat, <1>1
      <4>. QED  BY <4>1, <4>5, Zenon
    <3>. QED  BY <3>1, <3>2
  <2>. QED  BY <1>1, <1>2, <2>1, <2>2
<1>3. CASE sslIn = <<>>
  <2>1. records # <<>> /\ Decrypted = Head(records)
    BY <1>3 DEF Decrypted
  <2>2. Len(sslIn) = 0 /\ RecordsFollow(records, Sent, up)
    BY <1>1, <1>3
  <2>3. /\ Tail(records) \in Seq(Record) /\ Head(records) \in Record
        /\ \A i \in 1..Len(Head(records)) : Head(records)[i] = Sent + i
        /\ Sent + Len(Head(records)) <= up
        /\ RecordsFollow(Tail(records), Sent + Len(Head(records)), up)
    BY <1>1, <2>1, <2>2, FollowTail
  <2>4. Head(records) \in Seq(Bytes) /\ Len(Head(records)) \in Nat
    BY <2>3, RecordIs
  <2>. QED  BY <1>3, <2>1, <2>3, <2>4, Zenon
<1>. QED  BY <1>2, <1>3

\* A buffer that goes to the service, whole or not, comes after the others.
LEMMA UpForward ==
  ASSUME IInv, end = "no", Len(svcOut) < SndBuf, forward_client_to_service, UNCHANGED <<up, upGot>>
  PROVE  /\ end' \in {"no", "client", "error"} /\ (end' = "client" => records = <<>>)
         /\ records' \in Seq(Record) /\ sslIn' \in Seq(Bytes) /\ svcOut' \in Seq(Bytes)
         /\ logged' \in BOOLEAN
         /\ UpStream'
<1>1. /\ sslIn \in Seq(Bytes) /\ records \in Seq(Record) /\ svcOut \in Seq(Bytes)
      /\ upGot \in Seq(Bytes) /\ up \in Nat /\ Sent \in Nat /\ logged \in BOOLEAN
      /\ Len(svcOut) \in Nat /\ Len(upGot) \in Nat /\ Len(sslIn) \in Nat
  BY SizesAssumption DEF IInv, TypeOK, Sent, Bytes, Record
<1>2. CASE end' \in {"no", "error"} /\ UNCHANGED <<records, sslIn, svcOut, logged>>
  <2>1. UpStream'
    BY <1>2 DEF IInv, UpStream, Sent
  <2>. QED  BY <1>1, <1>2, <2>1
<1>3. CASE Decrypted = <<>> /\ end' = "client" /\ UNCHANGED <<records, sslIn, svcOut, logged>>
  <2>1. sslIn = <<>> /\ records = <<>>
    <3>1. records # <<>> => Head(records) \in Record
      BY <1>1, TailIs
    <3>2. \A r \in Record : r # <<>>
      BY DEF Record
    <3>. QED  BY <1>3, <3>1, <3>2 DEF Decrypted
  <2>2. Sent = up
    BY <1>1, <2>1 DEF IInv, UpStream, RecordsFollow
  <2>3. UpStream'
    BY <1>3, <2>2 DEF IInv, UpStream, Sent
  <2>. QED  BY <1>1, <1>3, <2>1, <2>3
<1>4. CASE Decrypted # <<>> /\
           \E r \in sendall(First(Decrypted, BUF)) :
             /\ sslIn' = Rest(Decrypted, BUF)
             /\ records' = IF sslIn # <<>> THEN records ELSE Tail(records)
             /\ svcOut' = svcOut \o r.out
             /\ logged' = TRUE
             /\ end' = IF r.ok THEN "no" ELSE "error"
  <2>. DEFINE d == Decrypted
              b == First(d, BUF)
  <2>1. PICK k \in Least(SndBuf - Len(svcOut), Len(b))..Len(b) :
             /\ sslIn' = Rest(d, BUF)
             /\ records' = IF sslIn # <<>> THEN records ELSE Tail(records)
             /\ svcOut' = svcOut \o First(b, k)
             /\ logged' = TRUE
             /\ end' = IF k = Len(b) THEN "no" ELSE "error"
    <3>1. PICK r \in sendall(b) :
             /\ sslIn' = Rest(d, BUF)
             /\ records' = IF sslIn # <<>> THEN records ELSE Tail(records)
             /\ svcOut' = svcOut \o r.out
             /\ logged' = TRUE
             /\ end' = IF r.ok THEN "no" ELSE "error"
      BY <1>4, Zenon
    <3>. HIDE DEF d, b
    <3>2. PICK k \in Least(SndBuf - Len(svcOut), Len(b))..Len(b) :
             r = [ok |-> k = Len(b), out |-> First(b, k)]
      BY <3>1, Zenon DEF sendall
    <3>3. r.ok = (k = Len(b)) /\ r.out = First(b, k)
      BY <3>2, Zenon
    <3>. QED  BY <3>1, <3>3, Zenon
  <2>2. /\ d \in Seq(Bytes) /\ Len(d) \in Nat
        /\ \A i \in 1..Len(d) : d[i] = Sent + i
        /\ Sent + Len(d) <= up
        /\ records' \in Seq(Record) /\ RecordsFollow(records', Sent + Len(d), up)
    BY <1>4, <2>1, DecryptedIs, Zenon
  <2>. HIDE DEF d
  <2>3. BUF \in Nat /\ SndBuf \in Nat
    BY SizesAssumption
  <2>4. /\ b \in Seq(Bytes) /\ Len(b) \in Nat /\ Len(b) = Least(BUF, Len(d))
        /\ Len(b) <= BUF /\ Len(b) <= Len(d)
        /\ \A i \in 1..Len(b) : b[i] = d[i]
    BY <2>2, <2>3, FirstIs, Zenon
  <2>. HIDE DEF b
  <2>5. k \in Nat /\ k <= Len(b)
    BY <1>1, <2>1, <2>3, <2>4 DEF Least
  <2>. DEFINE o == First(b, k)
  <2>6. o \in Seq(Bytes) /\ Len(o) = k /\ \A i \in 1..k : o[i] = d[i]
    <3>1. Least(k, Len(b)) = k
      BY <2>4, <2>5 DEF Least
    <3>2. o \in Seq(Bytes) /\ Len(o) = k /\ \A i \in 1..k : o[i] = b[i]
      BY <2>4, <2>5, <3>1, FirstIs, Zenon
    <3>3. \A i \in 1..k : i \in 1..Len(b)
      BY <2>4, <2>5
    <3>. QED  BY <2>4, <3>2, <3>3, Zenon
  <2>7. svcOut' = svcOut \o o
    BY <2>1
  <2>. HIDE DEF o
  <2>8. /\ svcOut' \in Seq(Bytes) /\ Len(svcOut') = Len(svcOut) + k
        /\ \A i \in 1..Len(svcOut) : svcOut'[i] = svcOut[i]
        /\ \A i \in 1..k : svcOut'[Len(svcOut) + i] = o[i]
    <3>1. /\ svcOut \o o \in Seq(Bytes) /\ Len(svcOut \o o) = Len(svcOut) + Len(o)
          /\ \A i \in 1..Len(svcOut) : (svcOut \o o)[i] = svcOut[i]
          /\ \A i \in 1..Len(o) : (svcOut \o o)[Len(svcOut) + i] = o[i]
      <4>1. svcOut \in Seq(Bytes) /\ o \in Seq(Bytes)
        BY <1>1, <2>6
      <4>. QED  BY ONLY <4>1, JoinIs
    <3>. QED  BY <2>6, <2>7, <3>1, Zenon
  <2>9. /\ sslIn' \in Seq(Bytes)
        /\ Len(sslIn') = IF BUF <= Len(d) THEN Len(d) - BUF ELSE 0
        /\ \A i \in 1..Len(sslIn') : sslIn'[i] = d[BUF + i]
    BY <2>1, <2>2, <2>3, RestIs, SMTT(40)
  <2>10. Sent' = Sent + k /\ Sent' <= up /\ upGot' = upGot /\ up' = up
    BY <1>1, <2>2, <2>4, <2>5, <2>8, SMTT(40) DEF Sent
  <2>11. \A i \in 1..Len(svcOut') : svcOut'[i] = Len(upGot) + i
    <3>1. \A i \in 1..Len(svcOut) : svcOut[i] = Len(upGot) + i
      BY DEF IInv, UpStream
    <3>2. ASSUME NEW i \in 1..Len(svcOut'), ~(i <= Len(svcOut)) PROVE svcOut'[i] = Len(upGot) + i
      <4>1. PICK j \in 1..k : i = Len(svcOut) + j /\ j \in 1..Len(d)
        <5>1. i - Len(svcOut) \in 1..k /\ i = Len(svcOut) + (i - Len(svcOut)) /\ i - Len(svcOut) \in 1..Len(d)
          BY <1>1, <2>2, <2>4, <2>5, <2>8, <3>2, SMTT(40)
        <5>. QED  BY <5>1, Zenon
      <4>2. svcOut'[i] = Sent + j
        BY <2>2, <2>6, <2>8, <4>1, Zenon
      <4>. QED  BY <1>1, <4>1, <4>2 DEF Sent
    <3>3. \A i \in 1..Len(svcOut') : i <= Len(svcOut) => i \in 1..Len(svcOut)
      BY <1>1, <2>5, <2>8
    <3>. QED  BY <2>8, <3>1, <3>2, <3>3, Zenon
  <2>12. ASSUME end' = "no" PROVE /\ \A i \in 1..Len(sslIn') : sslIn'[i] = Sent' + i
                                  /\ RecordsFollow(records', Sent' + Len(sslIn'), up')
    <3>1. k = Len(b)
      BY <2>1, <2>12
    <3>2. Sent' + Len(sslIn') = Sent + Len(d)
      BY <1>1, <2>2, <2>3, <2>4, <2>9, <2>10, <3>1 DEF Least
    <3>3. ASSUME NEW i \in 1..Len(sslIn') PROVE sslIn'[i] = Sent' + i
      <4>1. BUF + i \in 1..Len(d) /\ Sent + (BUF + i) = Sent' + i
        BY <1>1, <2>2, <2>3, <2>4, <2>9, <2>10, <3>1 DEF Least
      <4>. QED  BY <2>2, <2>9, <4>1, Zenon
    <3>. QED  BY <2>2, <2>10, <3>2, <3>3, Zenon
  <2>13. UpStream'
    BY <2>1, <2>10, <2>11, <2>12 DEF IInv, UpStream
  <2>. QED  BY <2>1, <2>2, <2>8, <2>9, <2>13
<1>. QED  BY <1>2, <1>3, <1>4, Zenon DEF forward_client_to_service

-----------------------------------------------------------------------------
(* Service to client.                                                      *)

\* An interval may be taken larger.
LEMMA WithinMore ==
  ASSUME NEW s \in Seq(Nat), NEW m \in Nat, NEW n \in Nat, NEW a \in Nat, NEW b \in Nat,
         Within(s, m, n), a <= m, n <= b
  PROVE  Within(s, a, b)
<1>1. \A i \in 1..Len(s) : s[i] \in Nat /\ m < s[i] /\ s[i] <= n
  <2>1. \A i \in 1..Len(s) : s[i] \in Nat
    OBVIOUS
  <2>. QED  BY <2>1, Zenon DEF Within
<1>2. \A x \in Nat : m < x /\ x <= n => a < x /\ x <= b
  OBVIOUS
<1>. QED  BY <1>1, <1>2, Zenon DEF Within

\* An empty sequence is within any.
LEMMA WithinEmpty ==
  ASSUME NEW m, NEW n
  PROVE  Within(<<>>, m, n)
BY DEF Within

\* Two that follow one another are within both intervals together.
LEMMA WithinJoin ==
  ASSUME NEW s \in Seq(Nat), NEW t \in Seq(Nat), NEW m \in Nat, NEW n \in Nat,
         NEW o \in Nat, m <= n, n <= o, Within(s, m, n), Within(t, n, o)
  PROVE  s \o t \in Seq(Nat) /\ Within(s \o t, m, o)
<1>. DEFINE u == s \o t
<1>1. /\ u \in Seq(Nat) /\ Len(u) = Len(s) + Len(t) /\ Len(s) \in Nat /\ Len(t) \in Nat
      /\ \A i \in 1..Len(s) : u[i] = s[i]
      /\ \A i \in 1..Len(t) : u[Len(s) + i] = t[i]
  OBVIOUS
<1>. HIDE DEF u
<1>2. \A i \in 1..Len(s) : s[i] \in Nat /\ m < s[i] /\ s[i] <= n
  <2>1. \A i \in 1..Len(s) : s[i] \in Nat
    OBVIOUS
  <2>. QED  BY <2>1, Zenon DEF Within
<1>3. \A i \in 1..Len(t) : t[i] \in Nat /\ n < t[i] /\ t[i] <= o
  <2>1. \A i \in 1..Len(t) : t[i] \in Nat
    OBVIOUS
  <2>. QED  BY <2>1, Zenon DEF Within
<1>4. ASSUME NEW i \in 1..Len(u)
      PROVE  \/ i \in 1..Len(s) /\ u[i] = s[i]
             \/ \E k \in 1..Len(t) : i = Len(s) + k /\ u[i] = t[k]
  <2>1. i \in 1..Len(s) \/ (i - Len(s) \in 1..Len(t) /\ Len(s) + (i - Len(s)) = i)
    BY <1>1
  <2>. QED  BY <1>1, <2>1, Zenon
<1>5. \A i \in 1..Len(u) : m < u[i] /\ u[i] <= o
  <2>1. \A x \in Nat : (m < x /\ x <= n) \/ (n < x /\ x <= o) => m < x /\ x <= o
    OBVIOUS
  <2>. QED  BY <1>2, <1>3, <1>4, <2>1, Zenon
<1>6. ASSUME NEW i \in 1..Len(u), NEW j \in 1..Len(u), i < j PROVE u[i] < u[j]
  <2>1. CASE j \in 1..Len(s) /\ u[j] = s[j]
    <3>1. i \in 1..Len(s)
      BY <1>1, <1>6, <2>1
    <3>. QED  BY <1>1, <1>6, <2>1, <3>1, Zenon DEF Within
  <2>2. ASSUME NEW k \in 1..Len(t), j = Len(s) + k, u[j] = t[k] PROVE u[i] < u[j]
    <3>1. CASE i \in 1..Len(s) /\ u[i] = s[i]
      <4>1. \A x, y \in Nat : x <= n /\ n < y => x < y
        OBVIOUS
      <4>. QED  BY <1>2, <1>3, <2>2, <3>1, <4>1, Zenon
    <3>2. ASSUME NEW l \in 1..Len(t), i = Len(s) + l, u[i] = t[l] PROVE u[i] < u[j]
      <4>1. l < k
        BY <1>1, <1>6, <2>2, <3>2
      <4>. QED  BY <2>2, <3>2, <4>1, Zenon DEF Within
    <3>. QED  BY <1>4, <3>1, <3>2, Zenon
  <2>. QED  BY <1>4, <2>1, <2>2, Zenon
<1>. QED  BY <1>1, <1>5, <1>6, Zenon DEF Within, u

\* What SSL_write does with the record it has left and the buffer.
LEMMA SSL_writeIs ==
  ASSUME NEW buf, NEW r \in SSL_write(buf)
  PROVE  LET used == pending.wnum + Len(pending.data)
             new == Rest(buf, used) IN
         \/ /\ pending = NoRecord /\ r.err = "NONE" /\ r.left = NoRecord /\ r.out = buf
         \/ /\ pending = NoRecord /\ r.err = "WANT_WRITE"
            /\ r.left = [data |-> buf, wnum |-> 0] /\ r.out = <<>>
         \/ /\ pending # NoRecord /\ r.err \in {"SSL", "WANT_WRITE"}
            /\ r.left = pending /\ r.out = <<>>
         \/ /\ pending # NoRecord /\ r.err = "NONE" /\ ~(Len(buf) < used)
            /\ r.left = NoRecord /\ r.out = pending.data \o new
         \/ /\ pending # NoRecord /\ r.err = "WANT_WRITE" /\ ~(Len(buf) < used)
            /\ r.left = [data |-> new, wnum |-> used] /\ r.out = pending.data
<1>. DEFINE used == pending.wnum + Len(pending.data)
            new == Rest(buf, used)
            out == pending.data \o new
            fresh == [data |-> buf, wnum |-> 0]
            rest == [data |-> new, wnum |-> used]
<1>1. \/ /\ pending = NoRecord
         /\ \/ r = [err |-> "NONE", left |-> NoRecord, out |-> buf]
            \/ r = [err |-> "WANT_WRITE", left |-> fresh, out |-> <<>>]
      \/ /\ pending # NoRecord
         /\ \/ r = [err |-> "SSL", left |-> pending, out |-> <<>>]
            \/ /\ ~(Len(buf) < used)
               /\ \/ r = [err |-> "NONE", left |-> NoRecord, out |-> out]
                  \/ r = [err |-> "WANT_WRITE", left |-> pending, out |-> <<>>]
                  \/ r = [err |-> "WANT_WRITE", left |-> rest, out |-> pending.data]
  BY Zenon DEF SSL_write
<1>. HIDE DEF used, new, out, fresh, rest
<1>2. ASSUME NEW e, NEW l, NEW o, r = [err |-> e, left |-> l, out |-> o]
      PROVE  r.err = e /\ r.left = l /\ r.out = o
  BY <1>2, Zenon
<1>. QED  BY <1>1, <1>2, Zenon DEF used, new, out, fresh, rest

\* Numbers that follow one another.
LEMMA WithinRun ==
  ASSUME NEW s, Len(s) \in Nat, NEW m \in Nat, NEW n \in Nat, \A i \in 1..Len(s) : s[i] = m + i,
         m + Len(s) <= n
  PROVE  Within(s, m, n)
<1>1. \A i \in 1..Len(s) : m < m + i /\ m + i <= n
  OBVIOUS
<1>2. \A i, j \in 1..Len(s) : i < j => m + i < m + j
  OBVIOUS
<1>. QED  BY <1>1, <1>2, Zenon DEF Within

\* Sequences of bytes are sequences of numbers.
LEMMA BytesAre ==
  Seq(Bytes) \subseteq Seq(Nat)
BY SizesAssumption DEF Bytes

\* A buffer given to SSL_write keeps the client's bytes in order.
LEMMA DownForward ==
  ASSUME IInv, end = "no", forward_service_to_client, UNCHANGED down
  PROVE  /\ end' \in {"no", "service", "error"}
         /\ (end' = "service" => svcIn' = <<>> /\ svcIn = <<>>)
         /\ svcIn' \in Seq(Bytes) /\ downGot' \in Seq(Bytes) /\ wanted' \in BOOLEAN
         /\ pending' \in [data : Seq(Bytes), wnum : Nat]
         /\ pending'.wnum + Len(pending'.data) <= BUF
         /\ DownStream'
<1>1. /\ svcIn \in Seq(Bytes) /\ downGot \in Seq(Bytes) /\ down \in Nat
      /\ wanted \in BOOLEAN
      /\ pending \in [data : Seq(Bytes), wnum : Nat]
      /\ pending.wnum + Len(pending.data) <= BUF
      /\ Len(svcIn) \in Nat /\ Len(downGot) \in Nat /\ BUF \in Nat /\ BUF > 0
  BY SizesAssumption DEF IInv, TypeOK, Bytes
<1>2. CASE end' \in {"error", "service"} /\ (end' = "service" => svcIn = <<>>)
           /\ UNCHANGED <<svcIn, pending, downGot, wanted>>
  <2>1. DownStream'
    BY <1>2 DEF IInv, DownStream
  <2>. QED  BY <1>1, <1>2, <2>1
<1>3. CASE svcIn # <<>> /\
           \E r \in SSL_write(First(svcIn, BUF)) :
             /\ svcIn' = Rest(svcIn, BUF)
             /\ pending' = r.left
             /\ downGot' = downGot \o r.out
             /\ wanted' = (wanted \/ r.err = "WANT_WRITE")
             /\ end' = IF r.err = "SSL" THEN "error" ELSE "no"
  <2>. DEFINE buf == First(svcIn, BUF)
  <2>1. PICK r \in SSL_write(buf) :
             /\ svcIn' = Rest(svcIn, BUF)
             /\ pending' = r.left
             /\ downGot' = downGot \o r.out
             /\ wanted' = (wanted \/ r.err = "WANT_WRITE")
             /\ end' = IF r.err = "SSL" THEN "error" ELSE "no"
    BY <1>3, Zenon
  <2>2. PICK m \in Nat : m = down - Len(svcIn)
    <3>1. Len(svcIn) <= down
      BY Zenon DEF IInv, DownStream
    <3>2. down - Len(svcIn) \in Nat
      BY <1>1, <3>1
    <3>. QED  BY <3>2, Zenon
  <2>3. /\ \A i \in 1..Len(svcIn) : svcIn[i] = m + i
        /\ ~wanted => pending = NoRecord /\ Len(downGot) = m /\ \A i \in 1..Len(downGot) : downGot[i] = i
    BY <2>2, Zenon DEF IInv, DownStream
  <2>4. PICK a \in Nat : a <= m /\ Within(downGot, 0, a) /\ Within(pending.data, a, m)
    <3>1. PICK a \in 0..m : Within(downGot, 0, a) /\ Within(pending.data, a, m)
      BY <2>2, Zenon DEF IInv, DownStream
    <3>. QED  BY <3>1
  <2>5. /\ buf \in Seq(Bytes) /\ Len(buf) \in Nat /\ Len(buf) = Least(BUF, Len(svcIn))
        /\ Len(buf) <= BUF /\ Len(buf) <= Len(svcIn)
        /\ \A i \in 1..Len(buf) : buf[i] = svcIn[i]
    <3>1. /\ buf \in Seq(Bytes) /\ Len(buf) = Least(BUF, Len(svcIn))
          /\ Least(BUF, Len(svcIn)) \in Nat /\ Least(BUF, Len(svcIn)) <= BUF
          /\ Least(BUF, Len(svcIn)) <= Len(svcIn)
          /\ \A i \in 1..Least(BUF, Len(svcIn)) : buf[i] = svcIn[i]
      BY <1>1, FirstIs, Zenon
    <3>. HIDE DEF buf
    <3>. QED  BY <3>1, Zenon
  <2>6. /\ svcIn' \in Seq(Bytes)
        /\ Len(svcIn') = IF BUF <= Len(svcIn) THEN Len(svcIn) - BUF ELSE 0
        /\ \A i \in 1..Len(svcIn') : svcIn'[i] = svcIn[BUF + i]
    BY <1>1, <2>1, RestIs, Zenon
  <2>. HIDE DEF buf
  <2>7. PICK n \in Nat : n = m + Len(buf) /\ n = down' - Len(svcIn') /\ Len(svcIn') <= down' /\ m <= n
    <3>1. m + Len(buf) = down - Len(svcIn') /\ Len(svcIn') <= down /\ m <= m + Len(buf) /\ m + Len(buf) \in Nat
      <4>1. Len(svcIn) \in Nat /\ Len(buf) = Least(BUF, Len(svcIn)) /\ BUF \in Nat /\ down \in Nat
        BY <1>1, <2>5
      <4>2. Len(svcIn') = IF BUF <= Len(svcIn) THEN Len(svcIn) - BUF ELSE 0
        BY <2>6
      <4>. QED  BY ONLY <2>2, <4>1, <4>2, m \in Nat DEF Least
    <3>. QED  BY <3>1
  <2>8. \A i \in 1..Len(svcIn') : svcIn'[i] = n + i
    <3>1. ASSUME NEW i \in 1..Len(svcIn') PROVE BUF + i \in 1..Len(svcIn) /\ m + (BUF + i) = n + i
      BY <1>1, <2>5, <2>6, <2>7 DEF Least
    <3>. QED  BY <2>3, <2>6, <3>1, Zenon
  <2>9. \A i \in 1..Len(buf) : buf[i] = m + i
    <3>1. \A i \in 1..Len(buf) : i \in 1..Len(svcIn)
      BY <1>1, <2>5
    <3>. QED  BY <2>3, <2>5, <3>1, Zenon
  <2>. DEFINE used == pending.wnum + Len(pending.data)
              new == Rest(buf, used)
              Goal == /\ downGot' \in Seq(Bytes)
                      /\ pending' \in [data : Seq(Bytes), wnum : Nat]
                      /\ pending'.wnum + Len(pending'.data) <= BUF
                      /\ \E k \in 0..n : Within(downGot', 0, k) /\ Within(pending'.data, k, n)
                      /\ ~wanted' => /\ pending' = NoRecord /\ Len(downGot') = n
                                     /\ \A i \in 1..Len(downGot') : downGot'[i] = i
  <2>10. /\ pending.data \in Seq(Bytes) /\ pending.wnum \in Nat
         /\ Len(pending.data) \in Nat /\ used \in Nat /\ used <= BUF
    <3>1. pending.data \in Seq(Bytes) /\ pending.wnum \in Nat
      BY <1>1, Zenon
    <3>. QED  BY <1>1, <3>1
  <2>. HIDE DEF new, used
  <2>11. ASSUME ~(Len(buf) < used)
         PROVE  new \in Seq(Bytes) /\ Within(new, m, n) /\ used + Len(new) <= BUF
    <3>1. /\ new \in Seq(Bytes) /\ Len(new) = Len(buf) - used /\ used <= Len(buf)
          /\ \A i \in 1..Len(new) : new[i] = buf[used + i]
      <4>1. used <= Len(buf)
        BY <2>5, <2>10, <2>11
      <4>. QED  BY <2>5, <2>10, <4>1, RestIs DEF new
    <3>2. \A i \in 1..Len(new) : used + i \in 1..Len(buf) /\ m + (used + i) = (m + used) + i
      BY <2>5, <2>10, <3>1
    <3>3. \A i \in 1..Len(new) : new[i] = (m + used) + i
      BY <2>9, <3>1, <3>2, Zenon
    <3>4. m + used \in Nat /\ Len(new) \in Nat /\ (m + used) + Len(new) <= n /\ m <= m + used /\ used + Len(new) <= BUF
      BY <2>5, <2>7, <2>10, <3>1, SMTT(40)
    <3>5. Within(new, m + used, n)
      BY <3>3, <3>4, WithinRun
    <3>. QED  BY <2>7, <3>1, <3>4, <3>5, BytesAre, WithinMore
  <2>12. ASSUME pending = NoRecord, r.err = "NONE", r.left = NoRecord, r.out = buf PROVE Goal
    <3>1. /\ downGot' = downGot \o buf /\ pending' = NoRecord /\ (~wanted' => ~wanted)
      BY <2>1, <2>12, Zenon
    <3>2. /\ NoRecord \in [data : Seq(Bytes), wnum : Nat] /\ NoRecord.data = <<>>
          /\ NoRecord.wnum + Len(NoRecord.data) <= BUF
      BY <1>1 DEF NoRecord
    <3>3. Within(buf, a, n)
      <4>1. Within(buf, m, n)
        BY <2>5, <2>7, <2>9, WithinRun
      <4>. QED  BY <2>4, <2>5, <2>7, <4>1, BytesAre, WithinMore
    <3>4. Within(downGot', 0, n)
      <4>1. downGot \in Seq(Nat) /\ buf \in Seq(Nat)
        BY <1>1, <2>5, BytesAre, Zenon
      <4>2. 0 \in Nat /\ 0 <= a /\ a <= n
        BY <2>4, <2>7
      <4>. QED  BY <2>4, <3>1, <3>3, <4>1, <4>2, WithinJoin, Zenon
    <3>5. /\ downGot' \in Seq(Bytes) /\ Len(downGot') = Len(downGot) + Len(buf)
          /\ \A i \in 1..Len(downGot) : downGot'[i] = downGot[i]
          /\ \A i \in 1..Len(buf) : downGot'[Len(downGot) + i] = buf[i]
      <4>1. downGot \in Seq(Bytes) /\ buf \in Seq(Bytes)
        BY <1>1, <2>5, Zenon
      <4>2. /\ downGot \o buf \in Seq(Bytes)
            /\ Len(downGot \o buf) = Len(downGot) + Len(buf)
            /\ \A i \in 1..Len(downGot) : (downGot \o buf)[i] = downGot[i]
            /\ \A i \in 1..Len(buf) : (downGot \o buf)[Len(downGot) + i] = buf[i]
        BY ONLY <4>1, JoinIs
      <4>. QED  BY <3>1, <4>2, Zenon
    <3>6. ASSUME ~wanted PROVE Len(downGot') = n /\ \A i \in 1..Len(downGot') : downGot'[i] = i
      <4>1. Len(downGot) = m
        BY <2>3, <3>6
      <4>2. ASSUME NEW i \in 1..Len(downGot') PROVE downGot'[i] = i
        <5>1. i \in 1..Len(downGot) \/ (i - m \in 1..Len(buf) /\ m + (i - m) = i)
          BY <2>5, <3>5, <4>1
        <5>2. CASE i \in 1..Len(downGot)
          BY <2>3, <3>5, <3>6, <5>2, Zenon
        <5>3. ASSUME NEW k \in 1..Len(buf), m + k = i PROVE downGot'[i] = i
          BY <2>9, <3>5, <4>1, <5>3, Zenon
        <5>. QED  BY <5>1, <5>2, <5>3, Zenon
      <4>3. Len(downGot') = n
        BY <2>7, <3>5, <4>1, Zenon
      <4>. QED  BY <4>2, <4>3, Zenon
    <3>7. n \in 0..n
      OBVIOUS
    <3>. QED  BY <3>1, <3>2, <3>4, <3>5, <3>6, <3>7, WithinEmpty, Zenon
  <2>13. ASSUME pending = NoRecord, r.err = "WANT_WRITE", r.left = [data |-> buf, wnum |-> 0],
                r.out = <<>>
         PROVE  Goal
    <3>1. /\ downGot' = downGot /\ pending' = [data |-> buf, wnum |-> 0] /\ wanted'
      <4>1. \A s \in Seq(Bytes) : s \o <<>> = s
        OBVIOUS
      <4>. QED  BY <1>1, <2>1, <2>13, <4>1, Zenon
    <3>2. /\ pending' \in [data : Seq(Bytes), wnum : Nat] /\ pending'.data = buf
          /\ pending'.wnum = 0
      BY <2>5, <3>1
    <3>3. Within(buf, a, n)
      <4>1. Within(buf, m, n)
        BY <2>5, <2>7, <2>9, WithinRun
      <4>. QED  BY <2>4, <2>5, <2>7, <4>1, BytesAre, WithinMore
    <3>4. a \in 0..n /\ 0 + Len(buf) <= BUF
      BY <2>4, <2>5, <2>7
    <3>. QED  BY <1>1, <2>4, <3>1, <3>2, <3>3, <3>4, Zenon
  <2>14. ASSUME pending # NoRecord, r.left = pending, r.out = <<>> PROVE Goal
    <3>1. /\ downGot' = downGot /\ pending' = pending /\ wanted'
      <4>1. \A s \in Seq(Bytes) : s \o <<>> = s
        OBVIOUS
      <4>. QED  BY <1>1, <2>1, <2>3, <2>14, <4>1
    <3>2. Within(pending.data, a, n) /\ a \in 0..n
      BY <2>4, <2>7, <2>10, BytesAre, WithinMore
    <3>. QED  BY <1>1, <2>4, <3>1, <3>2, Zenon
  <2>15. ASSUME pending # NoRecord, r.left = NoRecord, r.out = pending.data \o new,
                ~(Len(buf) < used)
         PROVE Goal
    <3>1. /\ downGot' = downGot \o (pending.data \o new) /\ pending' = NoRecord /\ wanted'
      BY <2>1, <2>3, <2>15, Zenon
    <3>2. /\ NoRecord \in [data : Seq(Bytes), wnum : Nat] /\ NoRecord.data = <<>>
          /\ NoRecord.wnum + Len(NoRecord.data) <= BUF
      BY <1>1 DEF NoRecord
    <3>3. new \in Seq(Bytes) /\ Within(new, m, n)
      BY <2>15, <2>11
    <3>4. pending.data \o new \in Seq(Bytes) /\ Within(pending.data \o new, a, n)
      BY <2>4, <2>7, <2>10, <3>3, BytesAre, WithinJoin, JoinIs
    <3>5. downGot' \in Seq(Bytes) /\ Within(downGot', 0, n)
      <4>1. downGot \in Seq(Bytes) /\ pending.data \o new \in Seq(Bytes)
        BY <1>1, <3>4, Zenon
      <4>2. downGot' \in Seq(Bytes)
        BY <3>1, <4>1, JoinIs, Zenon
      <4>3. downGot \in Seq(Nat) /\ pending.data \o new \in Seq(Nat)
        BY <4>1, BytesAre, Zenon
      <4>4. 0 \in Nat /\ 0 <= a /\ a <= n
        BY <2>4, <2>7
      <4>. QED  BY <2>4, <3>1, <3>4, <4>2, <4>3, <4>4, WithinJoin, Zenon
    <3>6. n \in 0..n
      OBVIOUS
    <3>. QED  BY <3>1, <3>2, <3>5, <3>6, WithinEmpty, Zenon
  <2>16. ASSUME pending # NoRecord, r.left = [data |-> new, wnum |-> used], r.out = pending.data,
                ~(Len(buf) < used)
         PROVE Goal
    <3>1. /\ downGot' = downGot \o pending.data
          /\ pending' = [data |-> new, wnum |-> used] /\ wanted'
      BY <2>1, <2>3, <2>16, Zenon
    <3>2. new \in Seq(Bytes) /\ Within(new, m, n) /\ used + Len(new) <= BUF
      BY <2>16, <2>11
    <3>3. /\ pending' \in [data : Seq(Bytes), wnum : Nat] /\ pending'.data = new
          /\ pending'.wnum = used
      BY <2>10, <3>1, <3>2
    <3>4. downGot' \in Seq(Bytes) /\ Within(downGot', 0, m) /\ m \in 0..n
      BY <1>1, <2>4, <2>7, <2>10, <3>1, BytesAre, WithinJoin, JoinIs, SMTT(40)
    <3>. QED  BY <3>1, <3>2, <3>3, <3>4, Zenon
  <2>17. Goal
    BY <2>12, <2>13, <2>14, <2>15, <2>16, SSL_writeIs, Zenon DEF used, new
  <2>18. DownStream'
    BY <2>7, <2>8, <2>17, Zenon DEF DownStream
  <2>19. wanted' \in BOOLEAN /\ end' \in {"no", "error"}
    BY <2>1
  <2>. QED  BY <2>6, <2>17, <2>18, <2>19, Zenon
<1>. QED  BY <1>2, <1>3, Zenon DEF forward_service_to_client

-----------------------------------------------------------------------------
(* The steps.                                                              *)

\* A callback that sets a flag rightly keeps the invariant, whether or not it
\* forwards.
LEMMA CallbackInv ==
  ASSUME IInv, NEW f \in Down \cup Up, Callback(f),
         f = "client_read" => records # <<>> \/ "client" \in fin,
         f = "service_read" => svcIn # <<>> \/ "service" \in fin,
         f = "service_write" => Len(svcOut) < SndBuf
  PROVE  IInv'
<1>. DEFINE set == ready \cup {f}
<1>1. /\ end = "no" /\ UNCHANGED <<fin, up, upGot, down>>
      /\ try_to_forward(f)
  BY DEF Callback
<1>2. /\ set \subseteq Down \cup Up
      /\ "client_read" \in set => records # <<>> \/ "client" \in fin
      /\ "service_read" \in set => svcIn # <<>> \/ "service" \in fin
      /\ "service_write" \in set => Len(svcOut) < SndBuf
  BY <1>1 DEF IInv, TypeOK, FlagsHold
<1>3. CASE ready' = set /\ UNCHANGED <<end, Upward, Downward>>
  <2>1. UNCHANGED <<end, fin, up, records, sslIn, svcOut, upGot, down, svcIn, pending, downGot, logged, wanted>>
    BY <1>1, <1>3 DEF Upward, Downward
  <2>2. TypeOK' /\ FlagsHold'
    BY <1>1, <1>2, <1>3, <2>1 DEF IInv, TypeOK, FlagsHold
  <2>3. UpStream' /\ DownStream'
    BY <2>1 DEF IInv, UpStream, DownStream, Sent
  <2>. QED  BY <2>2, <2>3 DEF IInv
<1>4. CASE /\ Down \subseteq set /\ forward_service_to_client /\ UNCHANGED Upward
           /\ ready' = IF end' = "no" THEN set \ Down ELSE set
  <2>1. /\ UNCHANGED <<fin, up, records, sslIn, svcOut, upGot, down, logged>>
    BY <1>1, <1>4 DEF Upward
  <2>2. /\ end' \in {"no", "service", "error"}
        /\ (end' = "service" => svcIn' = <<>> /\ svcIn = <<>>)
        /\ svcIn' \in Seq(Bytes) /\ downGot' \in Seq(Bytes) /\ wanted' \in BOOLEAN
        /\ pending' \in [data : Seq(Bytes), wnum : Nat]
        /\ pending'.wnum + Len(pending'.data) <= BUF
        /\ DownStream'
    BY <1>1, <1>4, <2>1, DownForward
  <2>3. TypeOK'
    BY <1>2, <1>4, <2>1, <2>2, Zenon DEF IInv, TypeOK
  <2>4. FlagsHold'
    <3>1. "service_read" \in set
      BY <1>4 DEF Down
    <3>2. "service_read" \in Down
      BY DEF Down
    <3>. QED  BY <1>2, <1>4, <2>1, <2>2, <3>1, <3>2 DEF FlagsHold
  <2>5. UpStream'
    BY <1>1, <2>1, <2>2 DEF IInv, UpStream, Sent
  <2>. QED  BY <2>2, <2>3, <2>4, <2>5 DEF IInv
<1>5. CASE /\ Up \subseteq set /\ forward_client_to_service /\ UNCHANGED Downward
           /\ ready' = IF end' = "no" THEN set \ Up ELSE set
  <2>1. /\ UNCHANGED <<fin, up, upGot, down, svcIn, pending, downGot, wanted>>
    BY <1>1, <1>5 DEF Downward
  <2>2. "client_read" \in set /\ "service_write" \in set /\ "client_read" \in Up /\ "service_write" \in Up
    BY <1>5 DEF Up
  <2>3. /\ end' \in {"no", "client", "error"} /\ (end' = "client" => records = <<>>)
        /\ records' \in Seq(Record) /\ sslIn' \in Seq(Bytes) /\ svcOut' \in Seq(Bytes)
        /\ logged' \in BOOLEAN
        /\ UpStream'
    BY <1>1, <1>2, <1>5, <2>1, <2>2, UpForward
  <2>4. TypeOK'
    BY <1>2, <1>5, <2>1, <2>3, Zenon DEF IInv, TypeOK, Record
  <2>5. FlagsHold'
    BY <1>2, <1>5, <2>1, <2>2, <2>3 DEF FlagsHold
  <2>6. DownStream'
    BY <2>1 DEF IInv, DownStream
  <2>. QED  BY <2>3, <2>4, <2>5, <2>6 DEF IInv
<1>6. Down # Up
  BY DEF Down, Up
<1>. QED  BY <1>1, <1>3, <1>4, <1>5, <1>6, Zenon DEF try_to_forward

\* The client sends a record.
LEMMA ClientSendsInv ==
  ASSUME IInv, NEW n \in 1..MaxRec, ClientSends(n)
  PROVE  IInv'
<1>. DEFINE r == [i \in 1..n |-> up + i]
<1>1. /\ "client" \notin fin /\ up + n <= MaxBytes /\ up' = up + n
      /\ records' = Append(records, r)
      /\ UNCHANGED <<end, ready, fin, sslIn, svcOut, upGot, down, svcIn, pending, downGot, logged, wanted>>
  BY DEF ClientSends
<1>2. /\ records \in Seq(Record) /\ up \in Nat /\ MaxBytes \in Nat /\ n \in Nat /\ n >= 1
      /\ Sent \in Nat /\ Len(sslIn) \in Nat
  BY SizesAssumption DEF IInv, TypeOK, Bytes, Record, Sent
<1>3. /\ r \in Record /\ Len(r) = n /\ \A i \in 1..n : r[i] = up + i
  <2>1. \A i \in 1..n : up + i \in Bytes
    BY <1>1, <1>2 DEF Bytes
  <2>2. r \in Seq(Bytes) /\ Len(r) = n /\ \A i \in 1..n : r[i] = up + i
    BY <1>2, <2>1
  <2>3. r # <<>>
    BY <1>2, <2>2
  <2>. QED  BY <2>2, <2>3 DEF Record
<1>. HIDE DEF r
<1>4. records' \in Seq(Record) /\ records' # <<>>
  BY <1>1, <1>2, <1>3
<1>5. TypeOK'
  <2>1. up' \in Bytes
    BY <1>1, <1>2 DEF Bytes
  <2>. QED  BY <1>1, <1>4, <2>1, Zenon DEF IInv, TypeOK, Record
<1>6. FlagsHold'
  BY <1>1, <1>4 DEF IInv, FlagsHold
<1>7. DownStream'
  BY <1>1 DEF IInv, DownStream
<1>8. ASSUME end = "no" PROVE RecordsFollow(records', Sent + Len(sslIn), up')
  <2>1. PICK m \in Nat : m = Sent + Len(sslIn)
    BY <1>2
  <2>2. RecordsFollow(records, m, up)
    BY <1>8, <2>1, Zenon DEF IInv, UpStream
  <2>. QED  BY <1>1, <1>2, <1>3, <2>1, <2>2, FollowAppend, Zenon
<1>9. UpStream'
  <2>1. Sent' = Sent /\ Sent <= up' /\ end # "client"
    BY <1>1, <1>2 DEF IInv, UpStream, Sent, FlagsHold
  <2>. QED  BY <1>1, <1>8, <2>1, Zenon DEF IInv, UpStream
<1>. QED  BY <1>5, <1>6, <1>7, <1>9 DEF IInv

\* The service sends a byte.
LEMMA ServiceSendsInv ==
  ASSUME IInv, ServiceSends
  PROVE  IInv'
<1>1. /\ "service" \notin fin /\ down < MaxBytes /\ down' = down + 1
      /\ svcIn' = Append(svcIn, down + 1)
      /\ UNCHANGED <<end, ready, fin, up, records, sslIn, svcOut, upGot, pending, downGot, logged, wanted>>
  BY DEF ServiceSends
<1>2. /\ svcIn \in Seq(Bytes) /\ Len(svcIn) \in Nat /\ down \in Nat /\ down + 1 \in Bytes
  BY <1>1, SizesAssumption DEF IInv, TypeOK, Bytes
<1>3. /\ svcIn' \in Seq(Bytes) /\ Len(svcIn') = Len(svcIn) + 1 /\ svcIn' # <<>>
      /\ \A i \in 1..Len(svcIn) : svcIn'[i] = svcIn[i]
      /\ svcIn'[Len(svcIn) + 1] = down + 1
  BY <1>1, <1>2
<1>4. TypeOK'
  BY <1>1, <1>2, <1>3, Zenon DEF IInv, TypeOK
<1>5. FlagsHold'
  BY <1>1, <1>3 DEF IInv, FlagsHold
<1>6. UpStream'
  BY <1>1 DEF IInv, UpStream, Sent
<1>7. DownStream'
  <2>1. Len(svcIn) <= down /\ \A i \in 1..Len(svcIn) : svcIn[i] = (down - Len(svcIn)) + i
    BY Zenon DEF IInv, DownStream
  <2>2. down' - Len(svcIn') = down - Len(svcIn) /\ Len(svcIn') <= down'
    BY <1>1, <1>2, <1>3, <2>1
  <2>3. ASSUME NEW i \in 1..Len(svcIn') PROVE svcIn'[i] = (down - Len(svcIn)) + i
    <3>1. i \in 1..Len(svcIn) \/ (i = Len(svcIn) + 1 /\ down + 1 = (down - Len(svcIn)) + i)
      BY <1>2, <1>3
    <3>. QED  BY <1>3, <2>1, <3>1, Zenon
  <2>. QED  BY <1>1, <2>2, <2>3, Zenon DEF IInv, DownStream
<1>. QED  BY <1>4, <1>5, <1>6, <1>7 DEF IInv

\* The service receives a byte.
LEMMA ServiceReadsInv ==
  ASSUME IInv, ServiceReads
  PROVE  IInv'
<1>1. /\ svcOut # <<>> /\ upGot' = Append(upGot, Head(svcOut)) /\ svcOut' = Tail(svcOut)
      /\ UNCHANGED <<end, ready, fin, up, records, sslIn, down, svcIn, pending, downGot, logged, wanted>>
  BY DEF ServiceReads
<1>2. svcOut \in Seq(Bytes) /\ upGot \in Seq(Bytes) /\ Len(upGot) \in Nat /\ SndBuf \in Nat
  BY SizesAssumption DEF IInv, TypeOK
<1>3. /\ Len(svcOut) \in Nat /\ Len(svcOut) >= 1 /\ Head(svcOut) = svcOut[1]
      /\ Head(svcOut) \in Bytes
      /\ svcOut' \in Seq(Bytes) /\ Len(svcOut') = Len(svcOut) - 1
      /\ \A i \in 1..Len(svcOut) - 1 : svcOut'[i] = svcOut[i + 1]
  BY <1>1, <1>2, TailIs
<1>4. /\ upGot' \in Seq(Bytes) /\ Len(upGot') = Len(upGot) + 1
      /\ \A i \in 1..Len(upGot) : upGot'[i] = upGot[i]
      /\ upGot'[Len(upGot) + 1] = svcOut[1]
  BY <1>1, <1>2, <1>3
<1>5. TypeOK'
  BY <1>1, <1>3, <1>4, Zenon DEF IInv, TypeOK
<1>6. FlagsHold'
  BY <1>1, <1>2, <1>3 DEF IInv, FlagsHold
<1>7. DownStream'
  BY <1>1 DEF IInv, DownStream
<1>8. UpStream'
  <2>1. /\ \A i \in 1..Len(upGot) : upGot[i] = i
        /\ \A i \in 1..Len(svcOut) : svcOut[i] = Len(upGot) + i
    BY Zenon DEF IInv, UpStream
  <2>2. Sent' = Sent
    BY <1>2, <1>3, <1>4 DEF Sent
  <2>3. ASSUME NEW i \in 1..Len(upGot') PROVE upGot'[i] = i
    <3>1. i \in 1..Len(upGot) \/ i = Len(upGot) + 1
      BY <1>2, <1>4
    <3>2. 1 \in 1..Len(svcOut)
      BY <1>3
    <3>. QED  BY <1>4, <2>1, <3>1, <3>2, Zenon
  <2>4. ASSUME NEW i \in 1..Len(svcOut') PROVE svcOut'[i] = Len(upGot') + i
    <3>1. /\ i \in 1..Len(svcOut) - 1 /\ i + 1 \in 1..Len(svcOut)
          /\ Len(upGot) + (i + 1) = Len(upGot') + i
      BY <1>2, <1>3, <1>4
    <3>. QED  BY <1>3, <2>1, <3>1, Zenon
  <2>. QED  BY <1>1, <2>2, <2>3, <2>4, Zenon DEF IInv, UpStream
<1>. QED  BY <1>5, <1>6, <1>7, <1>8 DEF IInv

\* The inductive invariant.
THEOREM ForwardingInvariance == Spec => []IInv
<1>1. Init => IInv
  <2>1. SUFFICES ASSUME Init PROVE IInv
    OBVIOUS
  <2>2. TypeOK
    <3>1. /\ <<>> \in Seq(Bytes) /\ <<>> \in Seq(Seq(Bytes) \ {<<>>}) /\ 0 \in Bytes
          /\ {} \subseteq Down \cup Up
      BY SizesAssumption DEF Bytes
    <3>2. /\ NoRecord \in [data : Seq(Bytes), wnum : Nat]
          /\ NoRecord.wnum + Len(NoRecord.data) <= BUF
      BY <3>1, SizesAssumption DEF NoRecord
    <3>. QED  BY <2>1, <3>1, <3>2, Zenon DEF Init, TypeOK
  <2>3. FlagsHold
    BY <2>1 DEF Init, FlagsHold
  <2>4. UpStream
    BY <2>1 DEF Init, UpStream, Sent, RecordsFollow
  <2>5. DownStream
    <3>1. /\ NoRecord.data = <<>> /\ 0 \in 0..0
          /\ 0 - Len(<<>>) = 0 /\ Len(<<>>) = 0 /\ 1..0 = {}
      <4>1. NoRecord.data = <<>>
        BY DEF NoRecord
      <4>2. Len(<<>>) = 0
        OBVIOUS
      <4>3. 1..0 = {}
        OBVIOUS
      <4>4. 0 \in 0..0 /\ 0 - 0 = 0
        OBVIOUS
      <4>. QED  BY <4>1, <4>2, <4>3, <4>4, Zenon
    <3>2. /\ down = 0 /\ svcIn = <<>> /\ pending = NoRecord /\ downGot = <<>>
      BY <2>1 DEF Init
    <3>3. Within(<<>>, 0, 0)
      BY <3>1, Zenon DEF Within
    <3>4. \E m \in 0..0 : Within(<<>>, 0, m) /\ Within(NoRecord.data, m, 0)
      BY <3>1, <3>3, Zenon
    <3>. QED  BY <3>1, <3>2, <3>4 DEF DownStream
  <2>. QED  BY <2>2, <2>3, <2>4, <2>5 DEF IInv
<1>2. IInv /\ [Next]_vars => IInv'
  <2>1. SUFFICES ASSUME IInv, [Next]_vars PROVE IInv'
    OBVIOUS
  <2>2. CASE on_read_ready
    <3>1. "client_read" \in Down \cup Up /\ "service_read" \in Down \cup Up
      BY DEF Down, Up
    <3>. QED  BY <2>1, <2>2, <3>1, CallbackInv DEF on_read_ready
  <2>3. CASE on_write_ready
    <3>1. "client_write" \in Down \cup Up /\ "service_write" \in Down \cup Up
      BY DEF Down, Up
    <3>. QED  BY <2>1, <2>3, <3>1, CallbackInv DEF on_write_ready
  <2>4. ASSUME NEW p \in {"client", "service"}, PeerEnds(p) PROVE IInv'
    <3>1. /\ fin' = fin \cup {p}
          /\ UNCHANGED <<end, ready, up, records, sslIn, svcOut, upGot, down, svcIn, pending, downGot, logged, wanted>>
      BY <2>4 DEF PeerEnds
    <3>2. TypeOK' /\ FlagsHold'
      BY <2>1, <3>1 DEF IInv, TypeOK, FlagsHold
    <3>3. UpStream' /\ DownStream'
      BY <2>1, <3>1 DEF IInv, UpStream, DownStream, Sent
    <3>. QED  BY <3>2, <3>3 DEF IInv
  <2>5. CASE UNCHANGED vars
    <3>1. TypeOK' /\ FlagsHold'
      BY <2>1, <2>5 DEF IInv, TypeOK, FlagsHold, vars
    <3>2. UpStream' /\ DownStream'
      BY <2>1, <2>5 DEF IInv, UpStream, DownStream, Sent, vars
    <3>. QED  BY <3>1, <3>2 DEF IInv
  <2>. QED  BY Zenon, <2>1, <2>2, <2>3, <2>4, <2>5, ClientSendsInv, ServiceSendsInv,
               ServiceReadsInv, Zenon DEF Next
<1>. QED  BY <1>1, <1>2, PTL DEF Spec

\* The types, sizes included: what SSL_write keeps never exceeds the buffer it
\* was given.
THEOREM ForwardingTypes == Spec => []TypeOK
<1>1. IInv => TypeOK
  BY DEF IInv
<1>. QED  BY <1>1, ForwardingInvariance, PTL

\* The bytes that have left for the service are the client's first Sent.
LEMMA UpIs ==
  ASSUME IInv
  PROVE  Sent \in 0..up /\ upGot \o svcOut = Numbers(Sent)
<1>1. /\ upGot \in Seq(Bytes) /\ svcOut \in Seq(Bytes) /\ up \in Nat /\ Sent <= up
      /\ \A i \in 1..Len(upGot) : upGot[i] = i
      /\ \A i \in 1..Len(svcOut) : svcOut[i] = Len(upGot) + i
  BY DEF IInv, TypeOK, UpStream, Bytes
<1>2. PICK l, k \in Nat : l = Len(upGot) /\ k = Len(svcOut)
  BY <1>1
<1>3. Sent = l + k
  BY <1>2 DEF Sent
<1>4. /\ upGot \o svcOut \in Seq(Bytes) /\ Len(upGot \o svcOut) = l + k
      /\ \A i \in 1..l : (upGot \o svcOut)[i] = upGot[i]
      /\ \A i \in 1..k : (upGot \o svcOut)[l + i] = svcOut[i]
  <2>1. upGot \in Seq(Bytes) /\ svcOut \in Seq(Bytes)
    BY <1>1
  <2>. QED  BY ONLY <1>2, <2>1, JoinIs
<1>5. ASSUME NEW i \in 1..(l + k) PROVE (upGot \o svcOut)[i] = i
  <2>1. i \in 1..l \/ \E j \in 1..k : i = l + j
    <3>1. i \in 1..l \/ (i - l \in 1..k /\ i = l + (i - l))
      BY <1>2
    <3>. QED  BY <3>1, Zenon
  <2>. QED  BY <1>1, <1>2, <1>4, <2>1, Zenon
<1>6. l + k \in Nat /\ l + k \in 0..up
  BY <1>1, <1>2, <1>3
<1>. QED  BY <1>3, <1>4, <1>5, <1>6, NumbersIs, Zenon

\* Upward the relay loses nothing, repeats nothing and swaps nothing, whatever
\* the service's send buffer takes of each record.
THEOREM UpIntactHolds == Spec => []UpIntact
<1>1. IInv => UpIntact
  BY UpIs, Zenon DEF UpIntact
<1>. QED  BY <1>1, ForwardingInvariance, PTL

\* Downward what the client gets is in order and without repetition, even
\* after a write that had to be repeated with other bytes.
THEOREM DownInOrderHolds == Spec => []DownInOrder
<1>1. ASSUME IInv PROVE DownInOrder
  <2>1. DOMAIN downGot = 1..Len(downGot)
    BY <1>1 DEF IInv, TypeOK
  <2>. QED  BY <1>1, <2>1, Zenon DEF IInv, DownStream, Within, DownInOrder
<1>. QED  BY <1>1, ForwardingInvariance, PTL

\* Nothing read and nothing kept, no write repeated: all of the service's
\* bytes are with the client.
LEMMA DownIs ==
  ASSUME IInv, svcIn = <<>>, ~wanted
  PROVE  downGot = Numbers(down)
<1>1. /\ downGot \in Seq(Bytes) /\ down \in Nat
      /\ Len(downGot) = down - Len(svcIn) /\ \A i \in 1..Len(downGot) : downGot[i] = i
  BY DEF IInv, TypeOK, DownStream, Bytes
<1>2. Len(downGot) = down
  BY <1>1
<1>. QED  BY <1>1, <1>2, NumbersIs, Zenon

\* What SSL_read leaves in the SSL object is the rest of one record: a call
\* takes at most BUF bytes, and the next record only when nothing is left.
LEMMA RecordsFitHolds == Spec => []RecordsFit
<1>1. Init => RecordsFit
  BY DEF Init, RecordsFit
<1>2. TypeOK /\ RecordsFit /\ [Next]_vars => RecordsFit'
  <2>. SUFFICES ASSUME TypeOK, RecordsFit, [Next]_vars PROVE RecordsFit'
    OBVIOUS
  <2>0. records \in Seq(Seq(Bytes) \ {<<>>}) /\ sslIn \in Seq(Bytes) /\ BUF \in Nat \ {0} /\ MaxRec \in Nat \ {0}
    BY SizesAssumption DEF TypeOK
  <2>1. ASSUME UNCHANGED <<records, sslIn>> PROVE RecordsFit'
    BY <2>1 DEF RecordsFit
  <2>2. ASSUME forward_client_to_service PROVE RecordsFit'
    <3>1. CASE UNCHANGED <<records, sslIn>>
      BY <2>1, <3>1
    <3>2. CASE /\ Decrypted # <<>> /\ sslIn' = Rest(Decrypted, BUF)
               /\ records' = IF sslIn # <<>> THEN records ELSE Tail(records)
      <4>1. Decrypted \in Seq(Bytes) /\ Len(Decrypted) <= MaxRec
        <5>1. CASE sslIn # <<>>
          BY <2>0, <5>1 DEF Decrypted, RecordsFit
        <5>2. CASE sslIn = <<>> /\ records # <<>>
          <6>1. 1 \in 1..Len(records) /\ Head(records) = records[1] /\ records[1] \in Seq(Bytes)
            BY <2>0, <5>2
          <6>. QED BY <5>2, <6>1 DEF Decrypted, RecordsFit
        <5>. QED BY <3>2, <5>1, <5>2 DEF Decrypted
      <4>2. sslIn' = <<>> \/ Len(sslIn') + BUF <= MaxRec
        BY <2>0, <3>2, <4>1 DEF Rest
      <4>3. records # <<>> =>
              Tail(records) \in Seq(Seq(Bytes)) /\ \A k \in 1..Len(Tail(records)) : Len(Tail(records)[k]) <= MaxRec
        BY <2>0 DEF RecordsFit
      <4>4. sslIn = <<>> => records # <<>>
        BY <3>2 DEF Decrypted
      <4>. QED BY <3>2, <4>2, <4>3, <4>4 DEF RecordsFit
    <3>. QED BY <2>2, <3>1, <3>2 DEF forward_client_to_service
  <2>3. ASSUME NEW f, Callback(f) PROVE RecordsFit'
    BY <2>1, <2>2, <2>3 DEF Callback, try_to_forward, Upward
  <2>4. ASSUME NEW n \in 1..MaxRec, ClientSends(n) PROVE RecordsFit'
    <3>. DEFINE new == [i \in 1..n |-> up + i]
    <3>1. /\ n \in Nat /\ n <= MaxRec /\ records' = Append(records, new) /\ sslIn' = sslIn
      BY <2>0, <2>4 DEF ClientSends
    <3>2. Len(new) = n
      BY <3>1
    <3>. HIDE DEF new
    <3>3. /\ \A k \in 1..Len(records) : Append(records, new)[k] = records[k]
          /\ Append(records, new)[Len(records) + 1] = new
          /\ Len(Append(records, new)) = Len(records) + 1 /\ Len(records) \in Nat
      BY <2>0
    <3>. QED BY <3>1, <3>2, <3>3 DEF RecordsFit
  <2>. QED BY <2>1, <2>3, <2>4 DEF Next, on_read_ready, on_write_ready, ServiceSends, ServiceReads, PeerEnds, vars
<1>. QED  BY <1>1, <1>2, ForwardingTypes, PTL DEF Spec

\* When both inputs are empty and both outputs writable, nothing is left
\* behind but the rest of one record: every byte up has been sent or is in
\* OpenSSL's buffer, and with no write repeated every byte down has been
\* received.
THEOREM QuietMeansForwardedHolds == Spec => []QuietMeansForwarded
<1>1. ASSUME IInv, end = "no", records = <<>>
      PROVE  upGot \o svcOut \o sslIn = Numbers(up)
  <2>0. /\ upGot \in Seq(Bytes) /\ svcOut \in Seq(Bytes) /\ sslIn \in Seq(Bytes) /\ up \in Nat
        /\ Sent + Len(sslIn) = up /\ \A i \in 1..Len(sslIn) : sslIn[i] = Sent + i
    BY <1>1 DEF IInv, TypeOK, Bytes, UpStream, RecordsFollow
  <2>1. PICK n, k \in Nat : n = Sent /\ k = Len(sslIn)
    BY <1>1, <2>0, UpIs
  <2>2. PICK w : w = upGot \o svcOut
    OBVIOUS
  <2>3. w \in Seq(Bytes) /\ Len(w) = n /\ \A i \in 1..n : w[i] = i
    <3>1. w \in Seq(Bytes)
      BY ONLY <2>0, <2>2
    <3>2. w = Numbers(n)
      BY <1>1, <2>1, <2>2, UpIs
    <3>. QED  BY <3>1, <3>2 DEF Numbers
  <2>4. /\ w \o sslIn \in Seq(Bytes) /\ Len(w \o sslIn) = n + k
        /\ \A i \in 1..n : (w \o sslIn)[i] = w[i]
        /\ \A i \in 1..k : (w \o sslIn)[n + i] = sslIn[i]
    <3>1. sslIn \in Seq(Bytes) /\ k = Len(sslIn) /\ w \in Seq(Bytes) /\ n = Len(w)
      BY <2>0, <2>1, <2>3
    <3>. QED  BY ONLY <3>1, JoinIs
  <2>5. ASSUME NEW i \in 1..(n + k) PROVE (w \o sslIn)[i] = i
    <3>1. i \in 1..n \/ \E j \in 1..k : i = n + j
      <4>1. i \in 1..n \/ (i - n \in 1..k /\ i = n + (i - n))
        BY <2>1
      <4>. QED  BY <4>1, Zenon
    <3>. QED  BY <2>0, <2>1, <2>3, <2>4, <3>1, Zenon
  <2>6. n + k \in Nat /\ n + k = up
    BY <2>0, <2>1
  <2>. QED  BY <2>2, <2>4, <2>5, <2>6, NumbersIs, Zenon
<1>2. IInv /\ RecordsFit => QuietMeansForwarded
  BY <1>1, DownIs, Zenon DEF QuietMeansForwarded, RecordsFit
<1>. QED  BY <1>2, ForwardingInvariance, RecordsFitHolds, PTL

\* An orderly end of either side is seen only after all that side sent has
\* been passed on.
THEOREM EndIsLastHolds == Spec => []EndIsLast
<1>1. ASSUME IInv, end = "client" PROVE upGot \o svcOut = Numbers(up)
  <2>1. Sent = up
    BY <1>1 DEF IInv, UpStream
  <2>. QED  BY <1>1, <2>1, UpIs
<1>2. ASSUME IInv, end = "service" PROVE svcIn = <<>>
  BY <1>2 DEF IInv, FlagsHold
<1>3. IInv => EndIsLast
  BY <1>1, <1>2, DownIs, Zenon DEF EndIsLast
<1>. QED  BY <1>3, ForwardingInvariance, PTL

=============================================================================
