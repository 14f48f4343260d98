----------------------------- MODULE Forwarding -----------------------------
(***************************************************************************)
(* The bytes that bronnect relays (station/net/bronnect.c:                 *)
(* forward_client_to_service, forward_service_to_client, try_to_forward    *)
(* and the two callbacks that call it).  Bronnect has the events and the   *)
(* cleanup of many connections; here is one connection that relays, with   *)
(* what Bronnect leaves out: records and what SSL_read leaves of them in   *)
(* the SSL object, the record that SSL_write could not send whole, the     *)
(* send buffer of the service's socket.                                    *)
(*                                                                         *)
(* Bytes are numbered in the order they are sent; 0 is a byte that         *)
(* log_data has overwritten.                                               *)
(***************************************************************************)
EXTENDS Naturals, Sequences

CONSTANTS
  BUF,      \* size of the local buffers (4096)
  MaxRec,   \* bytes in the longest TLS record (16384)
  SndBuf,   \* room in the send buffer of the service's socket
  MaxBytes  \* bound on the bytes sent in each direction

ASSUME SizesAssumption ==
  /\ BUF \in Nat \ {0} /\ MaxRec \in Nat \ {0}
  /\ SndBuf \in Nat \ {0} /\ MaxBytes \in Nat

VARIABLES
  end,      \* why the connection is cleaned up, or "no"
  ready,    \* client_ready and service_ready; an event is added iff not in it
  fin,      \* which peers have ended their stream
  up,       \* bytes the client has sent
  records,  \* its records in the client's socket
  sslIn,    \* decrypted bytes in the SSL object
  svcOut,   \* send buffer of the service's socket
  upGot,    \* what the service has received
  down,     \* bytes the service has sent
  svcIn,    \* those in the service's socket
  pending,  \* the record SSL_write has not sent whole, and wnum of SSL
  downGot,  \* what the client has received
  logged,   \* st->state = 3
  wanted    \* history: SSL_write has returned SSL_ERROR_WANT_WRITE

vars == <<end, ready, fin, up, records, sslIn, svcOut, upGot, down, svcIn, pending,
          downGot, logged, wanted>>

NoRecord == [data |-> <<>>, wnum |-> 0]

Init ==
  /\ end = "no" /\ ready = {} /\ fin = {} /\ logged = FALSE /\ wanted = FALSE
  /\ up = 0 /\ records = <<>> /\ sslIn = <<>> /\ svcOut = <<>> /\ upGot = <<>>
  /\ down = 0 /\ svcIn = <<>> /\ pending = NoRecord /\ downGot = <<>>

Least(m, n) == IF m <= n THEN m ELSE n
First(s, n) == SubSeq(s, 1, Least(n, Len(s)))
Rest(s, n) == SubSeq(s, n + 1, Len(s))

-----------------------------------------------------------------------------
(* Service to client.                                                      *)

SSL_write_KeepRecord(buf) ==
  LET used == pending.wnum + Len(pending.data)
      new == Rest(buf, used)
      whole(d) == [err |-> "NONE", left |-> NoRecord, out |-> d]
  IN IF pending = NoRecord
     THEN {whole(buf), [err |-> "WANT_WRITE", left |-> [data |-> buf, wnum |-> 0], out |-> <<>>]}
     ELSE {[err |-> "SSL", left |-> pending, out |-> <<>>]} \cup
          IF Len(buf) < used THEN {}
          ELSE {[err |-> "NONE", left |-> pending, out |-> pending.data \o new],
                [err |-> "WANT_WRITE", left |-> pending, out |-> <<>>]} \cup
               (IF new = <<>> THEN {}
                ELSE {[err |-> "WANT_WRITE", left |-> [data |-> new, wnum |-> used],
                       out |-> pending.data]})

\* What SSL_write(buf) may do: the result, the record left and the bytes sent.
\* A record left by an earlier call is sent first, and its length is taken
\* off the buffer as if it were the same; a buffer that is too short or at
\* another address is an error.  (A buffer even shorter than wnum is an error
\* in later versions of OpenSSL; that older ones read past it is left out.)
SSL_write(buf) ==
  LET used == pending.wnum + Len(pending.data)
      new == Rest(buf, used)
      whole(d) == [err |-> "NONE", left |-> NoRecord, out |-> d]
  IN IF pending = NoRecord
     THEN {whole(buf), [err |-> "WANT_WRITE", left |-> [data |-> buf, wnum |-> 0], out |-> <<>>]}
     ELSE {[err |-> "SSL", left |-> pending, out |-> <<>>]} \cup
          IF Len(buf) < used THEN {}
          ELSE {whole(pending.data \o new),
                [err |-> "WANT_WRITE", left |-> pending, out |-> <<>>]} \cup
               (IF new = <<>> THEN {}
                ELSE {[err |-> "WANT_WRITE", left |-> [data |-> new, wnum |-> used],
                       out |-> pending.data]})

forward_service_to_client_AllAtOnce ==
  \/ end' = "error" /\ UNCHANGED <<svcIn, pending, downGot, wanted>>
  \/ svcIn = <<>> /\ end' = "service" /\ UNCHANGED <<svcIn, pending, downGot, wanted>>
  \/ /\ svcIn # <<>>
     /\ \E r \in SSL_write(svcIn) :
          /\ svcIn' = <<>>
          /\ pending' = r.left
          /\ downGot' = downGot \o r.out
          /\ wanted' = (wanted \/ r.err = "WANT_WRITE")
          /\ end' = IF r.err = "SSL" THEN "error" ELSE "no"

\* forward_service_to_client: recv fails or is at the end of the stream, or
\* the bytes received are given to SSL_write, once.
forward_service_to_client ==
  \/ end' = "error" /\ UNCHANGED <<svcIn, pending, downGot, wanted>>
  \/ svcIn = <<>> /\ end' = "service" /\ UNCHANGED <<svcIn, pending, downGot, wanted>>
  \/ /\ svcIn # <<>>
     /\ \E r \in SSL_write(First(svcIn, BUF)) :
          /\ svcIn' = Rest(svcIn, BUF)
          /\ pending' = r.left
          /\ downGot' = downGot \o r.out
          /\ wanted' = (wanted \/ r.err = "WANT_WRITE")
          /\ end' = IF r.err = "SSL" THEN "error" ELSE "no"

-----------------------------------------------------------------------------
(* Client to service.                                                      *)

\* log_data: the first buffer of a connection is logged, and its line break
\* or last byte overwritten.
log_data(buf) == IF logged THEN {buf} ELSE {[buf EXCEPT ![i] = 0] : i \in 1..Len(buf)}

\* sendall: the service's socket does not block; it takes what it has room
\* for, or more when the service reads meanwhile.  FALSE is EAGAIN.
sendall(buf) ==
  LET room == SndBuf - Len(svcOut)
  IN {[ok |-> k = Len(buf), out |-> First(buf, k)] : k \in Least(room, Len(buf))..Len(buf)}

\* The bytes SSL_read takes from: those it holds, then the next record.
Decrypted == IF sslIn # <<>> THEN sslIn ELSE IF records # <<>> THEN Head(records) ELSE <<>>

forward_client_to_service_LogFirst ==
  \/ end' = "error" /\ UNCHANGED <<records, sslIn, svcOut, logged>>
  \/ sslIn = <<>> /\ end' = "no" /\ UNCHANGED <<records, sslIn, svcOut, logged>>
  \/ Decrypted = <<>> /\ end' = "client" /\ UNCHANGED <<records, sslIn, svcOut, logged>>
  \/ /\ Decrypted # <<>>
     /\ \E b \in log_data(First(Decrypted, BUF)) : \E r \in sendall(b) :
          /\ sslIn' = Rest(Decrypted, BUF)
          /\ records' = IF sslIn # <<>> THEN records ELSE Tail(records)
          /\ svcOut' = svcOut \o r.out
          /\ logged' = TRUE
          /\ end' = IF r.ok THEN "no" ELSE "error"

forward_client_to_service_DropRest ==
  \/ end' = "error" /\ UNCHANGED <<records, sslIn, svcOut, logged>>
  \/ sslIn = <<>> /\ end' = "no" /\ UNCHANGED <<records, sslIn, svcOut, logged>>
  \/ Decrypted = <<>> /\ end' = "client" /\ UNCHANGED <<records, sslIn, svcOut, logged>>
  \/ /\ Decrypted # <<>>
     /\ \E r \in sendall(First(Decrypted, BUF)) :
          /\ sslIn' = <<>>
          /\ records' = IF sslIn # <<>> THEN records ELSE Tail(records)
          /\ svcOut' = svcOut \o r.out
          /\ logged' = TRUE
          /\ end' = IF r.ok THEN "no" ELSE "error"

forward_client_to_service_EndFirst ==
  \/ end' = "error" /\ UNCHANGED <<records, sslIn, svcOut, logged>>
  \/ sslIn = <<>> /\ end' = "no" /\ UNCHANGED <<records, sslIn, svcOut, logged>>
  \/ records = <<>> /\ end' = "client" /\ UNCHANGED <<records, sslIn, svcOut, logged>>
  \/ /\ Decrypted # <<>>
     /\ \E r \in sendall(First(Decrypted, BUF)) :
          /\ sslIn' = Rest(Decrypted, BUF)
          /\ records' = IF sslIn # <<>> THEN records ELSE Tail(records)
          /\ svcOut' = svcOut \o r.out
          /\ logged' = TRUE
          /\ end' = IF r.ok THEN "no" ELSE "error"

\* forward_client_to_service: SSL_read fails, has only a part of a record
\* (SSL_ERROR_WANT_READ), is at the end of the stream, or gives at most a
\* buffer, which is sent and then logged.
forward_client_to_service ==
  \/ end' = "error" /\ UNCHANGED <<records, sslIn, svcOut, logged>>
  \/ sslIn = <<>> /\ end' = "no" /\ UNCHANGED <<records, sslIn, svcOut, logged>>
  \/ Decrypted = <<>> /\ end' = "client" /\ UNCHANGED <<records, sslIn, svcOut, logged>>
  \/ /\ Decrypted # <<>>
     /\ \E r \in sendall(First(Decrypted, BUF)) :
          /\ sslIn' = Rest(Decrypted, BUF)
          /\ records' = IF sslIn # <<>> THEN records ELSE Tail(records)
          /\ svcOut' = svcOut \o r.out
          /\ logged' = TRUE
          /\ end' = IF r.ok THEN "no" ELSE "error"

-----------------------------------------------------------------------------
(* The callbacks.                                                          *)

Down == {"service_read", "client_write"}
Up == {"client_read", "service_write"}
Pair(f) == IF f \in Down THEN Down ELSE Up
Upward == <<records, sslIn, svcOut, logged>>
Downward == <<svcIn, pending, downGot, wanted>>

\* try_to_forward once flag f is set: only the direction of f can have become
\* ready.  The flags are cleared, and the events added again, afterwards.
try_to_forward(f) ==
  LET set == ready \cup {f}
  IN IF ~(Pair(f) \subseteq set)
     THEN ready' = set /\ UNCHANGED <<end, Upward, Downward>>
     ELSE /\ \/ Pair(f) = Down /\ forward_service_to_client /\ UNCHANGED Upward
             \/ Pair(f) = Up /\ forward_client_to_service /\ UNCHANGED Downward
          /\ ready' = IF end' = "no" THEN set \ Pair(f) ELSE set

Callback(f) ==
  /\ end = "no" /\ f \notin ready
  /\ try_to_forward(f)
  /\ UNCHANGED <<fin, up, upGot, down>>

on_read_ready ==
  \/ (records # <<>> \/ "client" \in fin) /\ Callback("client_read")
  \/ (svcIn # <<>> \/ "service" \in fin) /\ Callback("service_read")

on_write_ready ==
  \/ Callback("client_write")
  \/ Len(svcOut) < SndBuf /\ Callback("service_write")

-----------------------------------------------------------------------------
(* The peers.                                                              *)

ClientSends(n) ==
  /\ "client" \notin fin /\ up + n <= MaxBytes
  /\ up' = up + n
  /\ records' = Append(records, [i \in 1..n |-> up + i])
  /\ UNCHANGED <<end, ready, fin, sslIn, svcOut, upGot, down, svcIn, pending, downGot, logged, wanted>>

ServiceSends ==
  /\ "service" \notin fin /\ down < MaxBytes
  /\ down' = down + 1
  /\ svcIn' = Append(svcIn, down + 1)
  /\ UNCHANGED <<end, ready, fin, up, records, sslIn, svcOut, upGot, pending, downGot, logged, wanted>>

\* The service reads; what is in the send buffer gets there also after close.
ServiceReads ==
  /\ svcOut # <<>>
  /\ upGot' = Append(upGot, Head(svcOut)) /\ svcOut' = Tail(svcOut)
  /\ UNCHANGED <<end, ready, fin, up, records, sslIn, down, svcIn, pending, downGot, logged, wanted>>

PeerEnds(p) ==
  /\ p \notin fin
  /\ fin' = fin \cup {p}
  /\ UNCHANGED <<end, ready, up, records, sslIn, svcOut, upGot, down, svcIn, pending, downGot, logged, wanted>>

Next ==
  \/ on_read_ready \/ on_write_ready
  \/ \E n \in 1..MaxRec : ClientSends(n)
  \/ ServiceSends \/ ServiceReads
  \/ \E p \in {"client", "service"} : PeerEnds(p)

Spec == Init /\ [][Next]_vars

-----------------------------------------------------------------------------
(* Properties.                                                             *)

Numbers(n) == [i \in 1..n |-> i]
Bytes == 0..MaxBytes

\* Every variable has its type, and what SSL_write has left of the records of
\* a buffer is never more than the buffer.
TypeOK ==
  /\ end \in {"no", "service", "client", "error"}
  /\ ready \subseteq Down \cup Up /\ fin \subseteq {"client", "service"}
  /\ up \in Bytes /\ down \in Bytes /\ logged \in BOOLEAN /\ wanted \in BOOLEAN
  /\ sslIn \in Seq(Bytes) /\ svcOut \in Seq(Bytes) /\ upGot \in Seq(Bytes)
  /\ svcIn \in Seq(Bytes) /\ downGot \in Seq(Bytes)
  /\ records \in Seq(Seq(Bytes) \ {<<>>})
  /\ pending \in [data : Seq(Bytes), wnum : Nat]
  /\ pending.wnum + Len(pending.data) <= BUF

\* The service receives the client's bytes as they were sent, without a gap,
\* although log_data overwrites the buffer and sendall may stop half way.
UpIntact == \E n \in 0..up : upGot \o svcOut = Numbers(n)

\* The client never receives a byte twice or out of order, also when
\* SSL_write is called with other data than the record it has left.
DownInOrder ==
  \A i, j \in DOMAIN downGot : i < j => downGot[i] < downGot[j]

\* Nothing is forgotten: when no socket has anything to read and both are
\* known to be writable, the client's bytes have been forwarded but for those
\* the SSL object holds.  No event comes for these until the client sends
\* more, so they may wait for long; but they are the next bytes, and the rest
\* of one record that is longer than the buffer.  The service's bytes have
\* been forwarded unless SSL_write has had to wait, which drops them.
QuietMeansForwarded ==
  (end = "no" /\ {"client_write", "service_write"} \subseteq ready /\ records = <<>> /\ svcIn = <<>>) =>
    /\ upGot \o svcOut \o sslIn = Numbers(up)
    /\ sslIn = <<>> \/ Len(sslIn) + BUF <= MaxRec
    /\ ~wanted => downGot = Numbers(down)

\* A peer that ends its stream has all its bytes forwarded before the
\* connection is cleaned up for it, unless SSL_write had to wait.
EndIsLast ==
  /\ end = "client" => upGot \o svcOut = Numbers(up)
  /\ end = "service" /\ ~wanted => downGot = Numbers(down)

\* What makes them inductive.
\* A flag that is set is still right: nothing but the forwarding, which clears
\* it, takes bytes to read or room to write away.
FlagsHold ==
  /\ end = "no" =>
       /\ "client_read" \in ready => records # <<>> \/ "client" \in fin
       /\ "service_read" \in ready => svcIn # <<>> \/ "service" \in fin
       /\ "service_write" \in ready => Len(svcOut) < SndBuf
  /\ end = "client" => "client" \in fin
  /\ end = "service" => "service" \in fin /\ svcIn = <<>>

\* The client's bytes are, in order, those the service has received, those in
\* its socket, those the SSL object holds and those of the records, which
\* are the bytes from m + 1 to n.
Sent == Len(upGot) + Len(svcOut)
RecordsFollow(rs, m, n) ==
  /\ m = IF rs = <<>> THEN n ELSE rs[1][1] - 1
  /\ \A k \in 1..Len(rs) :
       /\ \A i \in 1..Len(rs[k]) : rs[k][i] = rs[k][1] + i - 1
       /\ rs[k][1] + Len(rs[k]) = IF k = Len(rs) THEN n + 1 ELSE rs[k + 1][1]
       /\ rs[k][1] + Len(rs[k]) <= n + 1
UpStream ==
  /\ \A i \in 1..Len(upGot) : upGot[i] = i
  /\ \A i \in 1..Len(svcOut) : svcOut[i] = Len(upGot) + i
  /\ Sent <= up
  /\ end = "client" => Sent = up
  /\ end = "no" => /\ \A i \in 1..Len(sslIn) : sslIn[i] = Sent + i
                   /\ RecordsFollow(records, Sent + Len(sslIn), up)

\* The service's bytes are, in order, those that the client has received,
\* those of the record SSL_write has left and those in the socket; without a
\* gap as long as SSL_write has not had to wait.
Within(s, m, n) ==
  /\ \A i \in 1..Len(s) : m < s[i] /\ s[i] <= n
  /\ \A i, j \in 1..Len(s) : i < j => s[i] < s[j]
DownStream ==
  LET taken == down - Len(svcIn) IN
  /\ Len(svcIn) <= down
  /\ \A i \in 1..Len(svcIn) : svcIn[i] = taken + i
  /\ \E m \in 0..taken : Within(downGot, 0, m) /\ Within(pending.data, m, taken)
  /\ ~wanted => /\ pending = NoRecord /\ Len(downGot) = taken
                /\ \A i \in 1..Len(downGot) : downGot[i] = i

IInv == TypeOK /\ FlagsHold /\ UpStream /\ DownStream

\* SSL_read opens a record only when nothing is left of the one before.
RecordsFit ==
  /\ \A k \in 1..Len(records) : Len(records[k]) <= MaxRec
  /\ sslIn = <<>> \/ Len(sslIn) + BUF <= MaxRec

=============================================================================
