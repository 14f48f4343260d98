----------------------------- MODULE MCHandOver -----------------------------
(* Instances of HandOver for TLC.                                          *)
EXTENDS HandOver

\* The client's Finished message is cut in some of its segments, as is the
\* server's key exchange.
MCClientEnds == [key |-> 1, ccs |-> 2, fin |-> 4]
MCServerEnds == [key |-> 2, ccs |-> 3, fin |-> 4]

\* The client sends its records together, or in two packets cut either way.
MCClientSegments == {<<0, 4>>, <<0, 1>>, <<1, 4>>, <<0, 3>>, <<3, 4>>}

\* The server's last two messages in one packet, also when the first of them
\* has gone out before, or each in its own.
OnePacket == {<<0, 1>>, <<0, 2>>, <<1, 2>>, <<2, 3>>, <<2, 4>>}
TwoPackets == {<<0, 2>>, <<2, 3>>, <<3, 4>>}
=============================================================================
