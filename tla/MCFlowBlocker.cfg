SPECIFICATION FairSpec
CONSTANTS
  client = client
  server = server
  p1 = p1
  https = https
  alt = alt
  c1 = c1
  c2 = c2
  s1 = s1
  s2 = s2
  Addrs = {client, server}
  Ports = {p1, https, alt}
  Flows <- MCFlows
  Conns = {c1, c2}
  Slots = {s1, s2}
  NoConn = NoConn
  NoTimer = NoTimer
  TICK = 54000
  MaxStream = 1
INVARIANTS BlockHasTimer
PROPERTIES NeverOverdue BlockExpires
