\* Lookups current when the socket is locked: the backlog flag and the
\* re-lookup of quic_new_sock_do_rcv are what keep requests unique.
CONSTANTS
  p1 = p1
  p2 = p2
  Peers <- MCPeers
  MaxAckBacklog = 0
  BacklogLimit = 2
  RcvbufPkts = 2
  MaxPackets = 3
  StaleLookup = FALSE
  TimeoFinite = FALSE
SPECIFICATION Spec
INVARIANT TypeOK
INVARIANT RequestUnique
