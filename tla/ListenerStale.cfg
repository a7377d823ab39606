\* Stale lookups, checked for a second request of an accepted 4-tuple.
CONSTANTS
  p1 = p1
  p2 = p2
  Peers <- MCPeers
  MaxAckBacklog = 0
  BacklogLimit = 2
  RcvbufPkts = 2
  MaxPackets = 3
  StaleLookup = TRUE
  TimeoFinite = FALSE
SPECIFICATION Spec
INVARIANT RequestUnique
