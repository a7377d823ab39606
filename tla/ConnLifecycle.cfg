\* Client and server; CID limit 3, peer CIDs up to 2.
CONSTANTS
  MaxCount = 3
  MaxDest = 2
  MaxCalls = 5
  Threads = {t1}
  SndBuf = 1
  RcvQ = 1
SPECIFICATION Spec
INVARIANT TypeOK
INVARIANT IssuedCidsAnnounced
INVARIANT HandshakeDoneOnce
PROPERTY SendWaitEnds
CHECK_DEADLOCK FALSE
