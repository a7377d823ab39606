\* Two application threads: one sleeps in quic_sendmsg while the other
\* resets the stream or sends its fin.
CONSTANTS
  MaxCount = 3
  MaxDest = 2
  MaxCalls = 6
  Threads = {t1, t2}
  SndBuf = 1
  RcvQ = 1
SPECIFICATION Spec
INVARIANT StreamEndsOnce
CHECK_DEADLOCK FALSE
