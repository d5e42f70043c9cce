\* Two documents of two elements, two sockets, two leases, a shutdown, timers
\* that fire late or one tick early.
SPECIFICATION FairSpec
CONSTANTS
  Document = {d1, d2}
  Element = {e1, e2}
  Socket = {s1, s2}
  Lease = {l1, l2}
  TTL = 2
  TimerEarly = 1
  None = None
INVARIANTS
  IndexExact
  AnnouncedIsStored
PROPERTIES
  LapsedIsOver
  LiveLeaseProtected
  TimelyLocksExpire
CHECK_DEADLOCK FALSE
