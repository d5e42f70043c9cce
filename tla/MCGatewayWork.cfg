\* Commands sent again, errors, hidden commits, crashes, the recovery; locks and
\* leases; replaced and deleted documents, deleted projects.
SPECIFICATION Spec
CONSTANTS
  Document = {d1}
  Element = {e1}
  User = {ann, bob}
  Socket = {s1, s2}
  Session = {x1, x2}
  Op = {o1, o2}
  Owner = ann
  UserOf <- TheUserOf
  SessionOf <- TheSessionOf
  Capacity = 3
  MaxDocuments = 1
  MaxParticipants = 2
  InitialElements = {e1}
  Budgets <- Work
  None = None
  ann = ann
  bob = bob
  s1 = s1
  x1 = x1
  x2 = x2
SYMMETRY Interchangeable
INVARIANTS
  DeliveredMeansTold
  RevisionHistory
  LocksHeldByParticipants
  CriticalWorkScheduled
PROPERTIES
  LocksOutliveResync
CHECK_DEADLOCK FALSE
