\* A replacement is announced after later commands and locks.
SPECIFICATION Spec
CONSTANTS
  Document = {d1}
  Element = {e1, e2}
  User = {ann, bob}
  Socket = {s1, s2}
  Session = {x1, x2}
  Op = {o1}
  Owner = ann
  UserOf <- TheUserOf
  SessionOf <- TheSessionOf
  Capacity = 3
  MaxDocuments = 1
  MaxParticipants = 2
  InitialElements = {e1}
  Budgets <- Stale
  None = None
  ann = ann
  bob = bob
  s1 = s1
  x1 = x1
  x2 = x2
PROPERTIES
  LocksOutliveResync
CHECK_DEADLOCK FALSE
