\* Joins, leaves, lost connections, revoked sessions, members removed and let in again.
SPECIFICATION Spec
CONSTANTS
  Document = {d1, d2}
  Element = {e1}
  User = {ann, bob}
  Socket = {s1, s2, s3}
  Session = {x1, x2}
  Op = {o1}
  Owner = ann
  UserOf <- TheUserOf
  SessionOf <- TheSessionOf
  Capacity = 3
  MaxDocuments = 1
  MaxParticipants = 2
  InitialElements = {e1}
  Budgets <- Rooms
  None = None
  ann = ann
  bob = bob
  s1 = s1
  x1 = x1
  x2 = x2
SYMMETRY Interchangeable
INVARIANTS
  RoomCoherence
  DocumentLimit
  FencedUntilEvicted
PROPERTIES
  NoEmissionToRemoved
CHECK_DEADLOCK FALSE
