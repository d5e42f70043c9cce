\* A client leaves a document and joins it again at once.
SPECIFICATION Spec
CONSTANTS
  Document = {d1}
  Element = {e1}
  User = {ann, bob}
  Socket = {s1, s2}
  Session = {x1, x2}
  Op = {o1}
  Owner = ann
  UserOf <- TheUserOf
  SessionOf <- TheSessionOf
  Capacity = 3
  MaxDocuments = 1
  MaxParticipants = 2
  InitialElements = {e1}
  Budgets <- Rejoining
  None = None
  ann = ann
  bob = bob
  s1 = s1
  x1 = x1
  x2 = x2
INVARIANTS
  AcknowledgedMeansJoined
CHECK_DEADLOCK FALSE
