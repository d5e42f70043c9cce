\* Clients learn the current revision, fences come down, joins are answered.
SPECIFICATION FairSpec
CONSTANTS
  Document = {d1}
  Element = {e1}
  User = {ann, bob}
  Socket = {s1, s2}
  Session = {x1, x2}
  Op = {o1}
  Owner = ann
  UserOf <- TheUserOf
  SessionOf <- TheSessionOf
  Capacity = 3
  MaxDocuments = 1
  MaxParticipants = 2
  InitialElements = {e1}
  Budgets <- Settling
  None = None
  ann = ann
  bob = bob
  s1 = s1
  x1 = x1
  x2 = x2
PROPERTIES
  RoomConverges
  FencesClear
  JoinsAnswered
CHECK_DEADLOCK FALSE
