SPECIFICATION FairSpec
CONSTANTS
  p1 = p1
  p2 = p2
  p3 = p3
  ann = ann
  bob = bob
  x1 = x1
  x2 = x2
  Request = {p1, p2, p3}
  Client = {ann, bob}
  Session = {x1, x2}
  ClientOf <- MCClientOf
  SessionOf <- MCSessionOf
  HandshakeLimit = 2
  GlobalLimit = 2
  MaxPending = 2
  MaxSockets = 2
  MaxPerSession = 1
  EventLimit = 2
INVARIANTS
  VerifiersHoldSlots
  NothingLeftBehind
PROPERTIES
  SlotsReturned
CHECK_DEADLOCK FALSE
