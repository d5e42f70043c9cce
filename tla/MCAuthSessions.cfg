\* A session, legacy or new, three requests at a time, a socket, a writing
\* transaction, batches of one session, one failing statement.
SPECIFICATION Spec
CONSTANTS
  Session = {x1}
  User = {ann}
  Call = {c1, c2, c3}
  Socket = {k1}
  Writer = {w1}
  MaxSequence = 2
  BatchSize = 1
  MaxFailures = 1
  None = None
INVARIANTS
  SurvivorsExplained
PROPERTIES
  ExchangedOnce
  ReplayEndsSession
  LogoutEndsSession
  WritesUnderSession
CHECK_DEADLOCK FALSE
