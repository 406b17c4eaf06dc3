SPECIFICATION FairSpec
CONSTANTS
  Clients = {p, q}
  Steers = p
  Conns = {c1, c2}
  None = none
  Slots = 1
  MaxRequests = 2
  Reuses = {q}
  MaxSent = 3
INVARIANTS LastWordWins AnswersMatch
PROPERTY SessionsEnd
CHECK_DEADLOCK FALSE
