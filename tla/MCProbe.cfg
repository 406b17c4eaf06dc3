SPECIFICATION FairSpec
CONSTANTS
  a = a
  v = v
  Pings = {a}
  Preflights = {v}
  Ports = {q1, q2}
  Nobody = nobody
  Stranger = stranger
  Starts <- MCStarts
  Rounds = 2
  MaxPaths = 2
  Permits = 1
INVARIANT NothingLeft
PROPERTIES OwnAnswer  ProbesEnd
