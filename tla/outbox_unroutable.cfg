\* A channel without a sender: its row is retried for ever.
CONSTANTS
  s1 = s1  s2 = s2  a1 = a1  i1 = i1  p1 = p1  p2 = p2
  Messages = {i1}
  Procs = {p1}
  Host <- OneHost
  Entry <- Kinds
  Unroutable = {i1}
  BatchSize = 2
  MaxAttempts = 2
  AttemptCap = 2
  MaxFaults = 0
  AckLoss = FALSE
SPECIFICATION FairSpec
PROPERTY UnroutableDies
