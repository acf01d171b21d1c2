\* Two overlapping processes drain the same table.
CONSTANTS
  s1 = s1  s2 = s2  a1 = a1  i1 = i1  p1 = p1  p2 = p2
  Messages = {s1, i1}
  Procs = {p1, p2}
  Host <- TwoHosts
  Entry <- Kinds
  Unroutable = {}
  BatchSize = 1
  MaxAttempts = 2
  AttemptCap = 2
  MaxFaults = 1
  AckLoss = TRUE
SPECIFICATION Spec
INVARIANTS AckedSendIsQueued DeadExhausted
PROPERTY ImplementsQueue
