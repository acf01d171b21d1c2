\* One process, fewer unroutable rows than BatchSize, three faults of any kind;
\* a statement that fails is not applied.
CONSTANTS
  s1 = s1  s2 = s2  a1 = a1  i1 = i1  p1 = p1  p2 = p2
  Messages = {s1, a1}
  Procs = {p1}
  Host <- OneHost
  Entry <- Kinds
  Unroutable = {a1}
  BatchSize = 2
  MaxAttempts = 2
  AttemptCap = 2
  MaxFaults = 3
  AckLoss = FALSE
SPECIFICATION FairSpec
INVARIANTS DuplicatesAreFaults AnnouncedIsDead NoLostSignal
PROPERTY RoutableSettles
