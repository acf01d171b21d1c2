CONSTANTS
  c1 = c1  c2 = c2  q1 = q1  q2 = q2
  Convs = {c1, c2}
  Agents = {1, 2}
  Workers = {w1, w2}
  Queues = {q1, q2}
  ExternalID <- StartQueue
  Overflow <- Circle
  Strategy <- Strategies
  Pool <- Pools
  Skilled <- Experts
  MaxLoad <- OneEach
  ByHand = {2}
  Commuters = {1}
  MaxStrays = 1
SYMMETRY AnyWorker
SPECIFICATION Spec
INVARIANTS DriftIsPaidFor OvershootIsBounded NobodyOverlooked
PROPERTY ResolvedIsTerminal
