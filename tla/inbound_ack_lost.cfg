\* The transaction of e2 may fail.
CONSTANTS
  e1 = e1  e2 = e2  r1 = r1  r2 = r2  w1 = w1  w2 = w2
  Events = {e1, e2}
  Requests = {r1, r2}
  Workers = {w1, w2}
  Main = w1
  Unassignable = {e2}
  BatchSize = 2
  Buffer = 1
  Failing = {e2}
  MaxFaults = 1
  Posts <- Deliveries
  Req <- SomeDeliveries
  Envs <- SomeEnvs
SPECIFICATION InboundSpec
INVARIANT AckedIsStored
