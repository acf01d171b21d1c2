\* A provider that retries, a crash, an overlapping retry or a failure, with two
\* requests at a time or with two reconcilers, while the transaction of e2 may
\* fail and e2 can never be assigned; and five deliveries with several messages,
\* none, or the wrong secret, to a server whose secrets change.
CONSTANTS
  e1 = e1  e2 = e2  r1 = r1  r2 = r2  w1 = w1  w2 = w2
  Events = {e1, e2}
  Requests = {r1, r2}
  Workers = {w1, w2}
  Main = w1
  Unassignable = {e2}
  BatchSize = 2
  Buffer = 1
  Failing = {e2}
  MaxFaults = 1
  Posts <- Deliveries
  Req <- SomeDeliveries
  Envs <- SomeEnvs
SPECIFICATION InboundSpec
INVARIANTS RoutedWasAssigned ForgottenOnlyBehind
PROPERTIES ImplementsInbox StoredIsRouted PostedIsRouted
