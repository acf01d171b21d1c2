\* The phases of wireRunner: all have a Stop, only http has a Start.
CONSTANTS
  relay = relay  reconciler = reconciler  http = http
  N = 5
  HasStart = {5}
  HasStop = {1, 2, 3, 4, 5}
  Goroutines = {relay, reconciler, http}
  EndedBy <- WiredBy
  inbound = inbound
  Topics = {inbound}
  Events = {e1}
  TopicOf <- AllInbound
  Capacity <- One
  Publishers = {p1}
  Handlers = {h1}
  Drainers = {d1}
  acme = acme
  Sockets = {s1}
  WsTenants = {acme}
  Requests <- SomeRequests
  NoOrigin <- Absent
  AllowedOrigins <- Configured
  AllowSameOrigin = TRUE
  TrustedProxy = TRUE
  SubscriberBuffer = 1
SPECIFICATION ProcessSpec
INVARIANT StopOnlyIsStopped
CHECK_DEADLOCK FALSE
