\* A runner of four phases, 1 without a Stop and 2 without a Start, whose signal
\* may come at any time; a bus with room for one event, a publisher that never
\* stops and two handlers; a hub with two connections of one tenant, broadcasts
\* and a Shutdown at any time.
CONSTANTS
  relay = relay  reconciler = reconciler  http = http
  N = 4
  HasStart = {1, 3, 4}
  HasStop = {2, 3, 4}
  Goroutines = {relay, http}
  EndedBy <- OfFour
  inbound = inbound
  Topics = {inbound, status}
  Events = {e1, e2}
  TopicOf <- AllInbound
  Capacity <- One
  Publishers = {p1}
  Handlers = {h1, h2}
  Drainers = {d1}
  acme = acme
  Sockets = {s1, s2}
  WsTenants = {acme}
  Requests <- SomeRequests
  NoOrigin <- Absent
  AllowedOrigins <- Configured
  AllowSameOrigin = TRUE
  TrustedProxy = TRUE
  SubscriberBuffer = 1
SPECIFICATION ProcessSpec
INVARIANTS AttemptedIsStopped LaterStoppedFirst QuietAfterDrain NobodyOutlivesShutdown
PROPERTIES GoroutinesDrain BufferedIsHandled DrainEnds EndedIsForgotten
CHECK_DEADLOCK FALSE
