\* The instance of operations.cfg, of which the four requests matter.
CONSTANTS
  waba = waba
  telegram = telegram
  Creds = {waba, telegram}
  Tenant <- OneTenant
  Readers = {r1}
  MaxDeks = 3
  MaxRuns = 2
  Clients = {c1, c2}
  TTL = 2
  Slow = 1
  Cap = 1
  MaxValues = 3
  MaxNow = 5
  Backups = {b1}
  Imports = {j1}
  Tables <- TwoTables
  WhatsappTables <- Whatsmeow
  Restorable <- Accepted
  Rows = {x1}
  Keys = {k1}
  Getters = {g1, g2}
  SenderTTL = 2
  SlowGet = 1
  MaxIssued = 3
  LastTick = 5
  Asks <- AskNames
  What <- SomeAsks
  Times = {1000, 1001}
SYMMETRY Same
SPECIFICATION Spec
INVARIANT DeliveredIsAsked
CHECK_DEADLOCK FALSE
