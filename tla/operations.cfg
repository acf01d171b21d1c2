\* Two channels of a tenant under one KEK and rotations that may run twice; two
\* requests that race for a setting; a tenant with a row, an export, an import and
\* a reset; two callers of a sender whose credential changes; four requests of the
\* API, at the time a token runs out and after it.
CONSTANTS
  waba = waba
  telegram = telegram
  Creds = {waba, telegram}
  Tenant <- OneTenant
  Readers = {r1}
  MaxDeks = 3
  MaxRuns = 2
  Clients = {c1, c2}
  TTL = 2
  Slow = 1
  Cap = 1
  MaxValues = 3
  MaxNow = 5
  Backups = {b1}
  Imports = {j1}
  Tables <- TwoTables
  WhatsappTables <- Whatsmeow
  Restorable <- Accepted
  Rows = {x1}
  Keys = {k1}
  Getters = {g1, g2}
  SenderTTL = 2
  SlowGet = 1
  MaxIssued = 3
  LastTick = 5
  Asks <- AskNames
  What <- SomeAsks
  Times = {1000, 1001}
SYMMETRY Same
SPECIFICATION Spec
INVARIANTS CredentialsSurvive ResolveFailsByKekOnly
INVARIANT StaleIsBounded
INVARIANTS DoneExportIsSnapshot NoStuckSerializer DoneResetForgets
INVARIANTS OldTokenIsBounded AcceptedIsSupported
CHECK_DEADLOCK FALSE
