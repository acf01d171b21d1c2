CONSTANTS
  Tenants = {t1, t2}
  Callers = {c1, c2}
  MaxActiveTenants = 1
  MaxClients = 2
  MaxEvents = 2
  EventBuffer = 1
  Factory <- RealSends
  Banned = {}
  Senders = {s1, s2}
  Ramp <- ShortRamp
  Steady = 2
  DayLength = 2
  LockTicks = 2
  MinInterval = 2
  MaxBackoff = 4
  MaxHealth = 1
  MaxClock = 5
SYMMETRY Same
SPECIFICATION AllSpec
INVARIANT NoOrphanSocket
PROPERTIES EvictedIsSilent QuotaHolds ReconnectsAreSpaced
CHECK_DEADLOCK FALSE
