CONSTANTS
  alice = alice
  ida = ida
  Emails = {alice, ida}
  Kind <- Kinds
  Requests = {r1, r2}
  Sessions = {s1, s2}
  MaxFails = 2
  LockWindow = 1
  SessionTTL = 1
  StateTTL = 1
  Burst = 2
  Users = {u1, u2}
  Roles = {root, ops}
  Root = root
  Callers = {c1, c2}
  CacheTTL = 2
  Slow = 1
SYMMETRY Same
SPECIFICATION Spec
INVARIANTS GuessesAreBounded LogoutHolds RevocationTakesEffect
PROPERTIES LiveSessionIsKept
CHECK_DEADLOCK FALSE
