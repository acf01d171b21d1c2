----------------------------- MODULE SettingsCache -----------------------------
(***************************************************************************)
(* usecase/settings with its repository, the /admin/settings handlers and  *)
(* the hot-reload watcher of the server.  Get fills the cache with what it *)
(* read outside the lock, Set writes the database and then the cache: both *)
(* may store a value that another request has replaced meanwhile.  Values  *)
(* are numbered in the order they were stored; 0 is a setting that does    *)
(* not exist and whose default is served.  The keys are independent.       *)
(***************************************************************************)
EXTENDS Integers, FiniteSets

CONSTANTS
  Clients,   \* requests and components that use the service
  TTL,       \* ticks a cached value is served, 60s
  Slow,      \* ticks a request lasts at most
  Cap,       \* capacity of a watcher's channel, 16
  MaxValues, \* bound: values ever stored
  MaxNow     \* bound: ticks of the clock

ASSUME SettingsAssumption ==
  /\ IsFiniteSet(Clients)
  /\ TTL \in Nat \ {0} /\ Slow \in Nat /\ Cap \in Nat /\ MaxValues \in Nat /\ MaxNow \in Nat

VARIABLES
  stored,   \* the row: its value and the KEK it is sealed under
  cache,    \* the cached value and when it was cached
  req,      \* what each client is at
  sealer,   \* KEK of the running process
  watch,    \* events in the watcher's channel; -1 without a watcher
  time,
  last,     \* values stored so far
  replaced, \* history: when each value stopped being the stored one
  served    \* history: the age of the value served last, 0 while current

settingsVars == <<stored, cache, req, sealer, watch, time, last, replaced, served>>

Values   == 0 .. MaxValues
NoEntry  == [at |-> -1, val |-> 0]
NoRow    == [val |-> 0, kek |-> "none"]
Resting  == [at |-> "rest"]

SettingsTypeOK ==
  /\ stored \in [val : Values, kek : {"old", "new", "none"}]
  /\ cache \in [val : Values, at : -1 .. MaxNow]
  /\ sealer \in {"old", "new"}
  /\ watch \in -1 .. Cap /\ time \in 0 .. MaxNow /\ last \in Values
  /\ replaced \in [Values -> 0 .. MaxNow] /\ served \in 0 .. MaxNow

SettingsInit ==
  /\ stored = NoRow /\ cache = NoEntry
  /\ req = [c \in Clients |-> Resting]
  /\ sealer = "old" /\ watch = -1
  /\ time = 0 /\ last = 0
  /\ replaced = [v \in Values |-> 0]
  /\ served = 0

\* Ticks since v was replaced, 0 while it is what the database has.
Age(v) == IF stored.val = v THEN 0 ELSE time - replaced[v]

At(c, step) == req[c].at = step
Rests(c)    == req' = [req EXCEPT ![c] = Resting]

\* The row becomes r, and its last value has been replaced now.
Stores(r) ==
  /\ stored' = r
  /\ replaced' = [replaced EXCEPT ![stored.val] = time]

-----------------------------------------------------------------------------
(* Service.Get.                                                            *)

Fresh == cache.at >= 0 /\ time - cache.at < TTL

\* Mutant: a hit renews the entry.
HitRenews(c) ==
  /\ At(c, "rest") /\ Fresh
  /\ served' = Age(cache.val)
  /\ cache' = [cache EXCEPT !.at = time]
  /\ UNCHANGED <<stored, req, sealer, watch, time, last, replaced>>

\* A cached value younger than TTL is served without a query.
Hit(c) ==
  /\ At(c, "rest") /\ Fresh
  /\ served' = Age(cache.val)
  /\ UNCHANGED <<stored, cache, req, sealer, watch, time, last, replaced>>

\* Otherwise the row is read, after the lock is released.
ReadRow(c) ==
  /\ At(c, "rest") /\ ~Fresh
  /\ req' = [req EXCEPT ![c] = [at |-> "got", row |-> stored, since |-> time]]
  /\ UNCHANGED <<stored, cache, sealer, watch, time, last, replaced, served>>

\* No row: the default, which is not cached.  A row that does not open under
\* the KEK of the process is an error; any other is cached as of now.
GetReturns(c) ==
  LET row == req[c].row IN
  /\ At(c, "got") /\ Rests(c)
  /\ IF row # NoRow /\ row.kek # sealer THEN UNCHANGED <<cache, served>>
     ELSE /\ served' = Age(row.val)
          /\ cache' = IF row = NoRow THEN cache ELSE [val |-> row.val, at |-> time]
  /\ UNCHANGED <<stored, sealer, watch, time, last, replaced>>

-----------------------------------------------------------------------------
(* Service.Set, Delete and the watcher.                                    *)

\* setWithDescription as far as the UPSERT, which replaces whatever is there.
SetRow(c) ==
  /\ At(c, "rest") /\ last < MaxValues
  /\ last' = last + 1
  /\ Stores([val |-> last + 1, kek |-> sealer])
  /\ req' = [req EXCEPT ![c] = [at |-> "set", val |-> last + 1, since |-> time]]
  /\ UNCHANGED <<cache, sealer, watch, time, served>>

\* The rest of it: the cache, then the watcher, whose full channel drops it.
SetCache(c) ==
  /\ At(c, "set") /\ Rests(c)
  /\ cache' = [val |-> req[c].val, at |-> time]
  /\ watch' = IF watch \in 0 .. Cap - 1 THEN watch + 1 ELSE watch
  /\ UNCHANGED <<stored, sealer, time, last, replaced, served>>

\* Delete of a row that exists.
DeleteRow(c) ==
  /\ At(c, "rest") /\ stored # NoRow
  /\ Stores(NoRow)
  /\ req' = [req EXCEPT ![c] = [at |-> "deleted", since |-> time]]
  /\ UNCHANGED <<cache, sealer, watch, time, last, served>>

\* The cache after Delete, and InvalidateCache.
Invalidate(c) ==
  /\ At(c, "deleted") /\ Rests(c)
  /\ cache' = NoEntry
  /\ UNCHANGED <<stored, sealer, watch, time, last, replaced, served>>

Watch ==
  /\ watch = -1
  /\ watch' = 0
  /\ UNCHANGED <<stored, cache, req, sealer, time, last, replaced, served>>

\* The watcher only logs that a restart is needed.
Receive ==
  /\ watch > 0
  /\ watch' = watch - 1
  /\ UNCHANGED <<stored, cache, req, sealer, time, last, replaced, served>>

\* The cancel function; the server's wiring defers it to its own return.
CancelWatch ==
  /\ watch >= 0
  /\ watch' = -1
  /\ UNCHANGED <<stored, cache, req, sealer, time, last, replaced, served>>

\* The process stops, or dies of two requests that use the map at once, as
\* setWithDescription reads it without the lock.  The next one may have
\* another KEK.  SeedDefaults only stores a setting that does not exist, and
\* runs before any request.
Reboot(k) ==
  /\ sealer' = k /\ watch' = -1
  /\ req' = [c \in Clients |-> Resting]
  /\ IF stored = NoRow /\ last < MaxValues
     THEN /\ last' = last + 1
          /\ Stores([val |-> last + 1, kek |-> k])
          /\ cache' = [val |-> last + 1, at |-> time]
     ELSE cache' = NoEntry /\ UNCHANGED <<stored, last, replaced>>
  /\ UNCHANGED <<time, served>>

\* No request lasts longer than Slow ticks.
Tick ==
  /\ time < MaxNow
  /\ \A c \in Clients : ~At(c, "rest") => time - req[c].since < Slow
  /\ time' = time + 1
  /\ UNCHANGED <<stored, cache, req, sealer, watch, last, replaced, served>>

SettingsNext ==
  \/ \E c \in Clients : \/ Hit(c) \/ ReadRow(c) \/ GetReturns(c)
                        \/ SetRow(c) \/ SetCache(c) \/ DeleteRow(c) \/ Invalidate(c)
  \/ Watch \/ Receive \/ CancelWatch
  \/ \E k \in {"old", "new"} : Reboot(k)
  \/ Tick

SettingsSpec == SettingsInit /\ [][SettingsNext]_settingsVars

-----------------------------------------------------------------------------

\* service.go:77-112 and 150-164: whatever requests race to fill the cache, a
\* value is served for less than TTL after it was replaced, and the time the
\* request that cached it took.
StaleIsBounded == served < TTL + Slow \/ served = 0
=============================================================================
