---------------------------- MODULE SenderRegistry ----------------------------
(***************************************************************************)
(* adapter/sender/memory: the senders by tenant and channel, built from    *)
(* the credentials of the moment by the factories of provider/registry,    *)
(* and cached.  Get looks under the read lock, looks again under the write *)
(* lock and runs the factory under it; the clock it compares with was read *)
(* before either.  Credentials are numbered in the order they were issued; *)
(* 0 is none.                                                              *)
(***************************************************************************)
EXTENDS Integers

CONSTANTS
  Keys,       \* pairs of a tenant and a channel that has a factory
  Getters,    \* relays and requests that ask for a sender
  SenderTTL,  \* ticks an entry lasts, 5 min; New replaces 0 and less
  SlowGet,    \* ticks a call of Get lasts at most
  MaxIssued,  \* bound: credentials ever issued
  LastTick    \* bound: ticks of the clock

ASSUME RegistryAssumption ==
  SenderTTL \in Nat \ {0} /\ SlowGet \in Nat /\ MaxIssued \in Nat /\ LastTick \in Nat

VARIABLES
  credential, \* the credential of each key in the database
  issued,     \* credentials issued so far
  revoked,    \* history: when each of them stopped being the one of its key
  entry,      \* cached sender of each key: its credential and expiration, in a set
  get,        \* what each getter is at
  writer,     \* holder of the write lock, in a set
  tick,
  handed      \* history: ticks since the credential of the sender handed out
              \* last was revoked, 0 while it is not

registryVars == <<credential, issued, revoked, entry, get, writer, tick, handed>>

Issued == 1 .. MaxIssued
Ready  == [step |-> "ready"]

RegistryTypeOK ==
  /\ credential \in [Keys -> 0 .. MaxIssued] /\ issued \in 0 .. MaxIssued
  /\ revoked \in [Issued -> 0 .. LastTick]
  /\ entry \in [Keys -> SUBSET [of : Issued, until : 0 .. LastTick + SenderTTL]]
  /\ \A g \in Getters : get[g].step \in {"ready", "look", "lock", "resolve", "store"}
  /\ writer \subseteq Getters /\ tick \in 0 .. LastTick /\ handed \in 0 .. LastTick

RegistryInit ==
  /\ credential = [k \in Keys |-> 0] /\ issued = 0
  /\ revoked = [v \in Issued |-> 0]
  /\ entry = [k \in Keys |-> {}]
  /\ get = [g \in Getters |-> Ready]
  /\ writer = {} /\ tick = 0 /\ handed = 0

Doing(g, s) == get[g].step = s
Moves(g, s) == get' = [get EXCEPT ![g].step = s]

\* Ticks since credential v of key k was revoked.
SinceRevoked(k, v) == IF credential[k] = v THEN 0 ELSE tick - revoked[v]

\* The sender of credential v is handed out: Get returns, Health goes on.
HandOut(g, v) ==
  /\ get' = [get EXCEPT ![g] = Ready]
  /\ handed' = SinceRevoked(get[g].key, v)

\* Mutant: what is cached is served, and nobody looks at its expiration.
LiveEntryKept(g) == entry[get[g].key]

\* The entry that has not expired by the clock of g.
LiveEntry(g) == {e \in entry[get[g].key] : e.until > get[g].seen}

\* Get: the clock is read.
CallGet(g, k) ==
  /\ Doing(g, "ready")
  /\ get' = [get EXCEPT ![g] = [step |-> "look", key |-> k, seen |-> tick]]
  /\ UNCHANGED <<credential, issued, revoked, entry, writer, tick, handed>>

\* Under the read lock.
LookUp(g) ==
  /\ Doing(g, "look") /\ writer = {}
  /\ \/ \E e \in LiveEntry(g) : HandOut(g, e.of)
     \/ LiveEntry(g) = {} /\ Moves(g, "lock") /\ UNCHANGED handed
  /\ UNCHANGED <<credential, issued, revoked, entry, writer, tick>>

\* Under the write lock, which is kept for the factory.
LookAgain(g) ==
  /\ Doing(g, "lock") /\ writer = {}
  /\ \/ \E e \in LiveEntry(g) : HandOut(g, e.of) /\ UNCHANGED writer
     \/ /\ LiveEntry(g) = {} /\ writer' = {g} /\ Moves(g, "resolve")
        /\ UNCHANGED handed
  /\ UNCHANGED <<credential, issued, revoked, entry, tick>>

\* The factory resolves the credential.
ResolveCredential(g) ==
  /\ Doing(g, "resolve") /\ credential[get[g].key] # 0
  /\ get' = [get EXCEPT ![g] = [step |-> "store", key |-> @.key, seen |-> @.seen,
                                of |-> credential[get[g].key]]]
  /\ UNCHANGED <<credential, issued, revoked, entry, writer, tick, handed>>

\* There is none, the query fails, or its JSON does not parse.
FactoryFails(g) ==
  /\ Doing(g, "resolve") \/ Doing(g, "store")
  /\ writer' = {} /\ get' = [get EXCEPT ![g] = Ready]
  /\ UNCHANGED <<credential, issued, revoked, entry, tick, handed>>

\* The sender is cached from the time the call began.
StoreSender(g) ==
  /\ Doing(g, "store")
  /\ entry' = [entry EXCEPT ![get[g].key] =
                 {[of |-> get[g].of, until |-> get[g].seen + SenderTTL]}]
  /\ HandOut(g, get[g].of) /\ writer' = {}
  /\ UNCHANGED <<credential, issued, revoked, tick>>

\* SetCredentials, while the process runs or from the command line.
IssueCredential(k) ==
  /\ issued < MaxIssued /\ issued' = issued + 1
  /\ credential' = [credential EXCEPT ![k] = issued + 1]
  /\ revoked' = [v \in Issued |-> IF v = credential[k] THEN tick ELSE revoked[v]]
  /\ UNCHANGED <<entry, get, writer, tick, handed>>

RevokeCredential(k) ==
  /\ credential[k] # 0
  /\ credential' = [credential EXCEPT ![k] = 0]
  /\ revoked' = [v \in Issued |-> IF v = credential[k] THEN tick ELSE revoked[v]]
  /\ UNCHANGED <<issued, entry, get, writer, tick, handed>>

\* No call of Get lasts longer than SlowGet ticks.
ClockTicks ==
  /\ tick < LastTick
  /\ \A g \in Getters : ~Doing(g, "ready") => tick - get[g].seen < SlowGet
  /\ tick' = tick + 1
  /\ UNCHANGED <<credential, issued, revoked, entry, get, writer, handed>>

\* Relay.process asks for one key; Health for each in turn.
RegistryNext ==
  \/ \E g \in Getters : \/ \E k \in Keys : CallGet(g, k)
                        \/ LookUp(g) \/ LookAgain(g) \/ ResolveCredential(g)
                        \/ FactoryFails(g) \/ StoreSender(g)
  \/ \E k \in Keys : IssueCredential(k) \/ RevokeCredential(k)
  \/ ClockTicks

RegistrySpec == RegistryInit /\ [][RegistryNext]_registryVars

-----------------------------------------------------------------------------
(* Properties. *)

\* A sender made with a credential that was replaced or deleted is handed out
\* for less than SenderTTL and the time a call of Get takes, however the calls
\* that read the clock before the lock interleave (registry.go:82-119).
OldTokenIsBounded == handed = 0 \/ handed < SenderTTL + SlowGet
=============================================================================
