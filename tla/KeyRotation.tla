----------------------------- MODULE KeyRotation -----------------------------
(***************************************************************************)
(* usecase/secrets, pkg/crypto and the repository of channel credentials.  *)
(* A row holds a data key wrapped under a master key (the KEK) and a       *)
(* credential encrypted under the data key.  The server sets, reads and    *)
(* deletes credentials with the KEK it was started with; the rotate-kek    *)
(* command, another process, rewraps the rows of a snapshot one by one and *)
(* may die between two of them, be run again, or run while the server      *)
(* works.  A data key is a number; encrypting and wrapping only record     *)
(* which key was used, and opening with another key is refused.  The rows  *)
(* of a snapshot are taken in any order.                                   *)
(***************************************************************************)
EXTENDS Integers, Sequences, FiniteSets

CONSTANTS
  Creds,      \* pairs (tenant, channel)
  Tenant,     \* the tenant of each of them
  Readers,    \* goroutines that resolve credentials
  MaxDeks,    \* bound: data keys generated
  MaxRuns     \* bound: runs of the command

ASSUME KeyRotationAssumption ==
  /\ IsFiniteSet(Creds) /\ DOMAIN Tenant = Creds
  /\ MaxDeks \in Nat /\ MaxRuns \in Nat

VARIABLES
  rows,     \* channel_credentials; Absent where there is none
  pending,  \* SetCredentials whose transaction is not committed yet
  cached,   \* dekCache of the server, by tenant
  kek,      \* KEK of the running server
  reads,    \* what each reader is at
  rot,      \* the rotate-kek process
  deks,     \* data keys generated so far
  runs,     \* runs of the command so far
  raced     \* history: rows rewrapped from a version that was no longer stored

keyVars == <<rows, pending, cached, kek, reads, rot, deks, runs, raced>>

Keks    == {"old", "new"}
Absent  == [ver |-> 0]
Row     == [kek : Keks, ver : Nat \ {0}, dek : 0 .. MaxDeks, enc : 0 .. MaxDeks]
Tenants == {Tenant[c] : c \in Creds}
Idle    == [at |-> "idle"]
Refused == [at |-> "refused"]
Off     == [at |-> "off"]

KeyTypeOK ==
  /\ rows \in [Creds -> Row \cup {Absent}]
  /\ pending \in [cred : Creds, row : Row] \cup {Idle}
  /\ cached \in [Tenants -> [ver : Nat \ {0}, dek : 0 .. MaxDeks] \cup {Absent}]
  /\ kek \in Keks
  /\ deks \in 0 .. MaxDeks /\ runs \in 0 .. MaxRuns
  /\ raced \subseteq Creds

KeyInit ==
  /\ rows = [c \in Creds |-> Absent]
  /\ pending = Idle
  /\ cached = [t \in Tenants |-> Absent]
  /\ kek = "old"
  /\ reads = [r \in Readers |-> Idle]
  /\ rot = Off
  /\ deks = 0 /\ runs = 0
  /\ raced = {}

-----------------------------------------------------------------------------
(* Envelope encryption.                                                    *)

\* Envelope.Unwrap: the tag of the wrapped key fails under another KEK.
Unwraps(row, k) == row.kek = k

\* Envelope.Wrap
Wrap(dek, k) == [kek |-> k, dek |-> dek]

\* Envelope.Encrypt: the data key that the wrapped key holds.
Encrypt(wrapped, k) == [kek |-> wrapped.kek, ver |-> 1, dek |-> wrapped.dek, enc |-> wrapped.dek]

\* Mutant: the credential is opened with the data key of the cache.
DecryptsWithCache(row, k, dek) == row.enc = dek

\* Envelope.Decrypt: unwraps the key of the row again, whatever the cache has.
Decrypts(row, k, dek) == Unwraps(row, k) /\ row.enc = row.dek

-----------------------------------------------------------------------------
(* Keyring.                                                                *)

\* SetCredentials: a new data key, the row in the caller's transaction, and
\* the cache invalidated before that transaction commits.  The keyring always
\* writes version 1.
SetCredentials(c) ==
  /\ pending = Idle /\ deks < MaxDeks
  /\ deks' = deks + 1
  /\ pending' = [cred |-> c, row |-> Encrypt(Wrap(deks + 1, kek), kek)]
  /\ cached' = [cached EXCEPT ![Tenant[c]] = Absent]
  /\ UNCHANGED <<rows, kek, reads, rot, runs, raced>>

\* Upsert and the COMMIT: both columns and the version are replaced.
CommitSet ==
  /\ pending # Idle
  /\ rows' = [rows EXCEPT ![pending.cred] = pending.row]
  /\ pending' = Idle
  /\ raced' = raced \ {pending.cred}
  /\ UNCHANGED <<cached, kek, reads, rot, deks, runs>>

\* Delete: the row, then the cache.
DeleteCredentials(c) ==
  /\ rows[c] # Absent /\ pending = Idle
  /\ rows' = [rows EXCEPT ![c] = Absent]
  /\ cached' = [cached EXCEPT ![Tenant[c]] = Absent]
  /\ raced' = raced \ {c}
  /\ UNCHANGED <<pending, kek, reads, rot, deks, runs>>

\* Get of a caller outside RunInTenantTx: an error before any row is looked at.
GetOutsideTx(r) ==
  /\ reads[r] = Idle
  /\ reads' = [reads EXCEPT ![r] = Refused]
  /\ UNCHANGED <<rows, pending, cached, kek, rot, deks, runs, raced>>

\* ResolveCredentials in a transaction of the tenant, the row; nothing is read
\* before the row is there.
GetRow(r, c) ==
  /\ reads[r] = Idle /\ rows[c] # Absent
  /\ reads' = [reads EXCEPT ![r] =
                 [at |-> "read", cred |-> c, row |-> rows[c], safe |-> c \notin raced]]
  /\ UNCHANGED <<rows, pending, cached, kek, rot, deks, runs, raced>>

\* ResolveCredentials, after the row: a hit is an entry of the tenant with the
\* row's version; on a miss the key is unwrapped and cached.  An entry that
\* expired is a miss like any other, so each entry may be found expired.  The
\* entry is the tenant's and the key the channel's: a hit may be the data key
\* of another channel.
Resolve(r, expired) ==
  LET read == reads[r]
      t    == Tenant[read.cred]
      hit  == cached[t].ver = read.row.ver /\ ~expired
  IN
  /\ read.at = "read"
  /\ cached' = [cached EXCEPT ![t] =
       IF hit THEN @
       ELSE IF Unwraps(read.row, kek) THEN [ver |-> read.row.ver, dek |-> read.row.dek]
       ELSE Absent]
  /\ reads' = [reads EXCEPT ![r] =
       [at   |-> "done", row |-> read.row, safe |-> read.safe, under |-> kek,
        ok   |-> /\ hit \/ Unwraps(read.row, kek)
                 /\ Decrypts(read.row, kek, cached'[t].dek)]]
  /\ UNCHANGED <<rows, pending, kek, rot, deks, runs, raced>>

\* The caller uses the result and forgets it.
Used(r) ==
  /\ reads[r].at \in {"done", "refused"}
  /\ reads' = [reads EXCEPT ![r] = Idle]
  /\ UNCHANGED <<rows, pending, cached, kek, rot, deks, runs, raced>>

\* The server stops, whatever it was doing, and starts with either KEK.
RestartServer(k) ==
  /\ kek # k \/ pending # Idle
  /\ kek' = k
  /\ pending' = Idle
  /\ cached' = [t \in Tenants |-> Absent]
  /\ reads' = [r \in Readers |-> Idle]
  /\ UNCHANGED <<rows, rot, deks, runs, raced>>

-----------------------------------------------------------------------------
(* rotate-kek.                                                             *)

\* rotateKEK as far as the query of ForEachTenant, whose rows are those of one
\* snapshot.
StartRotation(dry) ==
  /\ rot.at \in {"off", "done"} /\ runs < MaxRuns
  /\ runs' = runs + 1
  /\ rot' = [at |-> "next", dry |-> dry, errors |-> {},
             todo |-> [c \in {x \in Creds : rows[x] # Absent} |-> rows[c]]]
  /\ UNCHANGED <<rows, pending, cached, kek, reads, deks, raced>>

Rest(c) == [x \in DOMAIN rot.todo \ {c} |-> rot.todo[x]]

\* Mutant: the data key is zeroed before it is wrapped again.
RewrappedZeroed(row) == Wrap(0, "new")

\* The data key of a row, wrapped under the new KEK; zeroed only then.
Rewrapped(row) == Wrap(row.dek, "new")

\* A row that does not unwrap under the old KEK is reported and left alone.
UnwrapFails(c) ==
  /\ rot.at = "next" /\ c \in DOMAIN rot.todo
  /\ ~Unwraps(rot.todo[c], "old")
  /\ rot' = [rot EXCEPT !.todo = Rest(c), !.errors = @ \cup {<<c, "unwrap">>}]
  /\ UNCHANGED <<rows, pending, cached, kek, reads, deks, runs, raced>>

\* A dry run only counts the row.
DryRow(c) ==
  /\ rot.at = "next" /\ c \in DOMAIN rot.todo /\ rot.dry
  /\ Unwraps(rot.todo[c], "old")
  /\ rot' = [rot EXCEPT !.todo = Rest(c)]
  /\ UNCHANGED <<rows, pending, cached, kek, reads, deks, runs, raced>>

\* UpdateWrappedDEK: the row of this tenant and channel, whatever it holds now;
\* no row is no error.  The UPDATE commits by itself on the platform pool: the
\* transaction of the audit line around it may still fail, and then the row is
\* both updated and reported.
UpdateRow(c) ==
  LET old == rot.todo[c] IN
  /\ rot.at = "next" /\ c \in DOMAIN rot.todo /\ ~rot.dry
  /\ Unwraps(old, "old")
  /\ rows' = IF rows[c] = Absent THEN rows
             ELSE [rows EXCEPT ![c].kek = Rewrapped(old).kek, ![c].dek = Rewrapped(old).dek,
                               ![c].ver = old.ver + 1]
  /\ raced' = IF rows[c] \in {old, Absent} THEN raced ELSE raced \cup {c}
  /\ \E e \in {{}, {<<c, "update">>}} :
       rot' = [rot EXCEPT !.todo = Rest(c), !.errors = @ \cup e]
  /\ UNCHANGED <<pending, cached, kek, reads, deks, runs>>

\* The update fails before the row is written: the row is reported, the rotation
\* goes on.
UpdateFails(c) ==
  /\ rot.at = "next" /\ c \in DOMAIN rot.todo /\ ~rot.dry
  /\ Unwraps(rot.todo[c], "old")
  /\ rot' = [rot EXCEPT !.todo = Rest(c), !.errors = @ \cup {<<c, "update">>}]
  /\ UNCHANGED <<rows, pending, cached, kek, reads, deks, runs, raced>>

\* The report; the exit code is 0 without errors and 1 with some.
EndRotation ==
  /\ rot.at = "next" /\ rot.todo = <<>>
  /\ rot' = [rot EXCEPT !.at = "done"]
  /\ UNCHANGED <<rows, pending, cached, kek, reads, deks, runs, raced>>

\* The process is killed, times out or fails to read: no report, and the rows
\* already updated stay so.
RotatorDies ==
  /\ rot.at = "next"
  /\ rot' = Off
  /\ UNCHANGED <<rows, pending, cached, kek, reads, deks, runs, raced>>

KeyNext ==
  \/ \E c \in Creds : \/ SetCredentials(c) \/ DeleteCredentials(c)
                      \/ UnwrapFails(c) \/ DryRow(c) \/ UpdateRow(c) \/ UpdateFails(c)
  \/ \E r \in Readers : \/ \E c \in Creds : GetRow(r, c)
                        \/ \E e \in BOOLEAN : Resolve(r, e)
                        \/ GetOutsideTx(r) \/ Used(r)
  \/ CommitSet \/ EndRotation \/ RotatorDies
  \/ \E dry \in BOOLEAN : StartRotation(dry)
  \/ \E k \in Keks : RestartServer(k)

KeySpec == KeyInit /\ [][KeyNext]_keyVars

-----------------------------------------------------------------------------

\* rotate_kek.go:193-226: rotations, killed or run again, keep every stored
\* credential readable under the data key of its row, except one that was set
\* while a rotation was about to write the key it had read before.
CredentialsSurvive ==
  \A c \in Creds \ raced : rows[c] # Absent => rows[c].enc = rows[c].dek

\* keyring.go:149-164: a credential of another channel in the cache, an expired
\* entry or a rotated row never make a resolve fail that read, in a transaction
\* of its tenant, a sound row wrapped under the server's KEK.
ResolveFailsByKekOnly ==
  \A r \in Readers :
    (reads[r].at = "done" /\ reads[r].safe /\ reads[r].row.kek = reads[r].under) => reads[r].ok

=============================================================================
