--------------------------- MODULE OperationsProofs ---------------------------
(***************************************************************************)
(* Proofs about the operations: KeyRotation, for any credentials, readers  *)
(* and runs of the command; BackupJobs, for any jobs, tables and rows;     *)
(* ChannelRequests, for any requests and times of arrival; and the caches  *)
(* of the process, of settings and of senders, for any requests, keys,     *)
(* lifetimes of an entry and durations of a call.                          *)
(***************************************************************************)
EXTENDS KeyRotation, BackupJobs, ChannelRequests, SettingsCache, SenderRegistry,
        SequenceTheorems, TLAPS

-----------------------------------------------------------------------------
(* KeyRotation.                                                            *)

\* What a reader is at: it has a row, the outcome of a resolve, or a refusal.
HasRow     == [at : {"read"}, cred : Creds, row : Row, safe : BOOLEAN]
HasOutcome == [at : {"done"}, row : Row, safe : BOOLEAN, under : Keks, ok : BOOLEAN]
ReadState  == {Idle, Refused} \cup HasRow \cup HasOutcome

\* A rotation, with the rows it has yet to do.
Rotation(D) == [at : {"next", "done"}, dry : BOOLEAN,
                errors : SUBSET (Creds \X {"unwrap", "update"}), todo : [D -> Row]]

KeyTyped ==
  /\ KeyTypeOK
  /\ reads \in [Readers -> ReadState]
  /\ rot = Off \/ \E D \in SUBSET Creds : rot \in Rotation(D)

Sound(x) == x.enc = x.dek

\* A credential that waits for its COMMIT is sound.
PendingIsSound == pending # Idle => Sound(pending.row)

\* A reader that found no race has a sound row.
ReadIsSound == \A r \in Readers : reads[r] \in HasRow /\ reads[r].safe => Sound(reads[r].row)

KeyInv ==
  KeyTyped /\ CredentialsSurvive /\ PendingIsSound /\ ReadIsSound /\ ResolveFailsByKekOnly

\* A row has its four fields, and is not the mark of no row.
LEMMA RowFacts ==
  ASSUME NEW x \in Row
  PROVE  /\ x.kek \in Keks /\ x.ver \in Nat \ {0}
         /\ x.dek \in 0 .. MaxDeks /\ x.enc \in 0 .. MaxDeks
         /\ x # Absent
BY DEF Row, Absent

\* The states of a reader are told apart by .at, those of a rotation too.
LEMMA ReaderFacts ==
  ASSUME NEW x \in ReadState
  PROVE  /\ x.at = "read" => /\ x \in HasRow /\ x.cred \in Creds /\ x.row \in Row
                             /\ x.safe \in BOOLEAN
         /\ x.at = "done" => x \in HasOutcome
         /\ x \in HasRow => x.at = "read"
         /\ x.at \in {"idle", "refused", "read", "done"}
BY DEF ReadState, HasRow, HasOutcome, Idle, Refused

LEMMA RotationFacts ==
  ASSUME KeyTyped, rot.at = "next"
  PROVE  \E D \in SUBSET Creds :
           /\ rot \in Rotation(D) /\ DOMAIN rot.todo = D
           /\ \A c \in D : /\ rot.todo[c] \in Row
                           /\ Rest(c) \in [D \ {c} -> Row] /\ D \ {c} \in SUBSET Creds
<1>1. PICK D \in SUBSET Creds : rot \in Rotation(D)
  BY DEF KeyTyped, Off
<1>2. rot.todo \in [D -> Row]
  BY <1>1 DEF Rotation
<1> QED BY <1>1, <1>2 DEF Rest

\* What an action of the server keeps: nothing of the rotation, and no reader.
LEMMA SetKeeps ==
  ASSUME KeyRotationAssumption, KeyInv,
         \/ \E c \in Creds : SetCredentials(c) \/ DeleteCredentials(c)
         \/ CommitSet
         \/ \E k \in Keks : RestartServer(k)
  PROVE  KeyInv'
<1>0. deks + 1 \in 0 .. MaxDeks \/ deks >= MaxDeks
  BY DEF KeyInv, KeyTyped, KeyTypeOK, KeyRotationAssumption
<1>1. ASSUME NEW c \in Creds, SetCredentials(c) PROVE KeyInv'
  <2> DEFINE x == Encrypt(Wrap(deks + 1, kek), kek)
  <2>1. x = [kek |-> kek, ver |-> 1, dek |-> deks + 1, enc |-> deks + 1]
    BY DEF Encrypt, Wrap
  <2>2. deks + 1 \in 0 .. MaxDeks
    BY <1>0, <1>1 DEF SetCredentials, KeyRotationAssumption, KeyInv, KeyTyped, KeyTypeOK
  <2>3. x \in Row /\ Sound(x)
    BY <2>1, <2>2 DEF Row, Sound, KeyInv, KeyTyped, KeyTypeOK
  <2> HIDE DEF x
  <2>4. pending' = [cred |-> c, row |-> x]
    BY <1>1 DEF SetCredentials, x
  <2>5. pending' \in [cred : Creds, row : Row] /\ PendingIsSound'
    BY <2>3, <2>4 DEF PendingIsSound
  <2>6. cached' \in [Tenants -> [ver : Nat \ {0}, dek : 0 .. MaxDeks] \cup {Absent}]
    BY <1>1 DEF SetCredentials, KeyInv, KeyTyped, KeyTypeOK
  <2>7. KeyTyped'
    BY <1>1, <2>2, <2>5, <2>6 DEF SetCredentials, KeyInv, KeyTyped, KeyTypeOK
  <2> QED BY <1>1, <2>5, <2>7
          DEF SetCredentials, KeyInv, CredentialsSurvive, ReadIsSound, ResolveFailsByKekOnly
<1>2. ASSUME NEW c \in Creds, DeleteCredentials(c) PROVE KeyInv'
  <2>1. /\ rows' \in [Creds -> Row \cup {Absent}]
        /\ cached' \in [Tenants -> [ver : Nat \ {0}, dek : 0 .. MaxDeks] \cup {Absent}]
    BY <1>2 DEF DeleteCredentials, KeyInv, KeyTyped, KeyTypeOK
  <2>2. KeyTyped'
    BY <1>2, <2>1 DEF DeleteCredentials, KeyInv, KeyTyped, KeyTypeOK
  <2>3. CredentialsSurvive'
    BY <1>2 DEF DeleteCredentials, KeyInv, KeyTyped, KeyTypeOK, CredentialsSurvive
  <2> QED BY <1>2, <2>2, <2>3
          DEF DeleteCredentials, KeyInv, PendingIsSound, ReadIsSound, ResolveFailsByKekOnly
<1>3. ASSUME CommitSet PROVE KeyInv'
  <2>1. pending # Idle /\ pending.cred \in Creds /\ pending.row \in Row /\ Sound(pending.row)
    BY <1>3 DEF CommitSet, KeyInv, KeyTyped, KeyTypeOK, PendingIsSound
  <2>2. KeyTyped'
    BY <1>3, <2>1 DEF CommitSet, KeyInv, KeyTyped, KeyTypeOK
  <2>3. CredentialsSurvive'
    BY <1>3, <2>1 DEF CommitSet, KeyInv, KeyTyped, KeyTypeOK, CredentialsSurvive, Sound
  <2> QED BY <1>3, <2>2, <2>3
          DEF CommitSet, KeyInv, PendingIsSound, ReadIsSound, ResolveFailsByKekOnly
<1>4. ASSUME NEW k \in Keks, RestartServer(k) PROVE KeyInv'
  <2>1. /\ cached' \in [Tenants -> [ver : Nat \ {0}, dek : 0 .. MaxDeks] \cup {Absent}]
        /\ reads' \in [Readers -> ReadState]
    BY <1>4 DEF RestartServer, ReadState
  <2>2. KeyTyped'
    BY <1>4, <2>1 DEF RestartServer, KeyInv, KeyTyped, KeyTypeOK
  <2>3. PendingIsSound' /\ ReadIsSound' /\ ResolveFailsByKekOnly'
    <3>1. Idle \notin HasRow /\ Idle.at # "done"
      BY DEF Idle, HasRow
    <3>2. pending' = Idle /\ \A r \in Readers : reads'[r] = Idle
      BY <1>4 DEF RestartServer
    <3> QED BY <3>1, <3>2 DEF PendingIsSound, ReadIsSound, ResolveFailsByKekOnly
  <2> QED BY <1>4, <2>2, <2>3 DEF RestartServer, KeyInv, CredentialsSurvive
<1> QED BY <1>1, <1>2, <1>3, <1>4

\* A reader has its row from the table, and its outcome from that row.
LEMMA ReadersKeep ==
  ASSUME KeyInv, NEW r \in Readers,
         \/ \E c \in Creds : GetRow(r, c)
         \/ \E e \in BOOLEAN : Resolve(r, e)
         \/ GetOutsideTx(r) \/ Used(r)
  PROVE  KeyInv'
<1>0. reads \in [Readers -> ReadState] /\ rows \in [Creds -> Row \cup {Absent}]
  BY DEF KeyInv, KeyTyped, KeyTypeOK
<1>1. ASSUME NEW x \in ReadState, reads' = [reads EXCEPT ![r] = x],
             UNCHANGED <<rows, pending, kek, rot, deks, runs, raced>>,
             cached' \in [Tenants -> [ver : Nat \ {0}, dek : 0 .. MaxDeks] \cup {Absent}],
             x \in HasRow /\ x.safe => Sound(x.row),
             x.at = "done" /\ x.safe /\ x.row.kek = x.under => x.ok
      PROVE  KeyInv'
  <2>1. KeyTyped'
    BY <1>0, <1>1 DEF KeyInv, KeyTyped, KeyTypeOK
  <2>2. ReadIsSound' /\ ResolveFailsByKekOnly'
    BY <1>0, <1>1 DEF KeyInv, ReadIsSound, ResolveFailsByKekOnly
  <2> QED BY <1>1, <2>1, <2>2 DEF KeyInv, CredentialsSurvive, PendingIsSound
<1>2. ASSUME NEW c \in Creds, GetRow(r, c) PROVE KeyInv'
  <2> DEFINE safe == c \notin raced
             x == [at |-> "read", cred |-> c, row |-> rows[c], safe |-> safe]
  <2>1. safe \in BOOLEAN
    OBVIOUS
  <2>2. rows[c] \in Row /\ (safe => Sound(rows[c]))
    BY <1>0, <1>2 DEF GetRow, KeyInv, CredentialsSurvive, Sound
  <2>3. reads' = [reads EXCEPT ![r] = x]
    BY <1>2 DEF GetRow
  <2> HIDE DEF safe
  <2>4. x \in HasRow
    BY <2>1, <2>2 DEF HasRow
  <2>5. x \in ReadState /\ x.at # "done" /\ (x.safe => Sound(x.row))
    BY <2>2, <2>4 DEF ReadState
  <2> HIDE DEF x
  <2>6. /\ UNCHANGED <<rows, pending, kek, rot, deks, runs, raced>>
        /\ cached' \in [Tenants -> [ver : Nat \ {0}, dek : 0 .. MaxDeks] \cup {Absent}]
    BY <1>2 DEF GetRow, KeyInv, KeyTyped, KeyTypeOK
  <2> QED BY <1>1, <2>3, <2>5, <2>6
<1>3. ASSUME NEW e \in BOOLEAN, Resolve(r, e) PROVE KeyInv'
  <2> DEFINE read == reads[r]
             t    == Tenant[read.cred]
             hit  == cached[t].ver = read.row.ver /\ ~e
             ok   == /\ hit \/ Unwraps(read.row, kek)
                     /\ Decrypts(read.row, kek, cached'[t].dek)
             x    == [at |-> "done", row |-> read.row, safe |-> read.safe,
                      under |-> kek, ok |-> ok]
  <2>1. read.at = "read" /\ reads' = [reads EXCEPT ![r] = x]
    BY <1>3 DEF Resolve
  <2>2. read \in HasRow /\ read.cred \in Creds /\ read.row \in Row /\ read.safe \in BOOLEAN
    BY <1>0, <2>1, ReaderFacts
  <2>3. read.safe => Sound(read.row)
    BY <2>2 DEF KeyInv, ReadIsSound
  <2>4. ok \in BOOLEAN /\ (read.safe /\ read.row.kek = kek => ok)
    BY <2>3 DEF Unwraps, Decrypts, Sound
  <2>5. cached' \in [Tenants -> [ver : Nat \ {0}, dek : 0 .. MaxDeks] \cup {Absent}]
    <3>1. read.row.ver \in Nat \ {0} /\ read.row.dek \in 0 .. MaxDeks
      BY <2>2, RowFacts
    <3> QED BY <1>3, <3>1 DEF Resolve, KeyInv, KeyTyped, KeyTypeOK
  <2>6. kek \in Keks /\ UNCHANGED <<rows, pending, kek, rot, deks, runs, raced>>
    BY <1>3 DEF Resolve, KeyInv, KeyTyped, KeyTypeOK
  <2> HIDE DEF read, ok
  <2>7. x \in HasOutcome
    BY <2>2, <2>4, <2>6 DEF HasOutcome
  <2>8. /\ x \in ReadState /\ x \notin HasRow
        /\ (x.safe /\ x.row.kek = x.under => x.ok)
    BY <2>4, <2>7 DEF ReadState, HasRow
  <2> HIDE DEF x
  <2> QED BY <1>1, <2>1, <2>5, <2>6, <2>8
<1>4. ASSUME Used(r) PROVE KeyInv'
  <2>1. Idle \in ReadState /\ Idle \notin HasRow /\ Idle.at # "done"
    BY DEF Idle, ReadState, HasRow
  <2>2. /\ reads' = [reads EXCEPT ![r] = Idle]
        /\ UNCHANGED <<rows, pending, kek, rot, deks, runs, raced>>
        /\ cached' \in [Tenants -> [ver : Nat \ {0}, dek : 0 .. MaxDeks] \cup {Absent}]
    BY <1>4 DEF Used, KeyInv, KeyTyped, KeyTypeOK
  <2> QED BY <1>1, <2>1, <2>2
<1>5. ASSUME GetOutsideTx(r) PROVE KeyInv'
  <2>1. Refused \in ReadState /\ Refused \notin HasRow /\ Refused.at # "done"
    BY DEF Refused, ReadState, HasRow
  <2>2. /\ reads' = [reads EXCEPT ![r] = Refused]
        /\ UNCHANGED <<rows, pending, kek, rot, deks, runs, raced>>
        /\ cached' \in [Tenants -> [ver : Nat \ {0}, dek : 0 .. MaxDeks] \cup {Absent}]
    BY <1>5 DEF GetOutsideTx, KeyInv, KeyTyped, KeyTypeOK
  <2> QED BY <1>1, <2>1, <2>2
<1> QED BY <1>2, <1>3, <1>4, <1>5

\* A rotation that goes on is a rotation: with the rows it still has, and the
\* errors it has seen.
LEMMA RotationGoesOn ==
  ASSUME KeyTyped, rot.at = "next", NEW c \in DOMAIN rot.todo,
         NEW errors \in SUBSET (Creds \X {"unwrap", "update"}),
         rot' = [rot EXCEPT !.todo = Rest(c), !.errors = errors]
  PROVE  rot' = Off \/ \E D \in SUBSET Creds : rot' \in Rotation(D)
<1>1. PICK D \in SUBSET Creds : /\ rot \in Rotation(D) /\ DOMAIN rot.todo = D
                                /\ Rest(c) \in [D \ {c} -> Row] /\ D \ {c} \in SUBSET Creds
  BY RotationFacts
<1>2. rot' \in Rotation(D \ {c})
  BY <1>1 DEF Rotation
<1> QED BY <1>1, <1>2

\* The rotation changes no row but one that unwraps, and that one keeps the data
\* key it was read with.
LEMMA RotationKeeps ==
  ASSUME KeyInv,
         \/ \E c \in Creds : UnwrapFails(c) \/ DryRow(c) \/ UpdateRow(c) \/ UpdateFails(c)
         \/ EndRotation \/ RotatorDies
         \/ \E dry \in BOOLEAN : StartRotation(dry)
  PROVE  KeyInv'
<1> DEFINE RotTyped == rot = Off \/ \E D \in SUBSET Creds : rot \in Rotation(D)
<1>0. KeyTyped /\ rows \in [Creds -> Row \cup {Absent}]
  BY DEF KeyInv, KeyTyped, KeyTypeOK
<1>1. ASSUME RotTyped', UNCHANGED <<rows, pending, cached, kek, reads, deks, raced>>,
             runs' \in 0 .. MaxRuns
      PROVE  KeyInv'
  BY <1>1 DEF KeyInv, KeyTyped, KeyTypeOK, CredentialsSurvive, PendingIsSound, ReadIsSound,
              ResolveFailsByKekOnly
<1>2. ASSUME NEW c \in Creds, UnwrapFails(c) \/ DryRow(c) \/ UpdateFails(c) PROVE KeyInv'
  <2>1. PICK D \in SUBSET Creds : rot \in Rotation(D)
    BY <1>0, <1>2, RotationFacts DEF UnwrapFails, DryRow, UpdateFails
  <2>2. rot.errors \in SUBSET (Creds \X {"unwrap", "update"})
    BY <2>1 DEF Rotation
  <2>3. \E errors \in SUBSET (Creds \X {"unwrap", "update"}) :
          rot' = [rot EXCEPT !.todo = Rest(c), !.errors = errors]
    <3>0. ASSUME NEW w \in {"unwrap", "update"},
                 rot' = [rot EXCEPT !.todo = Rest(c), !.errors = @ \cup {<<c, w>>}]
          PROVE  \E errors \in SUBSET (Creds \X {"unwrap", "update"}) :
                   rot' = [rot EXCEPT !.todo = Rest(c), !.errors = errors]
      <4>1. rot.errors \cup {<<c, w>>} \in SUBSET (Creds \X {"unwrap", "update"})
        BY <2>2
      <4>2. rot' = [rot EXCEPT !.todo = Rest(c), !.errors = rot.errors \cup {<<c, w>>}]
        BY <2>1, <3>0 DEF Rotation
      <4> QED BY <4>1, <4>2
    <3>1. CASE UnwrapFails(c)
      BY <3>0, <3>1 DEF UnwrapFails
    <3>2. CASE UpdateFails(c)
      BY <3>0, <3>2 DEF UpdateFails
    <3>3. CASE DryRow(c)
      <4>1. rot' = [rot EXCEPT !.todo = Rest(c), !.errors = rot.errors]
        BY <2>1, <3>3 DEF DryRow, Rotation
      <4> QED BY <2>2, <4>1
    <3> QED BY <1>2, <3>1, <3>2, <3>3
  <2>4. RotTyped'
    BY <1>0, <1>2, <2>3, RotationGoesOn DEF UnwrapFails, DryRow, UpdateFails
  <2>5. runs' \in 0 .. MaxRuns /\ UNCHANGED <<rows, pending, cached, kek, reads, deks, raced>>
    BY <1>0, <1>2 DEF UnwrapFails, DryRow, UpdateFails, KeyTyped, KeyTypeOK
  <2> HIDE DEF RotTyped
  <2> QED BY <1>1, <2>4, <2>5
<1>3. ASSUME NEW c \in Creds, UpdateRow(c) PROVE KeyInv'
  <2> DEFINE old == rot.todo[c]
  <2>1. PICK D \in SUBSET Creds : rot \in Rotation(D) /\ c \in D /\ old \in Row
    BY <1>0, <1>3, RotationFacts DEF UpdateRow
  <2>2. old.ver \in Nat \ {0} /\ old.dek \in 0 .. MaxDeks /\ old # Absent
    BY <2>1, RowFacts
  <2>3. RotTyped'
    <3>1. rot.errors \in SUBSET (Creds \X {"unwrap", "update"})
      BY <2>1 DEF Rotation
    <3>2. PICK e \in {{}, {<<c, "update">>}} :
            rot' = [rot EXCEPT !.todo = Rest(c), !.errors = @ \cup e]
      BY <1>3 DEF UpdateRow
    <3>3. e \in SUBSET (Creds \X {"unwrap", "update"})
      BY <3>2
    <3>4. PICK errors : errors = rot.errors \cup e
      OBVIOUS
    <3>5. errors \in SUBSET (Creds \X {"unwrap", "update"})
      BY <3>1, <3>3, <3>4
    <3>6. rot' = [rot EXCEPT !.todo = Rest(c), !.errors = errors]
      BY <2>1, <3>2, <3>4 DEF Rotation
    <3> QED BY <1>0, <1>3, <3>5, <3>6, RotationGoesOn DEF UpdateRow
  <2>4. CASE rows[c] = Absent
    <3>1. UNCHANGED <<rows, pending, cached, kek, reads, deks, raced>> /\ runs' \in 0 .. MaxRuns
      BY <1>0, <1>3, <2>4 DEF UpdateRow, KeyTyped, KeyTypeOK
    <3> HIDE DEF RotTyped
    <3> QED BY <1>1, <2>3, <3>1
  <2>5. CASE rows[c] # Absent
    <3>1. rows[c] \in Row /\ rows[c].enc \in 0 .. MaxDeks
      BY <1>0, <2>5, RowFacts
    <3>2. Rewrapped(old).kek = "new" /\ Rewrapped(old).dek = old.dek
      BY DEF Rewrapped, Wrap
    <3>3. /\ rows' \in [Creds -> Row \cup {Absent}]
          /\ \A d \in Creds \ {c} : rows'[d] = rows[d]
          /\ rows'[c] \in Row /\ rows'[c].dek = old.dek /\ rows'[c].enc = rows[c].enc
      <4>1. rows' = [rows EXCEPT ![c].kek = Rewrapped(old).kek, ![c].dek = Rewrapped(old).dek,
                                 ![c].ver = old.ver + 1]
        BY <1>3, <2>5 DEF UpdateRow
      <4> DEFINE k == Rewrapped(old).kek
                 m == Rewrapped(old).dek
                 v == old.ver + 1
      <4>2. k \in Keks /\ m \in 0 .. MaxDeks /\ v \in Nat \ {0} /\ m = old.dek
        BY <2>2, <3>2 DEF Keks
      <4>3. rows' = [rows EXCEPT ![c].kek = k, ![c].dek = m, ![c].ver = v]
        BY <4>1
      <4> HIDE DEF old, k, m, v
      <4>4. /\ DOMAIN rows' = Creds
            /\ \A d \in Creds \ {c} : rows'[d] = rows[d]
        BY <1>0, <4>3
      <4>5. rows'[c] = [rows[c] EXCEPT !.kek = k, !.dek = m, !.ver = v]
        BY <1>0, <4>3
      <4>6. rows'[c] \in Row /\ rows'[c].dek = m /\ rows'[c].enc = rows[c].enc
        BY <3>1, <4>2, <4>5 DEF Row
      <4>7. rows' = [rows EXCEPT ![c] = [rows[c] EXCEPT !.kek = k, !.dek = m, !.ver = v]]
        BY <1>0, <4>3, Zenon
      <4>8. rows' \in [Creds -> Row \cup {Absent}]
        BY <1>0, <4>5, <4>6, <4>7
      <4> QED BY <4>2, <4>4, <4>6, <4>8
    <3>5. /\ UNCHANGED <<pending, cached, kek, reads, deks, runs>>
          /\ raced' = IF rows[c] = old THEN raced ELSE raced \cup {c}
      BY <1>3, <2>5 DEF UpdateRow
    <3>6. rows[c] = old /\ Sound(old) => Sound(rows'[c])
      BY <3>3 DEF Sound
    <3> HIDE DEF RotTyped, old
    <3>7. KeyTyped'
      BY <1>0, <2>3, <3>3, <3>5 DEF KeyTyped, KeyTypeOK, RotTyped
    <3>8. CredentialsSurvive'
      BY <1>0, <3>3, <3>5, <3>6, <2>5 DEF KeyInv, CredentialsSurvive, Sound
    <3> QED BY <3>5, <3>7, <3>8 DEF KeyInv, PendingIsSound, ReadIsSound, ResolveFailsByKekOnly
  <2> QED BY <2>4, <2>5
<1>4. ASSUME EndRotation \/ RotatorDies PROVE KeyInv'
  <2>1. CASE EndRotation
    <3>1. PICK D \in SUBSET Creds : rot \in Rotation(D)
      BY <1>0, <2>1, RotationFacts DEF EndRotation
    <3>2. rot' \in Rotation(D)
      BY <2>1, <3>1 DEF EndRotation, Rotation
    <3>3. UNCHANGED <<rows, pending, cached, kek, reads, deks, raced>> /\ runs' \in 0 .. MaxRuns
      BY <1>0, <2>1 DEF EndRotation, KeyTyped, KeyTypeOK
    <3> QED BY <1>1, <3>2, <3>3
  <2>2. CASE RotatorDies
    BY <1>0, <1>1, <2>2 DEF RotatorDies, KeyTyped, KeyTypeOK
  <2> QED BY <1>4, <2>1, <2>2
<1>5. ASSUME NEW dry \in BOOLEAN, StartRotation(dry) PROVE KeyInv'
  <2> DEFINE D == {x \in Creds : rows[x] # Absent}
             todo == [c \in D |-> rows[c]]
  <2>1. D \in SUBSET Creds /\ todo \in [D -> Row]
    BY <1>0
  <2>2. rot' = [at |-> "next", dry |-> dry, errors |-> {}, todo |-> todo]
    BY <1>5 DEF StartRotation
  <2>3. {} \in SUBSET (Creds \X {"unwrap", "update"})
    OBVIOUS
  <2> HIDE DEF D, todo
  <2>4. rot' \in Rotation(D)
    BY <2>1, <2>2, <2>3 DEF Rotation
  <2>5. UNCHANGED <<rows, pending, cached, kek, reads, deks, raced>> /\ runs' \in 0 .. MaxRuns
    BY <1>0, <1>5, KeyRotationAssumption DEF StartRotation, KeyTyped, KeyTypeOK
  <2> QED BY <1>1, <2>1, <2>4, <2>5
<1> QED BY <1>2, <1>3, <1>4, <1>5

\* The inductive invariant of KeyRotation, in three steps.
LEMMA KeyInvInit == KeyRotationAssumption /\ KeyInit => KeyInv
<1> SUFFICES ASSUME KeyRotationAssumption, KeyInit PROVE KeyInv
  OBVIOUS
<1>1. KeyTypeOK /\ rot = Off
  BY DEF KeyInit, KeyTypeOK, KeyRotationAssumption, Keks
<1>2. reads \in [Readers -> ReadState]
  BY DEF KeyInit, ReadState
<1>3. Idle \notin HasRow /\ Idle.at # "done"
  BY DEF Idle, HasRow
<1>4. PendingIsSound /\ ReadIsSound /\ ResolveFailsByKekOnly /\ CredentialsSurvive
  BY <1>3 DEF KeyInit, PendingIsSound, ReadIsSound, ResolveFailsByKekOnly, CredentialsSurvive
<1> QED BY <1>1, <1>2, <1>4 DEF KeyInv, KeyTyped

LEMMA NextKeepsKeyInv == KeyRotationAssumption /\ KeyInv /\ [KeyNext]_keyVars => KeyInv'
<1> SUFFICES ASSUME KeyRotationAssumption, KeyInv, [KeyNext]_keyVars PROVE KeyInv'
  OBVIOUS
<1>1. CASE KeyNext
  BY <1>1, SetKeeps, ReadersKeep, RotationKeeps DEF KeyNext
<1>2. CASE UNCHANGED keyVars
  BY <1>2 DEF keyVars, KeyInv, KeyTyped, KeyTypeOK, CredentialsSurvive, PendingIsSound,
              ReadIsSound, ResolveFailsByKekOnly
<1> QED BY <1>1, <1>2

\* Every behaviour of the server and of the rotations keeps the invariant.
LEMMA KeyInvHolds == KeySpec => []KeyInv
BY KeyRotationAssumption, KeyInvInit, NextKeepsKeyInv, PTL DEF KeySpec

\* The state of the credentials, their cache and their rotation is what it should
\* be: a row has its four fields, a reader and a rotation those of where they are.
THEOREM KeyTypeCorrect == KeySpec => []KeyTypeOK
BY KeyInvHolds, PTL DEF KeyInv, KeyTyped

\* rotate_kek.go:193-226: a rotation that is killed, fails on some rows, is run
\* again or runs beside the server loses no credential, except one that was set
\* between the read of its row and the update.
THEOREM CredentialsAlwaysSurvive == KeySpec => []CredentialsSurvive
BY KeyInvHolds, PTL DEF KeyInv

\* keyring.go:149-164: a resolve that read a sound row, in a transaction of its
\* tenant, fails for one reason only, the KEK of the server, whatever the cache
\* has for the tenant.
THEOREM OnlyTheKekFails == KeySpec => []ResolveFailsByKekOnly
BY KeyInvHolds, PTL DEF KeyInv

-----------------------------------------------------------------------------
(* A rotation that nothing disturbs is complete.                           *)

\* The plan calls rotate-kek an offline operation (fase7/PLAN.md): no credential
\* is set while it works; the server may read, delete, stop and start.
OfflineSpec == KeyInit /\ [][KeyNext /\ (rot.at = "next" => ~CommitSet)]_keyVars

\* What a rotation without an error has behind it is under the new KEK.
RewrappedSoFar ==
  rot.at = "next" /\ ~rot.dry /\ rot.errors = {} =>
    \A c \in Creds : rows[c] = Absent \/ c \in DOMAIN rot.todo \/ rows[c].kek = "new"

\* The report without an error is true of every row.
ReportIsTrue ==
  [][EndRotation /\ ~rot.dry /\ rot.errors = {} =>
       \A c \in Creds : rows[c] # Absent => rows[c].kek = "new"]_keyVars

\* While the rotation works, no row comes under another KEK and no row appears.
LEMMA ServerKeepsRewrapped ==
  ASSUME KeyInv, RewrappedSoFar, UNCHANGED rot,
         \A c \in Creds : rows'[c] \in {rows[c], Absent}
  PROVE  RewrappedSoFar'
BY DEF RewrappedSoFar

\* A row leaves the list rewrapped, or with an error.
LEMMA RotationRewraps ==
  ASSUME KeyInv, RewrappedSoFar, NEW c \in Creds,
         UnwrapFails(c) \/ DryRow(c) \/ UpdateRow(c) \/ UpdateFails(c)
  PROVE  RewrappedSoFar'
<1>1. /\ rot.at = "next" /\ c \in DOMAIN rot.todo /\ rows \in [Creds -> Row \cup {Absent}]
      /\ KeyTyped
  BY DEF UnwrapFails, DryRow, UpdateRow, UpdateFails, KeyInv, KeyTyped, KeyTypeOK
<1>2. PICK D \in SUBSET Creds : rot \in Rotation(D) /\ DOMAIN rot.todo = D
  BY <1>1, RotationFacts
<1>3. DOMAIN Rest(c) = D \ {c}
  BY <1>2 DEF Rest
<1>4. CASE UnwrapFails(c) \/ UpdateFails(c)
  <2>1. ASSUME NEW w, rot' = [rot EXCEPT !.todo = Rest(c), !.errors = @ \cup {<<c, w>>}]
        PROVE  rot'.errors # {}
    BY <1>2, <2>1 DEF Rotation
  <2>2. rot'.errors # {}
    <3>1. CASE UnwrapFails(c)
      BY <2>1, <3>1 DEF UnwrapFails
    <3>2. CASE UpdateFails(c)
      BY <2>1, <3>2 DEF UpdateFails
    <3> QED BY <1>4, <3>1, <3>2
  <2> QED BY <2>2 DEF RewrappedSoFar
<1>5. CASE DryRow(c)
  <2>1. rot'.dry = rot.dry /\ rot.dry
    BY <1>2, <1>5 DEF DryRow, Rotation
  <2> QED BY <2>1 DEF RewrappedSoFar
<1>6. CASE UpdateRow(c)
  <2>1. /\ rot'.at = rot.at /\ rot'.dry = rot.dry /\ rot'.todo = Rest(c)
        /\ rot'.errors = {} => rot.errors = {}
    <3>1. PICK e \in {{}, {<<c, "update">>}} :
            rot' = [rot EXCEPT !.todo = Rest(c), !.errors = @ \cup e]
      BY <1>6 DEF UpdateRow
    <3> QED BY <1>2, <3>1 DEF Rotation
  <2>2. Rewrapped(rot.todo[c]).kek = "new"
    BY DEF Rewrapped, Wrap
  <2>3. rows'[c] = Absent \/ rows'[c].kek = "new"
    <3>1. CASE rows[c] = Absent
      BY <1>6, <3>1 DEF UpdateRow
    <3>2. CASE rows[c] # Absent
      <4>1. rows[c] \in Row
        BY <1>1, <3>2
      <4> QED BY <1>1, <1>6, <2>2, <3>2, <4>1 DEF UpdateRow, Row
    <3> QED BY <3>1, <3>2
  <2>4. \A d \in Creds : d # c => rows'[d] = rows[d]
    BY <1>1, <1>6 DEF UpdateRow
  <2> QED BY <1>1, <1>2, <1>3, <2>1, <2>3, <2>4 DEF RewrappedSoFar
<1> QED BY <1>4, <1>5, <1>6

\* Every step of an offline rotation keeps what it has behind it.
LEMMA OfflineKeepsRewrapped ==
  ASSUME KeyInv, RewrappedSoFar, [KeyNext /\ (rot.at = "next" => ~CommitSet)]_keyVars
  PROVE  RewrappedSoFar'
<1>0. rows \in [Creds -> Row \cup {Absent}]
  BY DEF KeyInv, KeyTyped, KeyTypeOK
<1>1. ASSUME NEW c \in Creds, SetCredentials(c) \/ DeleteCredentials(c)
      PROVE  RewrappedSoFar'
  BY <1>0, <1>1, ServerKeepsRewrapped DEF SetCredentials, DeleteCredentials
<1>2. ASSUME NEW r \in Readers,
             \/ \E c \in Creds : GetRow(r, c)
             \/ \E e \in BOOLEAN : Resolve(r, e)
             \/ GetOutsideTx(r) \/ Used(r)
      PROVE  RewrappedSoFar'
  BY <1>2, ServerKeepsRewrapped DEF GetRow, Resolve, GetOutsideTx, Used
<1>3. ASSUME NEW k \in Keks, RestartServer(k) PROVE RewrappedSoFar'
  BY <1>3, ServerKeepsRewrapped DEF RestartServer
<1>4. CASE CommitSet /\ rot.at # "next"
  <2>1. rot'.at # "next"
    BY <1>4 DEF CommitSet
  <2> QED BY <2>1 DEF RewrappedSoFar
<1>5. CASE EndRotation \/ RotatorDies
  <2>1. rot'.at # "next"
    <3>1. CASE EndRotation
      <4>1. PICK D \in SUBSET Creds : rot \in Rotation(D)
        BY <3>1, RotationFacts DEF EndRotation, KeyInv
      <4> QED BY <3>1, <4>1 DEF EndRotation, Rotation
    <3>2. CASE RotatorDies
      BY <3>2 DEF RotatorDies, Off
    <3> QED BY <1>5, <3>1, <3>2
  <2> QED BY <2>1 DEF RewrappedSoFar
<1>6. ASSUME NEW dry \in BOOLEAN, StartRotation(dry) PROVE RewrappedSoFar'
  <2>1. rows' = rows /\ DOMAIN rot'.todo = {c \in Creds : rows[c] # Absent}
    BY <1>6 DEF StartRotation
  <2> QED BY <2>1 DEF RewrappedSoFar
<1>7. CASE UNCHANGED keyVars
  BY <1>7, ServerKeepsRewrapped DEF keyVars
<1> QED BY <1>1, <1>2, <1>3, <1>4, <1>5, <1>6, <1>7, RotationRewraps DEF KeyNext

\* rotate_kek.go: when no credential is set meanwhile, a rotation that reports no
\* error leaves every stored row under the new KEK, as the server that is started
\* with that KEK alone needs it, whatever earlier runs that were killed or failed,
\* and servers with either KEK, have left in the table.
THEOREM OfflineRotationIsComplete == OfflineSpec => ReportIsTrue
<1>1. OfflineSpec => [](KeyInv /\ RewrappedSoFar)
  <2>1. KeyInit => KeyInv /\ RewrappedSoFar
    <3>1. KeyInit => RewrappedSoFar
      BY DEF KeyInit, Off, RewrappedSoFar
    <3> QED BY <3>1, KeyRotationAssumption, KeyInvInit
  <2>2. /\ KeyInv /\ RewrappedSoFar
        /\ [KeyNext /\ (rot.at = "next" => ~CommitSet)]_keyVars
        => (KeyInv /\ RewrappedSoFar)'
    <3> SUFFICES ASSUME KeyInv, RewrappedSoFar,
                        [KeyNext /\ (rot.at = "next" => ~CommitSet)]_keyVars
                 PROVE  KeyInv' /\ RewrappedSoFar'
      OBVIOUS
    <3>1. [KeyNext]_keyVars
      OBVIOUS
    <3>2. KeyInv'
      BY <3>1, KeyRotationAssumption, NextKeepsKeyInv
    <3> QED BY <3>2, OfflineKeepsRewrapped
  <2> QED BY <2>1, <2>2, PTL DEF OfflineSpec
<1>2. KeyInv /\ RewrappedSoFar
        => (EndRotation /\ ~rot.dry /\ rot.errors = {} =>
              \A c \in Creds : rows[c] # Absent => rows[c].kek = "new")
  BY DEF EndRotation, RewrappedSoFar
<1> QED BY <1>1, <1>2, PTL DEF ReportIsTrue

-----------------------------------------------------------------------------
(* BackupJobs.                                                             *)

\* The states of the jobs, by what they carry.
RowSets    == [Table -> SUBSET Rows]
Requested  == [kind : {"export"}, at : {"pending", "failed"}]
Exporting  == [kind : {"export"},
               at : {"upload", "collect", "commit", "manifest", "done", "failed"},
               snap : RowSets, file : RowSets, ser : {"query", "write", "exit"},
               next : 1 .. Len(Tables) + 1,
               err : BOOLEAN, eof : BOOLEAN, broken : BOOLEAN, lost : BOOLEAN]
Accepting  == [kind : {"restore"}, at : {"pending", "done", "failed"}, from : Backups,
               dry : BOOLEAN]
Upserting  == [kind : {"restore"}, at : {"upsert", "done", "failed"}, rows : RowSets]
Resetting  == [kind : {"reset"},
               at : {"whatsapp", "tenant", "commit", "objects", "done", "failed"},
               next : 1 .. Len(Tables) + 1, start : RowSets, taken : RowSets]
JobState   == {Nothing} \cup Requested \cup Exporting \cup Accepting \cup Upserting \cup Resetting

Within(a, b) == \A t \in Table : a[t] \subseteq b[t]

\* A serializer that ends closes the pipe or breaks it, one that failed has said
\* so, and one that has nobody to read its pipe knows.
SerializerEnds(x) ==
  /\ x.eof \/ x.err => x.ser = "exit"
  /\ x.at # "upload" => x.ser = "exit" \/ x.broken
  /\ x.ser = "write" => x.next <= Len(Tables)

\* The tables before next are in the file as the snapshot has them, the others
\* are not there yet; a pipe that was closed without an error had them all.
FileFollows(x) ==
  /\ \A i \in 1 .. Len(Tables) :
       x.file[Tables[i]] = IF i < x.next THEN x.snap[Tables[i]] ELSE {}
  /\ x.eof /\ ~x.err => x.next = Len(Tables) + 1

\* An export whose upload did not fail is behind a serializer that is done, and
\* goes on only where that one found no error.
Uploaded(x) == x.at \in {"collect", "commit", "manifest", "done"} /\ ~x.lost
Checked(x)  == Uploaded(x) => x.eof /\ (x.at # "collect" => ~x.err)

\* What a reset has done with the i-th table: of the rows that were there when it
\* began, those that are not back by a restore are gone, or about to be.
Cleared(x, t) == x.start[t] \cap db[t] \subseteq restored[t]
Taken(x, t)   == x.start[t] \cap db[t] \subseteq restored[t] \cup x.taken[t]

ResetProgress(x) ==
  \A i \in 1 .. Len(Tables) :
    LET t == Tables[i] IN
    /\ (x.at = "whatsapp" /\ i < x.next) \/ x.at \in {"tenant", "commit"} =>
         (t \in WhatsappTables => Cleared(x, t))
    /\ (x.at = "tenant" /\ i < x.next) \/ x.at = "commit" => Taken(x, t)
    /\ x.at \in {"objects", "done"} => Cleared(x, t)

\* The states of a job that agree with the pipe, the database and the store.
ExportFine(j, x) ==
  x \in Exporting =>
    /\ j \in Backups
    /\ SerializerEnds(x) /\ FileFollows(x) /\ Checked(x) /\ Within(x.snap, born)
    /\ Uploaded(x) /\ j \notin wiped => objects[j] = [rows |-> x.file]
RestoreFine(x) == x \in Upserting => Within(x.rows, born)
ResetFine(x)   == x \in Resetting => Within(x.start, born) /\ ResetProgress(x)
Fine(j, x)     == x \in JobState /\ ExportFine(j, x) /\ RestoreFine(x) /\ ResetFine(x)

JobsAreFine == jobs = [j \in Jobs |-> jobs[j]] /\ \A j \in Jobs : Fine(j, jobs[j])

\* Every row anywhere was once inserted by the traffic.
AllWasBorn ==
  /\ Within(db, born)
  /\ \A b \in Backups : objects[b] # NoFile => Within(objects[b].rows, born)

BackupInv == BackupTypeOK /\ AllWasBorn /\ JobsAreFine

\* The tables are a list without repetition.
LEMMA TableFacts ==
  ASSUME BackupAssumption
  PROVE  /\ Len(Tables) \in Nat
         /\ \A i \in 1 .. Len(Tables) : Tables[i] \in Table
         /\ \A i, k \in 1 .. Len(Tables) : Tables[i] = Tables[k] => i = k
         /\ \A t \in Table : \E i \in 1 .. Len(Tables) : t = Tables[i]
<1>1. Tables \in Seq(ToSet(Tables))
  BY DEF BackupAssumption
<1>2. Len(Tables) \in Nat /\ DOMAIN Tables = 1 .. Len(Tables)
  BY <1>1
<1> QED BY <1>2 DEF Table, ToSet, BackupAssumption

\* The state of a job tells what it carries.
LEMMA JobFacts ==
  ASSUME NEW x \in JobState
  PROVE  /\ "ser" \in DOMAIN x => x \in Exporting
         /\ x \in Exporting => "ser" \in DOMAIN x
         /\ x # Nothing /\ x.kind = "export" /\ x.at # "pending" /\ x.at # "failed" => x \in Exporting
         /\ x # Nothing /\ x.kind = "export" => x \in Exporting \cup Requested
         /\ x # Nothing /\ x.kind = "restore" => x \in Accepting \cup Upserting
         /\ x # Nothing /\ x.kind = "reset" => x \in Resetting
         /\ x # Nothing /\ x.kind = "restore" /\ x.at = "pending" => x \in Accepting
         /\ x # Nothing /\ x.kind = "restore" /\ x.at = "upsert" => x \in Upserting
<1>1. CASE x = Nothing
  BY <1>1 DEF Nothing, Exporting
<1>2. CASE x \in Requested
  BY <1>2 DEF Requested, Exporting
<1>3. CASE x \in Exporting
  BY <1>3 DEF Exporting
<1>4. CASE x \in Accepting
  BY <1>4 DEF Accepting, Exporting
<1>5. CASE x \in Upserting
  BY <1>5 DEF Upserting, Exporting
<1>6. CASE x \in Resetting
  BY <1>6 DEF Resetting, Exporting
<1> QED BY <1>1, <1>2, <1>3, <1>4, <1>5, <1>6 DEF JobState

\* The kinds of states are apart.
LEMMA KindsAreApart ==
  /\ \A x \in Exporting : x \notin Upserting /\ x \notin Resetting
  /\ \A x \in Upserting : x \notin Exporting /\ x \notin Resetting
  /\ \A x \in Resetting : x \notin Exporting /\ x \notin Upserting
  /\ \A x \in {Nothing} \cup Requested \cup Accepting :
       x \notin Exporting /\ x \notin Upserting /\ x \notin Resetting
<1>1. \A x \in Exporting : x.kind = "export" /\ "ser" \in DOMAIN x
  BY DEF Exporting
<1>2. \A x \in Upserting : x.kind = "restore" /\ "rows" \in DOMAIN x /\ "ser" \notin DOMAIN x
  BY DEF Upserting
<1>3. \A x \in Resetting : x.kind = "reset" /\ "taken" \in DOMAIN x /\ "ser" \notin DOMAIN x
  BY DEF Resetting
<1>4. \A x \in Requested \cup Accepting : /\ x.kind \in {"export", "restore"}
                                          /\ "ser" \notin DOMAIN x /\ "rows" \notin DOMAIN x
                                          /\ "taken" \notin DOMAIN x
  BY DEF Requested, Accepting
<1>5. "ser" \notin DOMAIN Nothing /\ "rows" \notin DOMAIN Nothing /\ "taken" \notin DOMAIN Nothing
  BY DEF Nothing
<1> QED BY <1>1, <1>2, <1>3, <1>4, <1>5

LEMMA ExportFacts ==
  ASSUME NEW x \in Exporting
  PROVE  /\ x.at \in {"upload", "collect", "commit", "manifest", "done", "failed"}
         /\ x.snap \in RowSets /\ x.file \in RowSets
         /\ x.ser \in {"query", "write", "exit"} /\ x.next \in 1 .. Len(Tables) + 1
         /\ x.err \in BOOLEAN /\ x.eof \in BOOLEAN
         /\ x.broken \in BOOLEAN /\ x.lost \in BOOLEAN
BY DEF Exporting

LEMMA ResetFacts ==
  ASSUME NEW x \in Resetting
  PROVE  /\ x.at \in {"whatsapp", "tenant", "commit", "objects", "done", "failed"}
         /\ x.start \in RowSets /\ x.taken \in RowSets /\ x.next \in 1 .. Len(Tables) + 1
BY DEF Resetting

\* The database drifts: rows are born and restored, and the rows in it that are
\* not new were there, or a restore brought them.
Drifts ==
  /\ Within(born, born') /\ Within(restored, restored')
  /\ \A t \in Table : db'[t] \cap born[t] \subseteq db[t] \cup restored'[t]

\* A job that was fine stays so while the database drifts, and while its object
\* stays or is wiped.
LEMMA FineStays ==
  ASSUME BackupAssumption, NEW j \in Jobs, NEW x, Fine(j, x), Drifts,
         j \in Backups /\ j \notin wiped' => j \notin wiped /\ objects'[j] = objects[j]
  PROVE  Fine(j, x)'
<1>1. x \in JobState
  BY DEF Fine
<1>2. ASSUME NEW a, Within(a, born) PROVE Within(a, born')
  BY <1>2 DEF Within, Drifts
<1>3. ExportFine(j, x)'
  BY <1>2 DEF Fine, ExportFine
<1>4. RestoreFine(x)'
  BY <1>2 DEF Fine, RestoreFine
<1>5. ASSUME x \in Resetting PROVE ResetProgress(x)'
  <2>1. /\ \A t \in Table : x.start[t] \subseteq born[t]
        /\ ResetProgress(x)
    BY <1>5 DEF Fine, ResetFine, Within
  <2>2. \A t \in Table : (Cleared(x, t) => Cleared(x, t)') /\ (Taken(x, t) => Taken(x, t)')
    BY <2>1 DEF Cleared, Taken, Drifts, Within
  <2> QED BY <2>1, <2>2, TableFacts DEF ResetProgress
<1>6. ResetFine(x)'
  BY <1>2, <1>5 DEF Fine, ResetFine
<1> QED BY <1>1, <1>3, <1>4, <1>6 DEF Fine

\* One job moves to a state that is fine, the rest drifts.
LEMMA JobMoves ==
  ASSUME BackupAssumption, BackupInv, NEW j \in Jobs, NEW x,
         jobs' = [jobs EXCEPT ![j] = x], Fine(j, x)', Drifts, AllWasBorn',
         db' \in RowSets, born' \in RowSets, restored' \in RowSets,
         objects' \in [Backups -> [rows : RowSets] \cup {NoFile}],
         manifests' \subseteq Backups, wiped' \subseteq Backups,
         \A b \in Backups \ {j} : b \notin wiped' => b \notin wiped /\ objects'[b] = objects[b]
  PROVE  BackupInv'
<1>1. jobs = [k \in Jobs |-> jobs[k]] /\ \A k \in Jobs : Fine(k, jobs[k])
  BY DEF BackupInv, JobsAreFine
<1>2. jobs'[j] = x /\ \A k \in Jobs \ {j} : jobs'[k] = jobs[k]
  BY <1>1
<1>3. DOMAIN jobs' = Jobs /\ jobs' = [k \in Jobs |-> jobs'[k]]
  BY <1>1
<1>4. BackupTypeOK'
  BY <1>3 DEF BackupTypeOK, RowSets
<1>5. ASSUME NEW k \in Jobs \ {j} PROVE Fine(k, jobs[k])'
  <2>1. PICK z : z = jobs[k]
    OBVIOUS
  <2>2. z = jobs'[k] /\ Fine(k, z)
    BY <1>1, <1>2, <2>1
  <2>3. Fine(k, z)'
    BY <2>2, FineStays
  <2> QED BY <2>2, <2>3 DEF Fine, ExportFine, RestoreFine, ResetFine, ResetProgress, Cleared, Taken
<1>6. Fine(j, jobs[j])'
  BY <1>2 DEF Fine, ExportFine, RestoreFine, ResetFine, ResetProgress, Cleared, Taken
<1> QED BY <1>3, <1>4, <1>5, <1>6 DEF BackupInv, JobsAreFine

\* One job moves to a state that is fine, nothing else changes but the manifests.
LEMMA JobSteps ==
  ASSUME BackupAssumption, BackupInv, NEW j \in Jobs, NEW x,
         jobs' = [jobs EXCEPT ![j] = x], Fine(j, x),
         UNCHANGED <<db, born, restored, objects, wiped>>, manifests' \subseteq Backups
  PROVE  BackupInv'
<1>1. Drifts
  BY DEF Drifts, Within
<1>2. Fine(j, x)'
  BY <1>1, FineStays
<1>3. AllWasBorn'
  BY DEF BackupInv, AllWasBorn
<1>4. /\ db' \in RowSets /\ born' \in RowSets /\ restored' \in RowSets
      /\ objects' \in [Backups -> [rows : RowSets] \cup {NoFile}] /\ wiped' \subseteq Backups
  BY DEF BackupInv, BackupTypeOK, RowSets
<1> QED BY <1>1, <1>2, <1>3, <1>4, JobMoves

\* What is to be shown of a state, by its kind.
LEMMA PlainIsFine ==
  ASSUME NEW j \in Jobs, NEW x \in {Nothing} \cup Requested \cup Accepting
  PROVE  Fine(j, x)
BY KindsAreApart DEF Fine, ExportFine, RestoreFine, ResetFine, JobState

LEMMA ExportIsFine ==
  ASSUME NEW j \in Backups, NEW x \in Exporting,
         SerializerEnds(x), FileFollows(x), Checked(x), Within(x.snap, born),
         Uploaded(x) /\ j \notin wiped => objects[j] = [rows |-> x.file]
  PROVE  Fine(j, x)
BY KindsAreApart DEF Fine, ExportFine, RestoreFine, ResetFine, JobState

LEMMA UpsertIsFine ==
  ASSUME NEW j \in Jobs, NEW x \in Upserting, Within(x.rows, born)
  PROVE  Fine(j, x)
BY KindsAreApart DEF Fine, ExportFine, RestoreFine, ResetFine, JobState

LEMMA ResetIsFine ==
  ASSUME NEW j \in Jobs, NEW x \in Resetting, Within(x.start, born), ResetProgress(x)
  PROVE  Fine(j, x)
BY KindsAreApart DEF Fine, ExportFine, RestoreFine, ResetFine, JobState

\* What the invariant says of one job.
LEMMA OneJob ==
  ASSUME BackupInv, NEW j \in Jobs
  PROVE  /\ Fine(j, jobs[j]) /\ jobs[j] \in JobState /\ manifests \subseteq Backups
         /\ db \in RowSets /\ born \in RowSets /\ restored \in RowSets
         /\ Within(db, born) /\ wiped \subseteq Backups
         /\ objects \in [Backups -> [rows : RowSets] \cup {NoFile}]
         /\ Backups \subseteq Jobs /\ Imports \subseteq Jobs
         /\ DOMAIN jobs = Jobs
         /\ jobs[j] \in Exporting =>
              /\ j \in Backups
              /\ SerializerEnds(jobs[j]) /\ FileFollows(jobs[j]) /\ Checked(jobs[j])
              /\ Within(jobs[j].snap, born)
              /\ Uploaded(jobs[j]) /\ j \notin wiped => objects[j] = [rows |-> jobs[j].file]
         /\ jobs[j] \in Upserting => Within(jobs[j].rows, born)
         /\ jobs[j] \in Resetting => Within(jobs[j].start, born) /\ ResetProgress(jobs[j])
BY DEF BackupInv, BackupTypeOK, AllWasBorn, JobsAreFine, Fine, ExportFine, RestoreFine, ResetFine,
       RowSets, Jobs

\* An export goes on: only its state changes.
LEMMA ExportSteps ==
  ASSUME BackupAssumption, BackupInv, NEW j \in Backups, NEW x,
         jobs' = [jobs EXCEPT ![j] = x],
         UNCHANGED <<db, born, restored, objects, wiped>>, manifests' \subseteq Backups,
         jobs[j] \in Exporting, x \in Exporting,
         SerializerEnds(x), FileFollows(x), Checked(x), x.snap = jobs[j].snap,
         Uploaded(x) => Uploaded(jobs[j]) /\ x.file = jobs[j].file
  PROVE  BackupInv'
<1>1. Fine(j, x)
  BY OneJob, ExportIsFine DEF Jobs
<1> QED BY <1>1, JobSteps DEF Jobs

\* The serializer: what it writes and how it ends.
LEMMA SerializerKeeps ==
  ASSUME BackupAssumption, BackupInv, NEW j \in Backups,
         Query(j) \/ Write(j) \/ SerializerFails(j) \/ SerializerPanics(j)
  PROVE  BackupInv'
<1> DEFINE ex == jobs[j]
<1>0. j \in Jobs
  BY DEF Jobs
<1>1. /\ ex \in Exporting /\ ex.ser \in {"query", "write"}
      /\ UNCHANGED <<db, born, restored, objects, wiped>> /\ manifests' \subseteq Backups
  BY <1>0, OneJob, JobFacts DEF Query, Write, SerializerFails, SerializerPanics, Database, Stored
<1>2. /\ SerializerEnds(ex) /\ FileFollows(ex) /\ Checked(ex) /\ ~ex.eof /\ ~ex.err
      /\ ~Uploaded(ex)
  <2>1. SerializerEnds(ex) /\ FileFollows(ex) /\ Checked(ex)
    BY <1>0, <1>1, OneJob
  <2> QED BY <1>1, <2>1 DEF SerializerEnds, Checked
<1>3. ASSUME jobs' = [jobs EXCEPT ![j] = SerializerStops(j)] PROVE BackupInv'
  <2> DEFINE x == SerializerStops(j)
  <2>1. x = [ex EXCEPT !.ser = "exit", !.err = TRUE, !.eof = TRUE]
    BY DEF SerializerStops
  <2>2. x \in Exporting
    BY <1>1, <2>1 DEF Exporting
  <2>3. /\ x.ser = "exit" /\ x.err /\ x.eof /\ x.at = ex.at /\ x.snap = ex.snap
        /\ x.file = ex.file /\ x.next = ex.next /\ x.lost = ex.lost
    BY <1>1, <2>1 DEF Exporting
  <2>4. SerializerEnds(x) /\ FileFollows(x) /\ Checked(x) /\ ~Uploaded(x)
    BY <1>2, <2>3 DEF SerializerEnds, FileFollows, Checked, Uploaded
  <2> HIDE DEF x
  <2> QED BY <1>1, <1>3, <2>2, <2>3, <2>4, ExportSteps DEF x
<1>4. CASE Query(j)
  <2>1. ASSUME ex.next > Len(Tables), NEW x, x = [ex EXCEPT !.ser = "exit", !.eof = TRUE],
               jobs' = [jobs EXCEPT ![j] = x]
        PROVE  BackupInv'
    <3>1. x \in Exporting
      BY <1>1, <2>1 DEF Exporting
    <3>2. /\ x.ser = "exit" /\ x.err = ex.err /\ x.eof /\ x.at = ex.at /\ x.snap = ex.snap
          /\ x.file = ex.file /\ x.next = ex.next /\ x.lost = ex.lost
      BY <1>1, <2>1 DEF Exporting
    <3>3. ex.next = Len(Tables) + 1
      BY <1>1, <2>1, ExportFacts, TableFacts
    <3>4. SerializerEnds(x) /\ FileFollows(x) /\ Checked(x) /\ ~Uploaded(x)
      BY <1>2, <3>2, <3>3 DEF SerializerEnds, FileFollows, Checked, Uploaded
    <3> QED BY <1>1, <2>1, <3>1, <3>2, <3>4, ExportSteps
  <2>2. ASSUME ex.next <= Len(Tables), ex.snap[Tables[ex.next]] = {},
               NEW x, x = [ex EXCEPT !.next = @ + 1], jobs' = [jobs EXCEPT ![j] = x]
        PROVE  BackupInv'
    <3>1. ex.next \in 1 .. Len(Tables) /\ Len(Tables) \in Nat
      BY <1>1, <2>2, ExportFacts, TableFacts
    <3>2. x \in Exporting
      BY <1>1, <2>2, <3>1 DEF Exporting
    <3>3. /\ x.ser = ex.ser /\ x.err = ex.err /\ x.eof = ex.eof /\ x.at = ex.at
          /\ x.snap = ex.snap /\ x.file = ex.file /\ x.next = ex.next + 1
          /\ x.lost = ex.lost /\ x.broken = ex.broken
      BY <1>1, <2>2 DEF Exporting
    <3>4. ex.ser = "query"
      BY <1>4 DEF Query
    <3>5. SerializerEnds(x) /\ Checked(x) /\ ~Uploaded(x)
      BY <1>2, <3>3, <3>4 DEF SerializerEnds, Checked, Uploaded
    <3>6. FileFollows(x)
      <4>1. \A i \in 1 .. Len(Tables) : i < x.next <=> i < ex.next \/ i = ex.next
        BY <3>1, <3>3
      <4>2. ~(ex.next < ex.next)
        BY <3>1
      <4>3. ex.file[Tables[ex.next]] = {}
        BY <1>2, <3>1, <4>2 DEF FileFollows
      <4> HIDE DEF ex
      <4> QED BY <1>2, <2>2, <3>1, <3>3, <4>1, <4>3 DEF FileFollows
    <3> QED BY <1>1, <2>2, <3>2, <3>3, <3>5, <3>6, ExportSteps
  <2>3. ASSUME ex.next <= Len(Tables),
               NEW x, x = [ex EXCEPT !.ser = "write"], jobs' = [jobs EXCEPT ![j] = x]
        PROVE  BackupInv'
    <3>1. x \in Exporting
      BY <1>1, <2>3 DEF Exporting
    <3>2. /\ x.ser = "write" /\ x.err = ex.err /\ x.eof = ex.eof /\ x.at = ex.at
          /\ x.snap = ex.snap /\ x.file = ex.file /\ x.next = ex.next
          /\ x.lost = ex.lost /\ x.broken = ex.broken
      BY <1>1, <2>3 DEF Exporting
    <3>3. SerializerEnds(x) /\ FileFollows(x) /\ Checked(x) /\ ~Uploaded(x)
      BY <1>1, <1>2, <2>3, <3>2 DEF SerializerEnds, FileFollows, Checked, Uploaded
    <3> QED BY <1>1, <2>3, <3>1, <3>2, <3>3, ExportSteps
  <2>4. ex.next > Len(Tables) \/ ex.next <= Len(Tables)
    BY <1>1, ExportFacts, TableFacts
  <2> QED BY <1>3, <1>4, <2>1, <2>2, <2>3, <2>4 DEF Query, Snapshot
<1>5. CASE Write(j)
  <2>1. ASSUME ex.at = "upload", NEW t, t = Tables[ex.next], NEW x,
               x = [ex EXCEPT !.file[t] = ex.snap[t], !.next = @ + 1, !.ser = "query"],
               jobs' = [jobs EXCEPT ![j] = x]
        PROVE  BackupInv'
    <3>1. ex.next \in 1 .. Len(Tables) /\ Len(Tables) \in Nat /\ t \in Table
      BY <1>1, <1>2, <1>5, <2>1, ExportFacts, TableFacts DEF Write, SerializerEnds
    <3>2. ex.snap \in RowSets /\ ex.file \in RowSets
      BY <1>1, ExportFacts
    <3> DEFINE f == [ex.file EXCEPT ![t] = ex.snap[t]]
    <3>3. f \in RowSets
      BY <3>1, <3>2 DEF RowSets
    <3>4. x = [ex EXCEPT !.file = f, !.next = ex.next + 1, !.ser = "query"]
      BY <1>1, <2>1 DEF Exporting
    <3>5. x \in Exporting
      <4>1. PICK n \in 1 .. Len(Tables) + 1 : n = ex.next + 1
        BY <3>1
      <4>2. x = [[[ex EXCEPT !.file = f] EXCEPT !.next = n] EXCEPT !.ser = "query"]
        BY <3>4, <4>1
      <4> HIDE DEF f
      <4>3. ASSUME NEW y \in Exporting, NEW g \in RowSets PROVE [y EXCEPT !.file = g] \in Exporting
        BY <4>3 DEF Exporting
      <4>4. ASSUME NEW y \in Exporting PROVE [y EXCEPT !.next = n] \in Exporting
        BY <4>4 DEF Exporting
      <4>5. ASSUME NEW y \in Exporting PROVE [y EXCEPT !.ser = "query"] \in Exporting
        BY <4>5 DEF Exporting
      <4> HIDE DEF ex
      <4> QED BY <1>1, <3>3, <4>2, <4>3, <4>4, <4>5
    <3>6. /\ x.ser = "query" /\ x.err = ex.err /\ x.eof = ex.eof /\ x.at = ex.at
          /\ x.snap = ex.snap /\ x.next = ex.next + 1
          /\ x.file = [ex.file EXCEPT ![t] = ex.snap[t]]
      BY <1>1, <3>4 DEF Exporting
    <3>7. SerializerEnds(x) /\ Checked(x) /\ ~Uploaded(x)
      BY <1>2, <2>1, <3>6 DEF SerializerEnds, Checked, Uploaded
    <3>8. FileFollows(x)
      <4>1. ASSUME NEW i \in 1 .. Len(Tables)
            PROVE  x.file[Tables[i]] = IF i < x.next THEN x.snap[Tables[i]] ELSE {}
        <5>1. CASE i = ex.next
          BY <2>1, <3>1, <3>2, <3>6, <5>1 DEF RowSets
        <5>2. CASE i # ex.next
          <6>1. Tables[i] # t /\ Tables[i] \in Table
            BY <2>1, <3>1, <5>2, TableFacts
          <6>2. x.file[Tables[i]] = ex.file[Tables[i]]
            BY <3>2, <3>6, <6>1 DEF RowSets
          <6>3. i < x.next <=> i < ex.next
            BY <3>1, <3>6, <5>2
          <6> QED BY <1>2, <3>6, <6>2, <6>3 DEF FileFollows
        <5> QED BY <5>1, <5>2
      <4> QED BY <1>2, <3>6, <4>1 DEF FileFollows
    <3> QED BY <1>1, <2>1, <3>5, <3>6, <3>7, <3>8, ExportSteps
  <2>2. CASE ex.broken
    BY <1>3, <1>5, <2>2 DEF Write
  <2>3. CASE ~ex.broken
    BY <1>5, <2>1, <2>3 DEF Write, Snapshot
  <2> QED BY <2>2, <2>3
<1>6. CASE SerializerFails(j)
  BY <1>3, <1>6 DEF SerializerFails
<1>7. CASE SerializerPanics(j)
  <2>1. PICK x : x = [ex EXCEPT !.ser = "exit", !.broken = TRUE]
    OBVIOUS
  <2>2. jobs' = [jobs EXCEPT ![j] = x]
    BY <1>7, <2>1 DEF SerializerPanics
  <2>3. x \in Exporting
    BY <1>1, <2>1 DEF Exporting
  <2>4. /\ x.ser = "exit" /\ x.err = ex.err /\ x.eof = ex.eof /\ x.at = ex.at /\ x.snap = ex.snap
        /\ x.file = ex.file /\ x.next = ex.next /\ x.lost = ex.lost
    BY <1>1, <2>1 DEF Exporting
  <2>5. SerializerEnds(x) /\ FileFollows(x) /\ Checked(x) /\ ~Uploaded(x)
    BY <1>2, <2>4 DEF SerializerEnds, FileFollows, Checked, Uploaded
  <2> QED BY <1>1, <2>2, <2>3, <2>4, <2>5, ExportSteps
<1> QED BY <1>4, <1>5, <1>6, <1>7

\* An export with another .at, and one whose upload failed.
LEMMA ExportAt ==
  ASSUME NEW x \in Exporting,
         NEW at \in {"upload", "collect", "commit", "manifest", "done", "failed"},
         NEW y, y = [x EXCEPT !.at = at]
  PROVE  /\ y \in Exporting /\ y.at = at /\ y.snap = x.snap /\ y.file = x.file
         /\ y.ser = x.ser /\ y.next = x.next /\ y.err = x.err /\ y.eof = x.eof
         /\ y.broken = x.broken /\ y.lost = x.lost
BY DEF Exporting

\* The exporting job behind its serializer: it may go on without an error only.
LEMMA ExporterSteps ==
  ASSUME BackupAssumption, BackupInv, NEW j \in Backups, jobs[j] \in Exporting,
         jobs[j].at \in {"collect", "commit", "manifest"},
         NEW at \in {"commit", "manifest", "done", "failed"},
         Step(j, at), jobs[j].at = "collect" /\ at # "failed" => ~jobs[j].err,
         UNCHANGED <<db, born, restored, objects, wiped>>, manifests' \subseteq Backups
  PROVE  BackupInv'
<1> DEFINE ex == jobs[j]
<1>1. PICK x : x = [ex EXCEPT !.at = at]
  OBVIOUS
<1>2. /\ x \in Exporting /\ x.at = at /\ x.snap = ex.snap /\ x.file = ex.file
      /\ x.ser = ex.ser /\ x.next = ex.next /\ x.err = ex.err /\ x.eof = ex.eof
      /\ x.broken = ex.broken /\ x.lost = ex.lost
  BY <1>1, ExportAt
<1>3. jobs' = [jobs EXCEPT ![j] = x]
  BY <1>1 DEF Step
<1>4. SerializerEnds(ex) /\ FileFollows(ex) /\ Checked(ex)
  BY OneJob DEF Jobs
<1> HIDE DEF ex
<1>5. SerializerEnds(x) /\ FileFollows(x)
  BY <1>2, <1>4 DEF SerializerEnds, FileFollows, ex
<1>6. Uploaded(x) => Uploaded(ex)
  BY <1>2 DEF Uploaded, ex
<1>7. Checked(x)
  BY <1>2, <1>4, <1>6 DEF Checked, Uploaded, ex
<1> QED BY <1>2, <1>3, <1>5, <1>6, <1>7, ExportSteps DEF ex

\* The exporting job.
LEMMA ExporterKeeps ==
  ASSUME BackupAssumption, BackupInv, NEW j \in Backups,
         \/ Export(j) \/ BeginExport(j) \/ Upload(j) \/ UploadFails(j) \/ Collect(j)
         \/ CommitExport(j) \/ PutManifest(j) \/ ExportFails(j)
  PROVE  BackupInv'
<1> DEFINE ex == jobs[j]
<1>0. j \in Jobs
  BY DEF Jobs
<1>1. CASE Export(j)
  <2>1. PICK x : x = [kind |-> "export", at |-> "pending"]
    OBVIOUS
  <2>2. x \in Requested /\ jobs' = [jobs EXCEPT ![j] = x]
    BY <1>1, <2>1 DEF Export, Requested
  <2>3. Fine(j, x) /\ Drifts
    BY <1>0, <1>1, <2>2, PlainIsFine DEF Export, Drifts, Within, Database
  <2>4. Fine(j, x)'
    <3>1. ASSUME j \notin wiped' PROVE UNCHANGED objects
      BY <1>1 DEF Export
    <3>2. x \notin Exporting
      BY <2>2, KindsAreApart
    <3> QED BY <1>1, <2>2, <2>3, <3>2, KindsAreApart
            DEF Fine, ExportFine, RestoreFine, ResetFine
  <2>5. /\ AllWasBorn' /\ UNCHANGED <<db, born, restored, objects, manifests>>
        /\ wiped' \subseteq Backups
        /\ \A b \in Backups \ {j} : b \notin wiped' => b \notin wiped
    BY <1>1 DEF Export, Database, BackupInv, AllWasBorn, BackupTypeOK
  <2> QED BY <1>0, <2>2, <2>3, <2>4, <2>5, JobMoves, OneJob
<1>2. CASE BeginExport(j)
  <2>1. PICK x : x = [kind |-> "export", at |-> "upload", snap |-> db, file |-> Empty,
                      ser |-> "query", next |-> 1, err |-> FALSE, eof |-> FALSE,
                      broken |-> FALSE, lost |-> FALSE]
    OBVIOUS
  <2>2. /\ jobs' = [jobs EXCEPT ![j] = x] /\ UNCHANGED <<db, born, restored, objects, wiped>>
        /\ manifests' \subseteq Backups
    BY <1>0, <1>2, <2>1, OneJob DEF BeginExport, Database, Stored
  <2>3. db \in RowSets /\ Empty \in RowSets /\ Within(db, born)
        /\ 1 \in 1 .. Len(Tables) + 1
    <3>1. Empty \in RowSets
      BY DEF Empty, RowSets
    <3>2. 1 \in 1 .. Len(Tables) + 1
      BY TableFacts
    <3> QED BY <1>0, <3>1, <3>2, OneJob
  <2>4. x \in Exporting
    BY <2>1, <2>3 DEF Exporting
  <2>5. SerializerEnds(x) /\ Checked(x) /\ ~Uploaded(x) /\ Within(x.snap, born)
    BY <2>1, <2>3 DEF SerializerEnds, Checked, Uploaded
  <2>6. FileFollows(x)
    BY <2>1, TableFacts DEF FileFollows, Empty
  <2> QED BY <1>0, <2>2, <2>4, <2>5, <2>6, ExportIsFine, JobSteps
<1>3. CASE Upload(j)
  <2>1. /\ ex \in Exporting /\ ex.at = "upload" /\ ex.eof /\ ~ex.broken
        /\ objects' = [objects EXCEPT ![j] = [rows |-> ex.file]]
        /\ UNCHANGED <<db, born, restored, manifests, wiped>>
    BY <1>0, <1>3, OneJob, JobFacts DEF Upload, Is, Database
  <2>2. PICK x : x = [ex EXCEPT !.at = "collect"]
    OBVIOUS
  <2>3. /\ x \in Exporting /\ x.at = "collect" /\ x.snap = ex.snap /\ x.file = ex.file
        /\ x.ser = ex.ser /\ x.next = ex.next /\ x.err = ex.err /\ x.eof = ex.eof
        /\ x.broken = ex.broken /\ x.lost = ex.lost
    <3>1. ex \in Exporting
      BY <2>1
    <3>2. "collect" \in {"upload", "collect", "commit", "manifest", "done", "failed"}
      OBVIOUS
    <3> HIDE DEF ex
    <3> QED BY <2>2, <3>1, <3>2, ExportAt
  <2>4. jobs' = [jobs EXCEPT ![j] = x]
    BY <1>3, <2>2 DEF Upload, Step
  <2>5. SerializerEnds(ex) /\ FileFollows(ex) /\ Within(ex.snap, born)
    BY <1>0, <2>1, OneJob
  <2>6. SerializerEnds(x) /\ FileFollows(x) /\ Checked(x) /\ Within(x.snap, born)
    BY <2>1, <2>3, <2>5 DEF SerializerEnds, FileFollows, Checked
  <2>7. objects'[j] = [rows |-> x.file] /\ ex.file \in RowSets
        /\ \A b \in Backups \ {j} : objects'[b] = objects[b]
    BY <1>0, <2>1, <2>3, OneJob, ExportFacts
  <2>8. objects' \in [Backups -> [rows : RowSets] \cup {NoFile}] /\ Drifts
    <3>1. [rows |-> ex.file] \in [rows : RowSets]
      BY <2>7
    <3> HIDE DEF ex
    <3> QED BY <1>0, <2>1, <3>1, OneJob DEF Drifts, Within
  <2>9. AllWasBorn'
    <3>1. \A t \in Table : ex.file[t] \subseteq ex.snap[t]
      BY <2>5, TableFacts DEF FileFollows
    <3>2. Within(ex.file, born)
      BY <2>5, <3>1 DEF Within
    <3>3. objects'[j].rows = ex.file
      BY <2>3, <2>7
    <3> HIDE DEF ex
    <3> QED BY <2>1, <2>7, <3>2, <3>3 DEF BackupInv, AllWasBorn, Within
  <2>10. Fine(j, x)'
    BY <2>1, <2>3, <2>6, <2>7, KindsAreApart
       DEF Fine, ExportFine, RestoreFine, ResetFine, JobState, Within
  <2> QED BY <1>0, <2>1, <2>4, <2>7, <2>8, <2>9, <2>10, JobMoves, OneJob
<1>4. CASE UploadFails(j)
  <2>1. PICK x : x = [ex EXCEPT !.at = "collect", !.lost = TRUE, !.broken = TRUE]
    OBVIOUS
  <2>2. /\ ex \in Exporting /\ jobs' = [jobs EXCEPT ![j] = x]
        /\ UNCHANGED <<db, born, restored, objects, wiped>> /\ manifests' \subseteq Backups
    BY <1>0, <1>4, <2>1, OneJob, JobFacts DEF UploadFails, Is, Database, Stored
  <2>3. x \in Exporting
    BY <2>1, <2>2 DEF Exporting
  <2>4. /\ x.at = "collect" /\ x.lost /\ x.broken /\ x.snap = ex.snap /\ x.file = ex.file
        /\ x.ser = ex.ser /\ x.next = ex.next /\ x.err = ex.err /\ x.eof = ex.eof
    BY <2>1, <2>2 DEF Exporting
  <2>5. SerializerEnds(ex) /\ FileFollows(ex)
    BY <1>0, <2>2, OneJob
  <2>6. SerializerEnds(x) /\ FileFollows(x) /\ Checked(x) /\ ~Uploaded(x)
    BY <2>4, <2>5 DEF SerializerEnds, FileFollows, Checked, Uploaded
  <2> QED BY <2>2, <2>3, <2>4, <2>6, ExportSteps
<1>5. ASSUME Collect(j) \/ CommitExport(j) \/ PutManifest(j)
      PROVE  BackupInv'
  <2>1. /\ ex \in Exporting /\ ex.at \in {"collect", "commit", "manifest"}
        /\ UNCHANGED <<db, born, restored, objects, wiped>> /\ manifests' \subseteq Backups
    BY <1>0, <1>5, OneJob, JobFacts DEF Collect, CommitExport, PutManifest, Is, Database, Stored
  <2>2. \E at \in {"commit", "manifest", "done", "failed"} :
          Step(j, at) /\ (ex.at = "collect" /\ at # "failed" => ~ex.err)
    BY <1>5 DEF Collect, CommitExport, PutManifest, Is
  <2> QED BY <2>1, <2>2, ExporterSteps
<1>6. CASE ExportFails(j)
  <2>1. ex \in JobState /\ UNCHANGED <<db, born, restored, objects, wiped>>
        /\ manifests' \subseteq Backups /\ ex \in Exporting \cup Requested /\ Step(j, "failed")
    BY <1>0, <1>6, OneJob, JobFacts DEF ExportFails, Is, Database, Stored
  <2>2. CASE ex \in Exporting
    <3>1. ex.at \in {"collect", "commit", "manifest"}
      BY <1>6, <2>2, ExportFacts DEF ExportFails, Is
    <3> QED BY <2>1, <2>2, <3>1, ExporterSteps
  <2>3. CASE ex \in Requested
    <3>1. PICK x : x = [ex EXCEPT !.at = "failed"]
      OBVIOUS
    <3>2. x \in Requested /\ jobs' = [jobs EXCEPT ![j] = x]
      BY <2>1, <2>3, <3>1 DEF Requested, Step
    <3> QED BY <1>0, <2>1, <3>2, PlainIsFine, JobSteps
  <2> QED BY <2>1, <2>2, <2>3
<1> QED BY <1>1, <1>2, <1>3, <1>4, <1>5, <1>6

\* The restores: the rows they bring were born once.
LEMMA RestoreKeeps ==
  ASSUME BackupAssumption, BackupInv, NEW j \in Imports, RestoreNext(j)
  PROVE  BackupInv'
<1> DEFINE im == jobs[j]
<1>0. j \in Jobs
  BY DEF Jobs
<1>1. ASSUME NEW at \in {"done", "failed"}, Step(j, at), im \in Accepting \cup Upserting,
             UNCHANGED <<db, born, restored, objects, wiped>>, manifests' \subseteq Backups
      PROVE  BackupInv'
  <2>1. PICK x : x = [im EXCEPT !.at = at]
    OBVIOUS
  <2>2. jobs' = [jobs EXCEPT ![j] = x]
    BY <1>1, <2>1 DEF Step
  <2>3. CASE im \in Accepting
    <3>1. x \in Accepting
      BY <2>1, <2>3 DEF Accepting
    <3> QED BY <1>0, <1>1, <2>2, <3>1, PlainIsFine, JobSteps
  <2>4. CASE im \in Upserting
    <3>1. x \in Upserting /\ x.rows = im.rows
      BY <2>1, <2>4 DEF Upserting
    <3>2. Within(x.rows, born)
      BY <1>0, <2>4, <3>1, OneJob
    <3> QED BY <1>0, <1>1, <2>2, <3>1, <3>2, UpsertIsFine, JobSteps
  <2> QED BY <1>1, <2>3, <2>4
<1>2. ASSUME NEW b \in Backups, NEW dry \in BOOLEAN, Restore(j, b, dry) PROVE BackupInv'
  <2>1. PICK x : x = [kind |-> "restore", at |-> "pending", from |-> b, dry |-> dry]
    OBVIOUS
  <2>2. x \in Accepting
    BY <2>1 DEF Accepting
  <2>3. /\ jobs' = [jobs EXCEPT ![j] = x] /\ UNCHANGED <<db, born, restored, objects, wiped>>
        /\ manifests' \subseteq Backups
    BY <1>0, <1>2, <2>1, OneJob DEF Restore, Database, Stored
  <2> QED BY <1>0, <2>2, <2>3, PlainIsFine, JobSteps
<1>3. CASE Parse(j)
  <2> DEFINE file == objects[im.from]
  <2>1. /\ im \in Accepting /\ UNCHANGED <<db, born, restored, objects, wiped>>
        /\ manifests' \subseteq Backups
    BY <1>0, <1>3, OneJob, JobFacts DEF Parse, Is, Database, Stored
  <2>2. \/ Step(j, "done") \/ Step(j, "failed")
        \/ /\ file # NoFile
           /\ jobs' = [jobs EXCEPT ![j] = [kind |-> "restore", at |-> "upsert",
                                           rows |-> file.rows]]
    BY <1>3 DEF Parse
  <2>3. ASSUME file # NoFile,
               jobs' = [jobs EXCEPT ![j] = [kind |-> "restore", at |-> "upsert",
                                            rows |-> file.rows]]
        PROVE  BackupInv'
    <3>1. PICK x : x = [kind |-> "restore", at |-> "upsert", rows |-> file.rows]
      OBVIOUS
    <3>2. im.from \in Backups
      BY <2>1 DEF Accepting
    <3>3. file.rows \in RowSets /\ Within(file.rows, born)
      BY <1>0, <2>3, <3>2, OneJob DEF BackupInv, AllWasBorn
    <3> HIDE DEF file
    <3>4. x \in Upserting /\ Within(x.rows, born)
      BY <3>1, <3>3 DEF Upserting
    <3> QED BY <1>0, <2>1, <2>3, <3>1, <3>4, UpsertIsFine, JobSteps
  <2> QED BY <1>1, <2>1, <2>2, <2>3
<1>4. CASE Upsert(j)
  <2>1. /\ im \in Upserting /\ Step(j, "done")
        /\ db' = Union(db, im.rows) /\ restored' = Union(restored, im.rows)
        /\ UNCHANGED <<born, objects, manifests, wiped>>
    BY <1>0, <1>4, OneJob, JobFacts DEF Upsert, Is, Stored
  <2>2. PICK x : x = [im EXCEPT !.at = "done"]
    OBVIOUS
  <2>3. x \in Upserting /\ x.rows = im.rows /\ im.rows \in RowSets /\ Within(im.rows, born)
    BY <1>0, <2>1, <2>2, OneJob DEF Upserting
  <2>4. db \in RowSets /\ restored \in RowSets /\ Within(db, born) /\ Fine(j, x)
    BY <1>0, <2>3, OneJob, UpsertIsFine
  <2> HIDE DEF im
  <2>5. db' \in RowSets /\ restored' \in RowSets
    BY <2>1, <2>3, <2>4 DEF Union, RowSets
  <2>6. Drifts /\ Within(db', born')
    BY <2>1, <2>3, <2>4 DEF Drifts, Within, Union
  <2>7. AllWasBorn'
    BY <2>1, <2>6 DEF BackupInv, AllWasBorn, Within
  <2>8. Fine(j, x)' /\ jobs' = [jobs EXCEPT ![j] = x]
    BY <1>0, <2>1, <2>2, <2>4, <2>6, FineStays DEF Step, im
  <2> QED BY <1>0, <2>1, <2>5, <2>6, <2>7, <2>8, JobMoves, OneJob
<1>5. CASE RestoreFails(j)
  <2>1. /\ im \in Accepting \cup Upserting /\ Step(j, "failed")
        /\ UNCHANGED <<db, born, restored, objects, wiped>> /\ manifests' \subseteq Backups
    BY <1>0, <1>5, OneJob, JobFacts DEF RestoreFails, Is, Database, Stored
  <2> QED BY <1>1, <2>1
<1> QED BY <1>2, <1>3, <1>4, <1>5 DEF RestoreNext

\* A reset goes on while the database only loses rows and the objects are wiped.
LEMMA ResetSteps ==
  ASSUME BackupAssumption, BackupInv, NEW j \in Imports, NEW x \in Resetting,
         jobs' = [jobs EXCEPT ![j] = x], db' \in RowSets, Within(db', db),
         Within(x.start, born), ResetProgress(x)',
         UNCHANGED <<born, restored>>, manifests' \subseteq Backups,
         \/ UNCHANGED <<objects, wiped>>
         \/ /\ wiped' = Backups
            /\ objects' \in [Backups -> [rows : RowSets] \cup {NoFile}]
            /\ \A b \in Backups : objects'[b] \in {objects[b], NoFile}
  PROVE  BackupInv'
<1>0. j \in Jobs
  BY DEF Jobs
<1>1. Drifts /\ AllWasBorn'
  <2>1. Drifts /\ Within(db', born')
    BY <1>0, OneJob DEF Drifts, Within
  <2> QED BY <2>1 DEF BackupInv, AllWasBorn, Within
<1>2. Fine(j, x)'
  BY KindsAreApart DEF Fine, ExportFine, RestoreFine, ResetFine, JobState, Within
<1>3. /\ objects' \in [Backups -> [rows : RowSets] \cup {NoFile}] /\ wiped' \subseteq Backups
      /\ born' \in RowSets /\ restored' \in RowSets
      /\ \A b \in Backups \ {j} : b \notin wiped' => b \notin wiped /\ objects'[b] = objects[b]
  BY <1>0, OneJob
<1> QED BY <1>0, <1>1, <1>2, <1>3, JobMoves

\* The reset, table by table.
LEMMA ResetKeeps ==
  ASSUME BackupAssumption, BackupInv, NEW j \in Imports, ResetNext(j)
  PROVE  BackupInv'
<1> DEFINE re == jobs[j]
<1>0. j \in Jobs
  BY DEF Jobs
<1>00. /\ db \in RowSets /\ Within(db, born) /\ Len(Tables) \in Nat
       /\ manifests \subseteq Backups
       /\ objects \in [Backups -> [rows : RowSets] \cup {NoFile}]
  BY <1>0, OneJob, TableFacts
<1>1. CASE Reset(j)
  <2>1. PICK x : x = [kind |-> "reset", at |-> "whatsapp", next |-> 1, start |-> db,
                      taken |-> Empty]
    OBVIOUS
  <2>2. Empty \in RowSets /\ 1 \in 1 .. Len(Tables) + 1
    BY <1>00 DEF Empty, RowSets
  <2>3. x \in Resetting /\ Within(x.start, born)
    BY <1>00, <2>1, <2>2 DEF Resetting
  <2>4. /\ jobs' = [jobs EXCEPT ![j] = x] /\ manifests' \subseteq Backups
        /\ UNCHANGED <<db, born, restored, objects, wiped>>
    BY <1>00, <1>1, <2>1 DEF Reset, Database, Stored
  <2>5. ResetProgress(x)
    BY <1>00, <2>1 DEF ResetProgress
  <2> QED BY <1>0, <2>3, <2>4, <2>5, ResetIsFine, JobSteps
<1>2. ASSUME re \in Resetting
      PROVE  /\ Within(re.start, born) /\ ResetProgress(re)
             /\ re.start \in RowSets /\ re.taken \in RowSets /\ re.next \in 1 .. Len(Tables) + 1
  BY <1>0, <1>2, OneJob, ResetFacts
<1>3. CASE DeleteWhatsapp(j)
  <2> DEFINE i == re.next
             t == Tables[i]
  <2>1. /\ re \in Resetting /\ re.at = "whatsapp" /\ manifests' \subseteq Backups
        /\ UNCHANGED <<born, restored, objects, wiped>>
    BY <1>0, <1>00, <1>3, OneJob, JobFacts DEF DeleteWhatsapp, Is, Stored
  <2>2. CASE i > Len(Tables)
    <3>1. PICK x : x = [re EXCEPT !.at = "tenant", !.next = 1]
      OBVIOUS
    <3>2. jobs' = [jobs EXCEPT ![j] = x] /\ UNCHANGED db
      BY <1>3, <2>2, <3>1 DEF DeleteWhatsapp
    <3>3. /\ x \in Resetting /\ x.at = "tenant" /\ x.next = 1 /\ x.start = re.start
      <4>1. 1 \in 1 .. Len(Tables) + 1
        BY <1>00
      <4>2. PICK y : y = [re EXCEPT !.at = "tenant"]
        OBVIOUS
      <4>3. y \in Resetting /\ y.at = "tenant" /\ y.start = re.start
        BY <2>1, <4>2 DEF Resetting
      <4>4. x = [y EXCEPT !.next = 1]
        BY <3>1, <4>2
      <4> QED BY <4>1, <4>3, <4>4 DEF Resetting
    <3>4. \A k \in 1 .. Len(Tables) : k < re.next /\ ~(k < 1)
      BY <1>00, <1>2, <2>1, <2>2
    <3>5. ResetProgress(x)
      BY <1>2, <2>1, <3>3, <3>4 DEF ResetProgress, Cleared
    <3> QED BY <1>0, <1>2, <2>1, <3>2, <3>3, <3>5, ResetIsFine, JobSteps
  <2>3. CASE i <= Len(Tables)
    <3>1. PICK x : x = [re EXCEPT !.next = i + 1]
      OBVIOUS
    <3>2. /\ jobs' = [jobs EXCEPT ![j] = x]
          /\ db' = IF t \in WhatsappTables THEN [db EXCEPT ![t] = {}] ELSE db
      BY <1>3, <1>2, <1>00, <2>1, <2>3, <3>1 DEF DeleteWhatsapp
    <3>3. i \in 1 .. Len(Tables) /\ i + 1 \in 1 .. Len(Tables) + 1 /\ t \in Table
      BY <1>00, <1>2, <2>1, <2>3, TableFacts
    <3>4. /\ x \in Resetting /\ x.at = "whatsapp" /\ x.next = i + 1 /\ x.start = re.start
      BY <2>1, <3>1, <3>3 DEF Resetting
    <3> HIDE DEF re, i, t
    <3>5. db' \in RowSets /\ Within(db', db) /\ (t \in WhatsappTables => db'[t] = {})
      BY <1>00, <3>2, <3>3 DEF RowSets, Within
    <3>6. \A k \in 1 .. Len(Tables) : k < x.next => k < re.next \/ Tables[k] = t
      BY <1>00, <3>3, <3>4 DEF i, t
    <3>7. \A k \in 1 .. Len(Tables) : Tables[k] \in Table
      BY TableFacts
    <3>8. ResetProgress(x)'
      BY <1>2, <2>1, <3>4, <3>5, <3>6, <3>7 DEF ResetProgress, Cleared, Within
    <3> QED BY <1>2, <2>1, <3>2, <3>4, <3>5, <3>8, ResetSteps
  <2>4. i > Len(Tables) \/ i <= Len(Tables)
    BY <1>00, <1>2, <2>1
  <2> QED BY <2>2, <2>3, <2>4
<1>4. CASE DeleteTenant(j)
  <2> DEFINE i == re.next
             t == Tables[i]
  <2>1. /\ re \in Resetting /\ re.at = "tenant" /\ manifests' \subseteq Backups
        /\ UNCHANGED <<db, born, restored, objects, wiped>>
    BY <1>0, <1>00, <1>4, OneJob, JobFacts DEF DeleteTenant, Is, Stored, Database
  <2>2. CASE i > Len(Tables)
    <3>1. PICK x : x = [re EXCEPT !.at = "commit"]
      OBVIOUS
    <3>2. jobs' = [jobs EXCEPT ![j] = x]
      BY <1>4, <2>2, <3>1 DEF DeleteTenant
    <3>3. /\ x \in Resetting /\ x.at = "commit" /\ x.start = re.start /\ x.taken = re.taken
      BY <2>1, <3>1 DEF Resetting
    <3>4. \A k \in 1 .. Len(Tables) : k < re.next
      BY <1>00, <1>2, <2>1, <2>2
    <3>5. ResetProgress(x)
      BY <1>2, <2>1, <3>3, <3>4 DEF ResetProgress, Cleared, Taken
    <3> QED BY <1>0, <1>2, <2>1, <3>2, <3>3, <3>5, ResetIsFine, JobSteps
  <2>3. CASE i <= Len(Tables)
    <3> DEFINE s == IF t \in WhatsappTables THEN {} ELSE db[t]
               f == [re.taken EXCEPT ![t] = s]
    <3>1. PICK x : x = [re EXCEPT !.taken = f, !.next = i + 1]
      OBVIOUS
    <3>2. jobs' = [jobs EXCEPT ![j].next = i + 1, ![j].taken[t] = s]
      BY <1>4, <1>2, <1>00, <2>1, <2>3 DEF DeleteTenant
    <3>3. i \in 1 .. Len(Tables) /\ i + 1 \in 1 .. Len(Tables) + 1 /\ t \in Table
      BY <1>00, <1>2, <2>1, <2>3, TableFacts
    <3>4. s \subseteq Rows
      BY <1>00, <3>3 DEF RowSets
    <3>5. jobs' = [jobs EXCEPT ![j] = x]
      <4> HIDE DEF s, i, t
      <4>1. jobs' = [jobs EXCEPT ![j] = [[jobs[j] EXCEPT !.next = i + 1] EXCEPT !.taken[t] = s]]
        BY <3>2
      <4>2. [[re EXCEPT !.next = i + 1] EXCEPT !.taken[t] = s] = x
        BY <2>1, <3>1 DEF Resetting
      <4> QED BY <4>1, <4>2
    <3>6. f \in RowSets /\ f[t] = s /\ \A q \in Table \ {t} : f[q] = re.taken[q]
      <4> HIDE DEF s, re, i, t
      <4> QED BY <1>2, <2>1, <3>3, <3>4 DEF RowSets
    <3> HIDE DEF f, s, i
    <3>7. x \in Resetting /\ x.at = "tenant" /\ x.next = i + 1 /\ x.start = re.start /\ x.taken = f
      BY <2>1, <3>1, <3>3, <3>6 DEF Resetting
    <3> HIDE DEF re
    <3>8. \A k \in 1 .. Len(Tables) : k < x.next => k < re.next \/ Tables[k] = t
      BY <1>00, <3>3, <3>7 DEF i
    <3>9. \A k \in 1 .. Len(Tables) : Tables[k] \in Table /\ (Tables[k] = t => ~(k < re.next))
      BY <1>00, <3>3, TableFacts DEF i
    <3> HIDE DEF t
    <3>10. ResetProgress(x)
      <4> SUFFICES ASSUME NEW k \in 1 .. Len(Tables)
                   PROVE  LET q == Tables[k] IN
                          /\ q \in WhatsappTables => Cleared(x, q)
                          /\ k < x.next => Taken(x, q)
        BY <3>7 DEF ResetProgress
      <4>1. Tables[k] \in WhatsappTables => Cleared(re, Tables[k])
        BY <1>2, <2>1 DEF ResetProgress
      <4>2. k < re.next => Taken(re, Tables[k])
        BY <1>2, <2>1 DEF ResetProgress
      <4>3. CASE Tables[k] = t
        BY <3>6, <3>7, <4>1, <4>3 DEF Cleared, Taken, s
      <4>4. CASE Tables[k] # t
        BY <3>6, <3>7, <3>8, <3>9, <4>1, <4>2, <4>4 DEF Cleared, Taken
      <4> QED BY <4>3, <4>4
    <3> QED BY <1>0, <1>2, <2>1, <3>5, <3>7, <3>10, ResetIsFine, JobSteps
  <2>4. i > Len(Tables) \/ i <= Len(Tables)
    BY <1>00, <1>2, <2>1
  <2> QED BY <2>2, <2>3, <2>4
<1>5. ASSUME NEW answered \in BOOLEAN, CommitReset(j, answered) PROVE BackupInv'
  <2>1. /\ re \in Resetting /\ re.at = "commit" /\ manifests' \subseteq Backups
        /\ UNCHANGED <<born, restored, objects, wiped>> /\ db' = Minus(db, re.taken)
    BY <1>0, <1>00, <1>5, OneJob, JobFacts DEF CommitReset, Is, Stored
  <2>2. PICK at \in {"objects", "failed"} : Step(j, at)
    BY <1>5 DEF CommitReset
  <2>3. PICK x : x = [re EXCEPT !.at = at]
    OBVIOUS
  <2>4. x \in Resetting /\ x.at = at /\ x.start = re.start
    BY <2>1, <2>3 DEF Resetting
  <2>5. jobs' = [jobs EXCEPT ![j] = x]
    BY <2>2, <2>3 DEF Step
  <2> HIDE DEF re
  <2>6. db' \in RowSets /\ Within(db', db) /\ \A t \in Table : db'[t] = db[t] \ re.taken[t]
    BY <1>00, <2>1 DEF RowSets, Within, Minus
  <2>7. \A k \in 1 .. Len(Tables) : Tables[k] \in Table /\ Taken(re, Tables[k])
    BY <1>2, <2>1, TableFacts DEF ResetProgress
  <2>8. ResetProgress(x)'
    BY <2>1, <2>4, <2>6, <2>7 DEF ResetProgress, Cleared, Taken
  <2> QED BY <1>2, <2>1, <2>4, <2>5, <2>6, <2>8, ResetSteps
<1>6. CASE DeleteObjects(j)
  <2>1. PICK kept, left \in {{}, Backups} :
          /\ re \in Resetting /\ re.at = "objects" /\ Step(j, "done") /\ wiped' = Backups
          /\ objects' = [b \in Backups |-> IF b \in kept THEN objects[b] ELSE NoFile]
          /\ manifests' = manifests \cap left /\ UNCHANGED <<db, born, restored>>
    BY <1>0, <1>6, OneJob, JobFacts DEF DeleteObjects, Is, Database
  <2>2. PICK x : x = [re EXCEPT !.at = "done"]
    OBVIOUS
  <2>3. x \in Resetting /\ x.at = "done" /\ x.start = re.start
    BY <2>1, <2>2 DEF Resetting
  <2>4. jobs' = [jobs EXCEPT ![j] = x]
    BY <2>1, <2>2 DEF Step
  <2>5. ResetProgress(x)'
    BY <1>2, <2>1, <2>3 DEF ResetProgress, Cleared
  <2>6. /\ objects' \in [Backups -> [rows : RowSets] \cup {NoFile}]
        /\ \A b \in Backups : objects'[b] \in {objects[b], NoFile}
        /\ manifests' \subseteq Backups /\ db' \in RowSets /\ Within(db', db)
    BY <1>00, <2>1 DEF Within
  <2> HIDE DEF re
  <2> QED BY <1>2, <2>1, <2>3, <2>4, <2>5, <2>6, ResetSteps
<1>7. CASE ResetFails(j)
  <2>1. /\ re \in Resetting /\ Step(j, "failed")
        /\ UNCHANGED <<db, born, restored, objects, wiped>> /\ manifests' \subseteq Backups
    BY <1>0, <1>00, <1>7, OneJob, JobFacts DEF ResetFails, Is, Database, Stored
  <2>2. PICK x : x = [re EXCEPT !.at = "failed"]
    OBVIOUS
  <2>3. x \in Resetting /\ x.at = "failed" /\ x.start = re.start
    BY <2>1, <2>2 DEF Resetting
  <2>4. jobs' = [jobs EXCEPT ![j] = x] /\ ResetProgress(x)
    BY <2>1, <2>2, <2>3 DEF Step, ResetProgress
  <2> QED BY <1>0, <1>2, <2>1, <2>3, <2>4, ResetIsFine, JobSteps
<1> QED BY <1>1, <1>3, <1>4, <1>5, <1>6, <1>7 DEF ResetNext

\* The store of jobs, the traffic and a crash.
LEMMA OthersKeep ==
  ASSUME BackupAssumption, BackupInv,
         (\E j \in Jobs : Purge(j)) \/ (\E t \in Table : Traffic(t)) \/ Crash
  PROVE  BackupInv'
<1>0. \A j \in Jobs : Fine(j, Nothing)
  BY PlainIsFine
<1>1. ASSUME NEW j \in Jobs, Purge(j) PROVE BackupInv'
  BY <1>0, <1>1, JobSteps, OneJob DEF Purge, Database, Stored
<1>2. ASSUME NEW t \in Table, Traffic(t) PROVE BackupInv'
  <2>1. PICK r \in Rows \ born[t] :
          /\ db' = [db EXCEPT ![t] = @ \cup {r}] /\ born' = [born EXCEPT ![t] = @ \cup {r}]
          /\ UNCHANGED <<jobs, restored, objects, manifests, wiped>>
    BY <1>2 DEF Traffic, Stored
  <2>2. db \in RowSets /\ born \in RowSets /\ Within(db, born)
    BY DEF BackupInv, BackupTypeOK, AllWasBorn, RowSets
  <2>3. db' \in RowSets /\ born' \in RowSets /\ Within(born, born') /\ Within(db', born')
    BY <2>1, <2>2 DEF RowSets, Within
  <2>4. Drifts
    BY <2>1, <2>2, <2>3 DEF Drifts, Within, RowSets
  <2>5. AllWasBorn'
    BY <2>1, <2>3 DEF BackupInv, AllWasBorn, Within
  <2>6. BackupTypeOK'
    BY <2>1, <2>3 DEF BackupInv, BackupTypeOK, RowSets
  <2>7. ASSUME NEW j \in Jobs PROVE Fine(j, jobs[j])'
    <3>1. PICK z : z = jobs[j]
      OBVIOUS
    <3>2. z = jobs'[j] /\ Fine(j, z)
      BY <2>1, <3>1 DEF BackupInv, JobsAreFine
    <3>3. Fine(j, z)'
      BY <2>1, <2>4, <3>2, FineStays
    <3> QED BY <3>2, <3>3 DEF Fine, ExportFine, RestoreFine, ResetFine, ResetProgress, Cleared, Taken
  <2> QED BY <2>1, <2>5, <2>6, <2>7 DEF BackupInv, JobsAreFine
<1>3. CASE Crash
  <2>1. jobs' = [j \in Jobs |-> Nothing] /\ UNCHANGED <<db, born, restored, objects, manifests, wiped>>
    BY <1>3 DEF Crash, Database, Stored
  <2>2. BackupTypeOK' /\ AllWasBorn'
    BY <2>1 DEF BackupInv, BackupTypeOK, AllWasBorn, Within
  <2>3. JobsAreFine'
    <3>1. \A j \in Jobs : jobs'[j] = Nothing
      BY <2>1
    <3>2. Nothing \in JobState /\ Nothing \notin Exporting /\ Nothing \notin Upserting
          /\ Nothing \notin Resetting
      BY KindsAreApart DEF JobState
    <3> QED BY <2>1, <3>1, <3>2 DEF JobsAreFine, Fine, ExportFine, RestoreFine, ResetFine
  <2> QED BY <2>2, <2>3 DEF BackupInv
<1> QED BY <1>1, <1>2, <1>3

\* The inductive invariant of BackupJobs, in three steps.
LEMMA BackupInvInit == BackupInit => BackupInv
<1> SUFFICES ASSUME BackupInit PROVE BackupInv
  OBVIOUS
<1>1. BackupTypeOK /\ AllWasBorn
  BY DEF BackupInit, BackupTypeOK, AllWasBorn, Within, Empty
<1>2. \A j \in Jobs : jobs[j] = Nothing /\ Fine(j, Nothing)
  BY PlainIsFine DEF BackupInit
<1>3. JobsAreFine
  BY <1>2 DEF JobsAreFine, BackupInit
<1> QED BY <1>1, <1>3 DEF BackupInv

LEMMA NextKeepsBackupInv == BackupAssumption /\ BackupInv /\ [BackupNext]_backupVars => BackupInv'
<1> SUFFICES ASSUME BackupAssumption, BackupInv, [BackupNext]_backupVars PROVE BackupInv'
  OBVIOUS
<1>1. ASSUME NEW j \in Backups, ExportNext(j) PROVE BackupInv'
  BY <1>1, SerializerKeeps, ExporterKeeps DEF ExportNext
<1>2. CASE UNCHANGED backupVars
  BY <1>2 DEF backupVars, BackupInv, BackupTypeOK, AllWasBorn, JobsAreFine, Within, Fine,
              ExportFine, RestoreFine, ResetFine, ResetProgress, Cleared, Taken
<1> QED BY <1>1, <1>2, RestoreKeeps, ResetKeeps, OthersKeep DEF BackupNext

\* Every behaviour of the jobs keeps the invariant.
LEMMA BackupInvHolds == BackupSpec => []BackupInv
BY BackupAssumption, BackupInvInit, NextKeepsBackupInv, PTL DEF BackupSpec

\* The invariant says what the runs check of the jobs.
LEMMA BackupInvSays ==
  ASSUME BackupAssumption, BackupInv
  PROVE  DoneExportIsSnapshot /\ NoStuckSerializer /\ DoneResetForgets
<1>1. ASSUME NEW j \in Backups, Is(j, "export", "done"), ~jobs[j].lost, j \notin wiped
      PROVE  objects[j] = [rows |-> jobs[j].snap]
  <2> DEFINE ex == jobs[j]
  <2>1. /\ ex \in Exporting /\ FileFollows(ex) /\ Checked(ex) /\ Uploaded(ex)
        /\ objects[j] = [rows |-> ex.file]
    BY <1>1, OneJob, JobFacts DEF Is, Jobs, Uploaded
  <2>2. ex.next = Len(Tables) + 1
    BY <1>1, <2>1 DEF Checked, FileFollows, Is
  <2>3. ex.file \in RowSets /\ ex.snap \in RowSets
    BY <2>1, ExportFacts
  <2> HIDE DEF ex
  <2>4. ASSUME NEW t \in Table PROVE ex.file[t] = ex.snap[t]
    <3>1. PICK i \in 1 .. Len(Tables) : t = Tables[i]
      BY TableFacts
    <3>2. i < ex.next
      BY <2>2, TableFacts
    <3> QED BY <2>1, <3>1, <3>2 DEF FileFollows
  <2>5. ex.file = ex.snap
    BY <2>3, <2>4 DEF RowSets
  <2> QED BY <2>1, <2>5 DEF ex
<1>2. ASSUME NEW j \in Jobs, Over(j), "ser" \in DOMAIN jobs[j], jobs[j].ser = "write"
      PROVE  jobs[j].broken
  BY <1>2, OneJob, JobFacts DEF Over, SerializerEnds
<1>3. ASSUME NEW j \in Jobs, Is(j, "reset", "done") \/ Is(j, "reset", "objects"), NEW t \in Table
      PROVE  jobs[j].start[t] \cap db[t] \subseteq restored[t]
  <2>1. ResetProgress(jobs[j]) /\ jobs[j].at \in {"objects", "done"}
    BY <1>3, OneJob, JobFacts DEF Is
  <2>2. PICK i \in 1 .. Len(Tables) : t = Tables[i]
    BY TableFacts
  <2> QED BY <2>1, <2>2 DEF ResetProgress, Cleared
<1> QED BY <1>1, <1>2, <1>3 DEF DoneExportIsSnapshot, NoStuckSerializer, DoneResetForgets

\* The state of the database, the object store and the jobs is what it should be,
\* every state of a job with the fields it has.
THEOREM BackupTypeCorrect == BackupSpec => []BackupTypeOK
BY BackupInvHolds, PTL DEF BackupInv

\* export.go:294-306: the object of an export that ends done is the snapshot,
\* whole and of one instant, whatever its serializer met and whatever ran beside
\* it; a failed upload and a reset are the exceptions.
THEOREM ExportsAreSnapshots == BackupSpec => []DoneExportIsSnapshot
BY BackupAssumption, BackupInvHolds, BackupInvSays, PTL

\* export.go:286-291: whichever way an export ends, its serializer ends too or has
\* a broken pipe that its next write returns from.
THEOREM SerializersAreReleased == BackupSpec => []NoStuckSerializer
BY BackupAssumption, BackupInvHolds, BackupInvSays, PTL

\* reset.go:92-160: what a reset that reached the object store was to remove is
\* gone, of every table, unless a restore brought it back.
THEOREM ResetsForget == BackupSpec => []DoneResetForgets
BY BackupAssumption, BackupInvHolds, BackupInvSays, PTL

-----------------------------------------------------------------------------
(* ChannelRequests.                                                        *)

\* The answers of the API, kept typed.
AnswersTyped == answer \in [Asks -> {"none", "unauthorized", "error", "ok"}]

\* Every route's action, once it has passed Supports, is one that the adapter of
\* its channel does not refuse: the two tables agree.
LEMMA TablesAgree ==
  ASSUME NEW c, NEW x \in {"reaction", "edit", "revoke"}, Supports(c, x)
  PROVE  x \notin RefusedActions[c]
<1>1. CASE x = "reaction"
  BY <1>1 DEF Supports, Channels, RefusedActions, WabaRefuses, InstagramRefuses,
              MessengerRefuses, TelegramRefuses, WhatsmeowRefuses
<1>2. CASE x = "edit"
  BY <1>2 DEF Supports, Channels, requiredCapabilityForAction, Capabilities,
              WABACapabilities, InstagramCapabilities, MessengerCapabilities,
              TelegramCapabilities, WhatsmeowCapabilities, RefusedActions, WabaRefuses,
              InstagramRefuses, MessengerRefuses, TelegramRefuses, WhatsmeowRefuses
<1>3. CASE x = "revoke"
  BY <1>3 DEF Supports, Channels, requiredCapabilityForAction, Capabilities,
              WABACapabilities, InstagramCapabilities, MessengerCapabilities,
              TelegramCapabilities, WhatsmeowCapabilities, RefusedActions, WabaRefuses,
              InstagramRefuses, MessengerRefuses, TelegramRefuses, WhatsmeowRefuses
<1> QED BY <1>1, <1>2, <1>3

\* One request that is answered, rightly, leaves the others as they are.
LEMMA ReplyKeeps ==
  ASSUME AnswersTyped, AcceptedIsSupported,
         NEW a \in Asks, NEW s \in {"none", "unauthorized", "error", "ok"}, Reply(a, s),
         s = "ok" /\ ActionOf[What[a].via] # None =>
           ActionOf[What[a].via] \notin RefusedActions[What[a].channel]
  PROVE  AnswersTyped' /\ AcceptedIsSupported'
BY DEF AnswersTyped, AcceptedIsSupported, Reply

\* A route of an action accepts what Supports lets through.
LEMMA ActionRouteKeeps ==
  ASSUME AnswersTyped, AcceptedIsSupported, NEW a \in Asks,
         NEW via \in {"reaction", "patch", "delete"}, NEW x, x = ActionOf[via],
         ActionRoute(a, via, x)
  PROVE  AnswersTyped' /\ AcceptedIsSupported'
<1>1. What[a].via = via
  BY DEF ActionRoute
<1>2. x \in {"reaction", "edit", "revoke"}
  BY DEF ActionOf
<1>3. CASE SendAction(a, x)
  <2>1. Supports(What[a].channel, x) /\ Reply(a, "ok")
    BY <1>3 DEF SendAction
  <2>2. x \notin RefusedActions[What[a].channel]
    BY <1>2, <2>1, TablesAgree
  <2> QED BY <1>1, <2>1, <2>2, ReplyKeeps
<1>4. CASE SendActionFails(a, x)
  BY <1>4, ReplyKeeps DEF SendActionFails, Reject
<1> QED BY <1>3, <1>4 DEF ActionRoute

\* The inductive step.
LEMMA NextKeepsAccepted ==
  AnswersTyped /\ AcceptedIsSupported /\ [RequestNext]_requestVars
    => (AnswersTyped /\ AcceptedIsSupported)'
<1> SUFFICES ASSUME AnswersTyped, AcceptedIsSupported, [RequestNext]_requestVars
             PROVE  AnswersTyped' /\ AcceptedIsSupported'
  OBVIOUS
<1>1. ASSUME NEW a \in Asks, Unauthorized(a)
      PROVE  AnswersTyped' /\ AcceptedIsSupported'
  BY <1>1, ReplyKeeps DEF Unauthorized, Reject
<1>2. ASSUME NEW a \in Asks, PostMessage(a)
      PROVE  AnswersTyped' /\ AcceptedIsSupported'
  <2>1. ActionOf[What[a].via] = None /\ Reply(a, "ok")
    BY <1>2 DEF PostMessage, ActionOf
  <2> QED BY <2>1, ReplyKeeps
<1>3. ASSUME NEW a \in Asks, PostMessageFails(a)
      PROVE  AnswersTyped' /\ AcceptedIsSupported'
  BY <1>3, ReplyKeeps DEF PostMessageFails, Reject
<1>4. ASSUME NEW a \in Asks, PostReaction(a) \/ PatchMessage(a) \/ DeleteMessage(a)
      PROVE  AnswersTyped' /\ AcceptedIsSupported'
  <2>1. /\ ActionOf["reaction"] = "reaction" /\ ActionOf["patch"] = "edit"
        /\ ActionOf["delete"] = "revoke"
    BY DEF ActionOf
  <2> QED BY <1>4, <2>1, ActionRouteKeeps DEF PostReaction, PatchMessage, DeleteMessage
<1>5. ASSUME UNCHANGED answer
      PROVE  AnswersTyped' /\ AcceptedIsSupported'
  BY <1>5 DEF AnswersTyped, AcceptedIsSupported
<1>6. (\E a \in Asks : Process(a)) \/ Pass \/ UNCHANGED requestVars => UNCHANGED answer
  BY DEF Process, Pass, requestVars
<1> QED BY <1>1, <1>2, <1>3, <1>4, <1>5, <1>6 DEF RequestNext

\* What the API accepts, the adapter of the channel can do: for any set of
\* requests, SendAction's capabilities (send.go:134-143) rule out every action
\* that doAction of the channel answers with an error.
THEOREM AcceptedActionsAreSupported == RequestSpec => []AcceptedIsSupported
<1>1. RequestInit => AnswersTyped /\ AcceptedIsSupported
  BY DEF RequestInit, AnswersTyped, AcceptedIsSupported
<1> QED BY <1>1, NextKeepsAccepted, PTL DEF RequestSpec

-----------------------------------------------------------------------------
(* SettingsCache.                                                          *)

StoredRow == [val : Values, kek : {"old", "new", "none"}]

\* What a request has in hand, by the lock it comes from or goes to.
Read    == [at : {"got"}, row : StoredRow, since : 0 .. MaxNow]
Written == [at : {"set"}, val : Values, since : 0 .. MaxNow]
Deleted == [at : {"deleted"}, since : 0 .. MaxNow]

Busy(c) == req[c] \in Read \cup Written \cup Deleted

SettingsTyped ==
  /\ stored \in StoredRow
  /\ cache \in [val : Values, at : -1 .. MaxNow]
  /\ req \in [Clients -> {Resting} \cup Read \cup Written \cup Deleted]
  /\ sealer \in {"old", "new"}
  /\ watch \in -1 .. Cap /\ time \in 0 .. MaxNow /\ last \in Values
  /\ replaced \in [Values -> 0 .. MaxNow] /\ served \in 0 .. MaxNow

RequestsAreShort ==
  \A c \in Clients : Busy(c) => req[c].since <= time /\ time <= req[c].since + Slow

ReplacedBefore == \A v \in Values : replaced[v] <= time

\* Value v was what the database had at tick n, or has been since.
CurrentAt(v, n) == stored.val = v \/ replaced[v] >= n

ReadWasCurrent ==
  \A c \in Clients : req[c] \in Read => CurrentAt(req[c].row.val, req[c].since)

WrittenWasCurrent ==
  \A c \in Clients : req[c] \in Written => CurrentAt(req[c].val, req[c].since)

\* What is cached was current at most Slow ticks before it was cached.
CachedWasCurrent ==
  cache.at >= 0 => cache.at <= time /\ CurrentAt(cache.val, cache.at - Slow)

SettingsInv ==
  /\ SettingsTyped /\ RequestsAreShort /\ ReplacedBefore
  /\ ReadWasCurrent /\ WrittenWasCurrent /\ CachedWasCurrent
  /\ StaleIsBounded

LEMMA InitSettingsInv == SettingsInit => SettingsInv
<1> SUFFICES ASSUME SettingsInit PROVE SettingsInv
  OBVIOUS
<1>1. /\ 0 \in 0 .. MaxNow /\ 0 \in Values /\ -1 \in -1 .. MaxNow /\ -1 \in -1 .. Cap
  BY SettingsAssumption DEF Values
<1>2. SettingsTyped
  BY <1>1 DEF SettingsInit, SettingsTyped, StoredRow, NoRow, NoEntry
<1>3. Resting \notin Read \cup Written \cup Deleted
  BY DEF Resting, Read, Written, Deleted
<1>4. RequestsAreShort /\ ReadWasCurrent /\ WrittenWasCurrent
  BY <1>3 DEF SettingsInit, RequestsAreShort, ReadWasCurrent, WrittenWasCurrent, Busy
<1>5. ReplacedBefore /\ CachedWasCurrent /\ StaleIsBounded
  BY DEF SettingsInit, ReplacedBefore, CachedWasCurrent, StaleIsBounded, NoEntry
<1> QED BY <1>2, <1>4, <1>5 DEF SettingsInv

\* The step of a request tells what it has in hand.
LEMMA RequestShapes ==
  ASSUME SettingsTyped, NEW c \in Clients
  PROVE  /\ At(c, "rest") <=> req[c] = Resting
         /\ At(c, "got") <=> req[c] \in Read
         /\ At(c, "set") <=> req[c] \in Written
         /\ At(c, "deleted") <=> req[c] \in Deleted
         /\ Busy(c) <=> ~At(c, "rest")
BY DEF SettingsTyped, Resting, Read, Written, Deleted, At, Busy

\* A value that was current at tick n is served at an age of at most time - n.
LEMMA AgeIsBounded ==
  ASSUME SettingsInv, NEW v \in Values, NEW n \in Int, CurrentAt(v, n), time < n + TTL + Slow
  PROVE  Age(v) \in 0 .. MaxNow /\ (Age(v) = 0 \/ Age(v) < TTL + Slow)
<1>1. /\ time \in 0 .. MaxNow /\ replaced[v] \in 0 .. MaxNow /\ replaced[v] <= time
  BY DEF SettingsInv, SettingsTyped, ReplacedBefore
<1>2. TTL \in Nat /\ Slow \in Nat /\ MaxNow \in Nat
  BY SettingsAssumption
<1>3. CASE stored.val = v
  BY <1>2, <1>3 DEF Age
<1>4. CASE stored.val # v /\ replaced[v] >= n
  <2>1. Age(v) = time - replaced[v]
    BY <1>4 DEF Age
  <2> QED BY <1>1, <1>2, <1>4, <2>1
<1> QED BY <1>3, <1>4 DEF CurrentAt

\* A request that begins now with what is current now, or one that ends.
LEMMA RequestChanged ==
  ASSUME SettingsInv, NEW c \in Clients,
         NEW r \in {Resting} \cup Read \cup Written \cup Deleted,
         req' = [req EXCEPT ![c] = r], UNCHANGED <<stored, time, replaced>>,
         r # Resting => r.since = time,
         r \in Read => r.row.val = stored.val,
         r \in Written => r.val = stored.val
  PROVE  /\ req' \in [Clients -> {Resting} \cup Read \cup Written \cup Deleted]
         /\ RequestsAreShort' /\ ReadWasCurrent' /\ WrittenWasCurrent' /\ ReplacedBefore'
<1>1. req'[c] = r /\ \A d \in Clients : d # c => req'[d] = req[d]
  BY DEF SettingsInv, SettingsTyped
<1>2. req' \in [Clients -> {Resting} \cup Read \cup Written \cup Deleted]
  BY DEF SettingsInv, SettingsTyped
<1>3. Resting \notin Read \cup Written \cup Deleted
  BY DEF Resting, Read, Written, Deleted
<1>4. time \in Nat /\ time <= time + Slow
  BY SettingsAssumption DEF SettingsInv, SettingsTyped
<1>5. RequestsAreShort'
  BY <1>1, <1>3, <1>4 DEF SettingsInv, RequestsAreShort, Busy
<1>6. ReadWasCurrent'
  BY <1>1 DEF SettingsInv, ReadWasCurrent, CurrentAt
<1>7. WrittenWasCurrent'
  BY <1>1 DEF SettingsInv, WrittenWasCurrent, CurrentAt
<1>8. ReplacedBefore'
  BY DEF SettingsInv, ReplacedBefore
<1> QED BY <1>2, <1>5, <1>6, <1>7, <1>8

LEMMA HitKeeps ==
  ASSUME SettingsInv, NEW c \in Clients, Hit(c)
  PROVE  SettingsInv'
<1>1. /\ served' = Age(cache.val) /\ cache.at >= 0 /\ time - cache.at < TTL
      /\ UNCHANGED <<stored, cache, req, sealer, watch, time, last, replaced>>
  BY DEF Hit, Fresh
<1>2. cache.val \in Values /\ cache.at \in Int /\ time \in Int
  BY DEF SettingsInv, SettingsTyped
<1>3. CurrentAt(cache.val, cache.at - Slow)
  BY <1>1 DEF SettingsInv, CachedWasCurrent
<1>4. cache.at - Slow \in Int /\ time < (cache.at - Slow) + TTL + Slow
  BY <1>1, <1>2, SettingsAssumption
<1>5. served' \in 0 .. MaxNow /\ StaleIsBounded'
  BY <1>1, <1>2, <1>3, <1>4, AgeIsBounded DEF StaleIsBounded
<1> QED BY <1>1, <1>5 DEF SettingsInv, SettingsTyped, RequestsAreShort, ReplacedBefore,
           ReadWasCurrent, WrittenWasCurrent, CachedWasCurrent, CurrentAt, Busy

LEMMA ReadRowKeeps ==
  ASSUME SettingsInv, NEW c \in Clients, ReadRow(c)
  PROVE  SettingsInv'
<1> DEFINE r == [at |-> "got", row |-> stored, since |-> time]
<1>1. r \in Read /\ r \notin Written /\ r.since = time /\ r.row.val = stored.val
  BY DEF SettingsInv, SettingsTyped, Read, Written
<1>2. /\ req' = [req EXCEPT ![c] = r]
      /\ UNCHANGED <<stored, cache, sealer, watch, time, last, replaced, served>>
  BY DEF ReadRow
<1> HIDE DEF r
<1>3. /\ req' \in [Clients -> {Resting} \cup Read \cup Written \cup Deleted]
      /\ RequestsAreShort' /\ ReadWasCurrent' /\ WrittenWasCurrent' /\ ReplacedBefore'
  BY <1>1, <1>2, RequestChanged
<1> QED BY <1>2, <1>3 DEF SettingsInv, SettingsTyped, CachedWasCurrent, CurrentAt,
           StaleIsBounded

\* A request that ends.
LEMMA RestsKeeps ==
  ASSUME SettingsInv, NEW c \in Clients, Rests(c), UNCHANGED <<stored, time, replaced>>
  PROVE  /\ req' \in [Clients -> {Resting} \cup Read \cup Written \cup Deleted]
         /\ RequestsAreShort' /\ ReadWasCurrent' /\ WrittenWasCurrent' /\ ReplacedBefore'
<1>1. Resting \notin Read \cup Written
  BY DEF Resting, Read, Written
<1> QED BY <1>1, RequestChanged DEF Rests

\* What is cached now was current when the request began.
LEMMA FilledWasCurrent ==
  ASSUME SettingsInv, NEW v \in Values, NEW n \in Int, n <= time, time <= n + Slow,
         CurrentAt(v, n)
  PROVE  CurrentAt(v, time - Slow) /\ time \in Nat
<1>1. time \in Nat /\ Slow \in Nat /\ replaced[v] \in Nat
  BY SettingsAssumption DEF SettingsInv, SettingsTyped
<1>2. n >= time - Slow
  BY <1>1
<1>3. replaced[v] >= n => replaced[v] >= time - Slow
  BY <1>1, <1>2
<1> QED BY <1>1, <1>3 DEF CurrentAt

LEMMA GetReturnsKeeps ==
  ASSUME SettingsInv, NEW c \in Clients, GetReturns(c)
  PROVE  SettingsInv'
<1> DEFINE v == req[c].row.val
           n == req[c].since
<1>1. req[c] \in Read /\ Busy(c)
  BY RequestShapes DEF GetReturns, SettingsInv, Busy
<1>2. v \in Values /\ n \in Int /\ time \in Int
  BY <1>1 DEF Read, StoredRow, SettingsInv, SettingsTyped
<1>3. n <= time /\ time <= n + Slow /\ CurrentAt(v, n)
  BY <1>1 DEF SettingsInv, RequestsAreShort, ReadWasCurrent
<1>4. Rests(c) /\ UNCHANGED <<stored, sealer, watch, time, last, replaced>>
  BY DEF GetReturns
<1>5. time < n + TTL + Slow
  BY <1>2, <1>3, SettingsAssumption
<1>6. Age(v) \in 0 .. MaxNow /\ (Age(v) = 0 \/ Age(v) < TTL + Slow)
  BY <1>2, <1>3, <1>5, AgeIsBounded
<1>7. served' \in {served, Age(v)} /\ cache' \in {cache, [val |-> v, at |-> time]}
  BY DEF GetReturns
<1>8. served' \in 0 .. MaxNow /\ StaleIsBounded'
  BY <1>6, <1>7 DEF SettingsInv, SettingsTyped, StaleIsBounded
<1>9. CurrentAt(v, time - Slow)
  BY <1>2, <1>3, FilledWasCurrent
<1>10. CachedWasCurrent'
  BY <1>2, <1>4, <1>7, <1>9 DEF SettingsInv, CachedWasCurrent, CurrentAt
<1>11. cache' \in [val : Values, at : -1 .. MaxNow]
  BY <1>2, <1>7 DEF SettingsInv, SettingsTyped
<1>12. /\ req' \in [Clients -> {Resting} \cup Read \cup Written \cup Deleted]
       /\ RequestsAreShort' /\ ReadWasCurrent' /\ WrittenWasCurrent' /\ ReplacedBefore'
  BY <1>4, RestsKeeps
<1> QED BY <1>4, <1>8, <1>10, <1>11, <1>12 DEF SettingsInv, SettingsTyped

\* The row is written or deleted: what was current until now has been replaced
\* now, and the request has the new value in hand.
LEMMA StoresKeeps ==
  ASSUME SettingsInv, NEW c \in Clients, NEW r \in StoredRow,
         NEW q \in Written \cup Deleted, q.since = time, q \in Written => q.val = r.val,
         Stores(r), req' = [req EXCEPT ![c] = q], last' \in Values,
         UNCHANGED <<cache, sealer, watch, time, served>>
  PROVE  SettingsInv'
<1>1. time \in 0 .. MaxNow /\ \A v \in Values : replaced[v] \in Nat /\ replaced[v] <= time
  BY SettingsAssumption DEF SettingsInv, SettingsTyped, ReplacedBefore
<1>2. stored.val \in Values
  BY DEF SettingsInv, SettingsTyped, StoredRow
<1>3. stored' = r /\ replaced' = [replaced EXCEPT ![stored.val] = time]
  BY DEF Stores
<1>4. \A v \in Values : replaced'[v] = IF v = stored.val THEN time ELSE replaced[v]
  BY <1>3 DEF SettingsInv, SettingsTyped
<1>5. replaced' \in [Values -> 0 .. MaxNow]
  BY <1>1, <1>3 DEF SettingsInv, SettingsTyped
<1>6. ReplacedBefore'
  BY <1>1, <1>4 DEF ReplacedBefore
<1>7. ASSUME NEW v \in Values, NEW n \in Int, n <= time, CurrentAt(v, n)
      PROVE  stored'.val = v \/ replaced'[v] >= n
  BY <1>4, <1>7 DEF CurrentAt
<1>8. q \notin Read /\ Resting \notin Read \cup Written \cup Deleted
  BY DEF Resting, Read, Written, Deleted
<1>9. req'[c] = q /\ \A d \in Clients : d # c => req'[d] = req[d]
  BY DEF SettingsInv, SettingsTyped
<1>10. SettingsTyped'
  BY <1>3, <1>5 DEF SettingsInv, SettingsTyped
<1>11. RequestsAreShort'
  <2>1. time \in Nat /\ time <= time + Slow
    BY <1>1, SettingsAssumption
  <2> QED BY <1>9, <2>1 DEF SettingsInv, RequestsAreShort, Busy
<1>12. ReadWasCurrent'
  <2>1. ASSUME NEW d \in Clients, req'[d] \in Read
        PROVE  stored'.val = req'[d].row.val \/ replaced'[req'[d].row.val] >= req'[d].since
    <3>1. d # c /\ req'[d] = req[d] /\ req[d] \in Read
      BY <1>8, <1>9, <2>1
    <3>2. /\ req[d].row.val \in Values /\ req[d].since \in Int /\ req[d].since <= time
          /\ CurrentAt(req[d].row.val, req[d].since)
      BY <3>1 DEF SettingsInv, ReadWasCurrent, RequestsAreShort, Busy, Read, StoredRow
    <3> QED BY <1>7, <3>1, <3>2
  <2> QED BY <2>1 DEF ReadWasCurrent, CurrentAt
<1>13. WrittenWasCurrent'
  <2>1. ASSUME NEW d \in Clients, req'[d] \in Written
        PROVE  stored'.val = req'[d].val \/ replaced'[req'[d].val] >= req'[d].since
    <3>1. CASE d = c
      BY <1>3, <1>9, <2>1, <3>1
    <3>2. CASE d # c
      <4>1. req'[d] = req[d] /\ req[d] \in Written
        BY <1>9, <2>1, <3>2
      <4>2. /\ req[d].val \in Values /\ req[d].since \in Int /\ req[d].since <= time
            /\ CurrentAt(req[d].val, req[d].since)
        BY <4>1 DEF SettingsInv, WrittenWasCurrent, RequestsAreShort, Busy, Written
      <4> QED BY <1>7, <4>1, <4>2
    <3> QED BY <3>1, <3>2
  <2> QED BY <2>1 DEF WrittenWasCurrent, CurrentAt
<1>14. CachedWasCurrent'
  <2>1. ASSUME cache.at >= 0
        PROVE  /\ cache.at <= time
               /\ stored'.val = cache.val \/ replaced'[cache.val] >= cache.at - Slow
    <3>1. /\ cache.val \in Values /\ cache.at \in Int /\ cache.at <= time
          /\ CurrentAt(cache.val, cache.at - Slow)
      BY <2>1 DEF SettingsInv, SettingsTyped, CachedWasCurrent
    <3>2. cache.at - Slow \in Int /\ cache.at - Slow <= time
      BY <1>1, <3>1, SettingsAssumption
    <3> QED BY <1>7, <3>1, <3>2
  <2> QED BY <2>1 DEF CachedWasCurrent, CurrentAt
<1> QED BY <1>6, <1>10, <1>11, <1>12, <1>13, <1>14 DEF SettingsInv, StaleIsBounded

LEMMA WritesKeep ==
  ASSUME SettingsInv, NEW c \in Clients, SetRow(c) \/ DeleteRow(c)
  PROVE  SettingsInv'
<1>1. CASE SetRow(c)
  <2> DEFINE r == [val |-> last + 1, kek |-> sealer]
             q == [at |-> "set", val |-> last + 1, since |-> time]
  <2>1. last + 1 \in Values
    BY <1>1, SettingsAssumption DEF SetRow, SettingsInv, SettingsTyped, Values
  <2>2. r \in StoredRow /\ q \in Written /\ q.since = time /\ q.val = r.val
    BY <2>1 DEF StoredRow, Written, SettingsInv, SettingsTyped
  <2>3. /\ Stores(r) /\ req' = [req EXCEPT ![c] = q] /\ last' = last + 1
        /\ UNCHANGED <<cache, sealer, watch, time, served>>
    BY <1>1 DEF SetRow
  <2> HIDE DEF r, q
  <2> QED BY <2>1, <2>2, <2>3, StoresKeeps
<1>2. CASE DeleteRow(c)
  <2> DEFINE q == [at |-> "deleted", since |-> time]
  <2>1. NoRow \in StoredRow /\ last \in Values
    BY SettingsAssumption DEF NoRow, StoredRow, Values, SettingsInv, SettingsTyped
  <2>2. q \in Deleted /\ q.since = time /\ q \notin Written
    BY DEF Deleted, Written, SettingsInv, SettingsTyped
  <2>3. /\ Stores(NoRow) /\ req' = [req EXCEPT ![c] = q] /\ last' = last
        /\ UNCHANGED <<cache, sealer, watch, time, served>>
    BY <1>2 DEF DeleteRow
  <2> HIDE DEF q
  <2> QED BY <2>1, <2>2, <2>3, StoresKeeps
<1> QED BY <1>1, <1>2

LEMMA SetCacheKeeps ==
  ASSUME SettingsInv, NEW c \in Clients, SetCache(c)
  PROVE  SettingsInv'
<1> DEFINE v == req[c].val
           n == req[c].since
<1>1. req[c] \in Written /\ Busy(c)
  BY RequestShapes DEF SetCache, SettingsInv, Busy
<1>2. v \in Values /\ n \in Int /\ time \in 0 .. MaxNow
  BY <1>1 DEF Written, SettingsInv, SettingsTyped
<1>3. n <= time /\ time <= n + Slow /\ CurrentAt(v, n)
  BY <1>1 DEF SettingsInv, RequestsAreShort, WrittenWasCurrent
<1>4. CurrentAt(v, time - Slow)
  BY <1>2, <1>3, FilledWasCurrent
<1>5. /\ Rests(c) /\ cache' = [val |-> v, at |-> time]
      /\ UNCHANGED <<stored, sealer, time, last, replaced, served>>
  BY DEF SetCache
<1>6. CachedWasCurrent' /\ cache' \in [val : Values, at : -1 .. MaxNow]
  BY <1>2, <1>4, <1>5 DEF CachedWasCurrent, CurrentAt
<1>7. watch' \in -1 .. Cap
  BY SettingsAssumption DEF SetCache, SettingsInv, SettingsTyped
<1>8. /\ req' \in [Clients -> {Resting} \cup Read \cup Written \cup Deleted]
      /\ RequestsAreShort' /\ ReadWasCurrent' /\ WrittenWasCurrent' /\ ReplacedBefore'
  BY <1>5, RestsKeeps
<1> QED BY <1>5, <1>6, <1>7, <1>8 DEF SettingsInv, SettingsTyped, StaleIsBounded

LEMMA InvalidateKeeps ==
  ASSUME SettingsInv, NEW c \in Clients, Invalidate(c)
  PROVE  SettingsInv'
<1>1. /\ Rests(c) /\ cache' = NoEntry
      /\ UNCHANGED <<stored, sealer, watch, time, last, replaced, served>>
  BY DEF Invalidate
<1>2. /\ req' \in [Clients -> {Resting} \cup Read \cup Written \cup Deleted]
      /\ RequestsAreShort' /\ ReadWasCurrent' /\ WrittenWasCurrent' /\ ReplacedBefore'
  BY <1>1, RestsKeeps
<1>3. NoEntry \in [val : Values, at : -1 .. MaxNow] /\ NoEntry.at = -1
  BY SettingsAssumption DEF NoEntry, Values
<1> QED BY <1>1, <1>2, <1>3 DEF SettingsInv, SettingsTyped, CachedWasCurrent, StaleIsBounded

LEMMA WatcherKeeps ==
  ASSUME SettingsInv, Watch \/ Receive \/ CancelWatch
  PROVE  SettingsInv'
<1>1. watch' \in -1 .. Cap
  BY SettingsAssumption DEF Watch, Receive, CancelWatch, SettingsInv, SettingsTyped
<1>2. UNCHANGED <<stored, cache, req, sealer, time, last, replaced, served>>
  BY DEF Watch, Receive, CancelWatch
<1> QED BY <1>1, <1>2 DEF SettingsInv, SettingsTyped, RequestsAreShort, ReplacedBefore,
           ReadWasCurrent, WrittenWasCurrent, CachedWasCurrent, CurrentAt, Busy,
           StaleIsBounded

\* The next process has an empty cache, or the default that it has just stored.
LEMMA RebootKeeps ==
  ASSUME SettingsInv, NEW k \in {"old", "new"}, Reboot(k)
  PROVE  SettingsInv'
<1>1. /\ sealer' = k /\ watch' = -1 /\ req' = [c \in Clients |-> Resting]
      /\ UNCHANGED <<time, served>>
  BY DEF Reboot
<1>2. Resting \notin Read \cup Written \cup Deleted
  BY DEF Resting, Read, Written, Deleted
<1>3. RequestsAreShort' /\ ReadWasCurrent' /\ WrittenWasCurrent'
  BY <1>1, <1>2 DEF RequestsAreShort, ReadWasCurrent, WrittenWasCurrent, Busy
<1>4. /\ time \in 0 .. MaxNow /\ time - Slow <= time
      /\ \A v \in Values : replaced[v] <= time
  BY SettingsAssumption DEF SettingsInv, SettingsTyped, ReplacedBefore
<1>5. sealer' \in {"old", "new"} /\ watch' \in -1 .. Cap
  BY <1>1, SettingsAssumption
<1>6. /\ stored' \in StoredRow /\ last' \in Values /\ replaced' \in [Values -> 0 .. MaxNow]
      /\ cache' \in [val : Values, at : -1 .. MaxNow]
      /\ ReplacedBefore' /\ CachedWasCurrent'
  <2>1. CASE stored = NoRow /\ last < MaxValues
    <3>1. last + 1 \in Values
      BY <2>1, SettingsAssumption DEF SettingsInv, SettingsTyped, Values
    <3>2. /\ last' = last + 1 /\ stored' = [val |-> last + 1, kek |-> k]
          /\ replaced' = [replaced EXCEPT ![stored.val] = time]
          /\ cache' = [val |-> last + 1, at |-> time]
      BY <2>1 DEF Reboot, Stores
    <3>3. replaced' \in [Values -> 0 .. MaxNow]
      BY <1>4, <3>2 DEF SettingsInv, SettingsTyped
    <3>4. ReplacedBefore'
      BY <1>1, <1>4, <3>2 DEF SettingsInv, SettingsTyped, ReplacedBefore
    <3>5. stored' \in StoredRow /\ cache' \in [val : Values, at : -1 .. MaxNow]
      BY <1>4, <3>1, <3>2 DEF StoredRow
    <3>6. CachedWasCurrent'
      BY <1>1, <1>4, <3>2 DEF CachedWasCurrent, CurrentAt
    <3> QED BY <3>1, <3>2, <3>3, <3>4, <3>5, <3>6
  <2>2. CASE ~(stored = NoRow /\ last < MaxValues)
    <3>1. cache' = NoEntry /\ UNCHANGED <<stored, last, replaced>>
      BY <2>2 DEF Reboot
    <3>2. NoEntry \in [val : Values, at : -1 .. MaxNow] /\ NoEntry.at = -1
      BY SettingsAssumption DEF NoEntry, Values
    <3> QED BY <1>1, <3>1, <3>2 DEF SettingsInv, SettingsTyped, ReplacedBefore,
               CachedWasCurrent
  <2> QED BY <2>1, <2>2
<1>7. SettingsTyped'
  BY <1>1, <1>5, <1>6 DEF SettingsInv, SettingsTyped
<1> QED BY <1>1, <1>3, <1>6, <1>7 DEF SettingsInv, StaleIsBounded

LEMMA TickKeeps ==
  ASSUME SettingsInv, Tick
  PROVE  SettingsInv'
<1>1. /\ time \in Nat /\ time < MaxNow /\ MaxNow \in Nat /\ time' = time + 1
      /\ UNCHANGED <<stored, cache, req, sealer, watch, last, replaced, served>>
  BY SettingsAssumption DEF Tick, SettingsInv, SettingsTyped
<1>2. SettingsTyped'
  BY <1>1 DEF SettingsInv, SettingsTyped
<1>3. RequestsAreShort'
  <2>1. ASSUME NEW c \in Clients, Busy(c)
        PROVE  req[c].since <= time + 1 /\ time + 1 <= req[c].since + Slow
    <3>1. ~At(c, "rest") /\ req[c].since \in Nat /\ req[c].since <= time
      BY <2>1, RequestShapes
         DEF Busy, Read, Written, Deleted, SettingsInv, RequestsAreShort
    <3>2. time - req[c].since < Slow
      BY <3>1 DEF Tick
    <3> QED BY <1>1, <3>1, <3>2, SettingsAssumption
  <2> QED BY <1>1, <2>1 DEF RequestsAreShort, Busy
<1>4. ReplacedBefore'
  <2>1. \A v \in Values : replaced[v] \in Nat /\ replaced[v] <= time
    BY DEF SettingsInv, SettingsTyped, ReplacedBefore
  <2>2. \A v \in Values : replaced[v] <= time + 1
    BY <1>1, <2>1
  <2> QED BY <1>1, <2>2 DEF ReplacedBefore
<1>5. CachedWasCurrent'
  <2>1. cache.at \in Int
    BY DEF SettingsInv, SettingsTyped
  <2>2. cache.at <= time => cache.at <= time + 1
    BY <1>1, <2>1
  <2> QED BY <1>1, <2>2 DEF SettingsInv, CachedWasCurrent, CurrentAt
<1>6. ReadWasCurrent' /\ WrittenWasCurrent' /\ StaleIsBounded'
  BY <1>1 DEF SettingsInv, ReadWasCurrent, WrittenWasCurrent, CurrentAt, StaleIsBounded
<1> QED BY <1>2, <1>3, <1>4, <1>5, <1>6 DEF SettingsInv

LEMMA NextSettingsInv == SettingsInv /\ [SettingsNext]_settingsVars => SettingsInv'
<1> SUFFICES ASSUME SettingsInv, [SettingsNext]_settingsVars PROVE SettingsInv'
  OBVIOUS
<1>1. ASSUME NEW c \in Clients, Hit(c) PROVE SettingsInv'
  BY <1>1, HitKeeps
<1>2. ASSUME NEW c \in Clients, ReadRow(c) PROVE SettingsInv'
  BY <1>2, ReadRowKeeps
<1>3. ASSUME NEW c \in Clients, GetReturns(c) PROVE SettingsInv'
  BY <1>3, GetReturnsKeeps
<1>4. ASSUME NEW c \in Clients, SetRow(c) \/ DeleteRow(c) PROVE SettingsInv'
  BY <1>4, WritesKeep
<1>5. ASSUME NEW c \in Clients, SetCache(c) PROVE SettingsInv'
  BY <1>5, SetCacheKeeps
<1>6. ASSUME NEW c \in Clients, Invalidate(c) PROVE SettingsInv'
  BY <1>6, InvalidateKeeps
<1>7. CASE Watch \/ Receive \/ CancelWatch
  BY <1>7, WatcherKeeps
<1>8. ASSUME NEW k \in {"old", "new"}, Reboot(k) PROVE SettingsInv'
  BY <1>8, RebootKeeps
<1>9. CASE Tick
  BY <1>9, TickKeeps
<1>10. CASE UNCHANGED settingsVars
  BY <1>10 DEF settingsVars, SettingsInv, SettingsTyped, RequestsAreShort, ReplacedBefore,
               ReadWasCurrent, WrittenWasCurrent, CachedWasCurrent, CurrentAt, Busy,
               StaleIsBounded
<1> QED BY <1>1, <1>2, <1>3, <1>4, <1>5, <1>6, <1>7, <1>8, <1>9, <1>10 DEF SettingsNext

\* What the cache holds was in the database at most one request before it was
\* cached, whoever filled it (service.go:77-112 and 150-164).
THEOREM SettingsInvariant == SettingsSpec => []SettingsInv
BY InitSettingsInv, NextSettingsInv, PTL DEF SettingsSpec

\* No value is served as long as TTL and one request after it was replaced,
\* whatever requests race to fill the cache (service.go:77-112 and 150-164).
THEOREM StalenessIsBounded == SettingsSpec => []StaleIsBounded
<1>1. SettingsInv => StaleIsBounded
  BY DEF SettingsInv
<1> QED BY <1>1, SettingsInvariant, PTL

\* Every variable of the service keeps its type.
THEOREM SettingsTypeCorrect == SettingsSpec => []SettingsTypeOK
<1>1. SettingsInv => SettingsTypeOK
  BY DEF SettingsInv, SettingsTyped, SettingsTypeOK, StoredRow
<1> QED BY <1>1, SettingsInvariant, PTL

-----------------------------------------------------------------------------
(* SenderRegistry.                                                         *)

\* The states of a call of Get.
Searching == [step : {"look", "lock", "resolve"}, key : Keys, seen : 0 .. LastTick]
Storing   == [step : {"store"}, key : Keys, seen : 0 .. LastTick, of : Issued]

Typed ==
  /\ credential \in [Keys -> 0 .. MaxIssued] /\ issued \in 0 .. MaxIssued
  /\ revoked \in [Issued -> 0 .. LastTick]
  /\ entry \in [Keys -> SUBSET [of : Issued, until : 0 .. LastTick + SenderTTL]]
  /\ get \in [Getters -> {Ready} \cup Searching \cup Storing]
  /\ writer \subseteq Getters /\ tick \in 0 .. LastTick /\ handed \in 0 .. LastTick

Active(g) == get[g] \in Searching \cup Storing

\* The clock a call has read is at most SlowGet ticks old.
CallsAreShort ==
  \A g \in Getters : Active(g) => get[g].seen <= tick /\ tick <= get[g].seen + SlowGet

\* Credential v of key k was not revoked before tick n.
GoodAt(k, v, n) == credential[k] = v \/ revoked[v] >= n

RevokedBefore == \A v \in Issued : revoked[v] <= tick

\* What a call has resolved was good when it read the clock.
ResolvedWasGood ==
  \A g \in Getters : get[g] \in Storing => GoodAt(get[g].key, get[g].of, get[g].seen)

\* What is cached was good when the entry's lifetime began.
CachedWasGood ==
  \A k \in Keys : \A e \in entry[k] :
    e.until <= tick + SenderTTL /\ GoodAt(k, e.of, e.until - SenderTTL)

RegistryInv ==
  /\ Typed /\ CallsAreShort /\ RevokedBefore /\ ResolvedWasGood /\ CachedWasGood
  /\ OldTokenIsBounded

\* The step of a record of get is one field of three shapes.
LEMMA Shapes ==
  ASSUME Typed, NEW g \in Getters
  PROVE  /\ get[g] = Ready \/ get[g] \in Searching \/ get[g] \in Storing
         /\ Doing(g, "ready") <=> get[g] = Ready
         /\ Doing(g, "store") <=> get[g] \in Storing
         /\ (Doing(g, "look") \/ Doing(g, "lock") \/ Doing(g, "resolve"))
              <=> get[g] \in Searching
BY DEF Typed, Ready, Searching, Storing, Doing

LEMMA InitRegistryInv == RegistryInit => RegistryInv
<1> SUFFICES ASSUME RegistryInit PROVE RegistryInv
  OBVIOUS
<1>1. 0 \in 0 .. MaxIssued /\ 0 \in 0 .. LastTick
  BY RegistryAssumption
<1>2. Typed
  BY <1>1 DEF RegistryInit, Typed
<1>3. ASSUME NEW g \in Getters PROVE get[g] \notin Searching \cup Storing
  BY <1>3 DEF RegistryInit, Ready, Searching, Storing
<1>4. CallsAreShort /\ ResolvedWasGood
  BY <1>3 DEF CallsAreShort, ResolvedWasGood, Active
<1>5. RevokedBefore
  BY RegistryAssumption DEF RegistryInit, RevokedBefore
<1>6. CachedWasGood /\ OldTokenIsBounded
  BY DEF RegistryInit, CachedWasGood, OldTokenIsBounded
<1> QED BY <1>2, <1>4, <1>5, <1>6 DEF RegistryInv

\* A sender handed out by a call is less than SenderTTL + SlowGet past its
\* revocation, when it was good at most SenderTTL ticks before the call began.
LEMMA HandedIsBounded ==
  ASSUME RegistryInv, NEW g \in Getters, Active(g), NEW v \in Issued, NEW n \in Int,
         n + SenderTTL > get[g].seen, GoodAt(get[g].key, v, n)
  PROVE  /\ SinceRevoked(get[g].key, v) \in 0 .. LastTick
         /\ \/ SinceRevoked(get[g].key, v) = 0
            \/ SinceRevoked(get[g].key, v) < SenderTTL + SlowGet
<1>1. /\ get[g].seen \in Nat /\ tick <= get[g].seen + SlowGet
  BY DEF RegistryInv, Typed, CallsAreShort, Active, Searching, Storing
<1>2. /\ tick \in 0 .. LastTick /\ revoked[v] \in 0 .. LastTick /\ revoked[v] <= tick
  BY DEF RegistryInv, Typed, RevokedBefore
<1>3. SenderTTL \in Nat /\ SlowGet \in Nat /\ LastTick \in Nat
  BY RegistryAssumption
<1>4. CASE credential[get[g].key] = v
  BY <1>3, <1>4 DEF SinceRevoked
<1>5. CASE credential[get[g].key] # v /\ revoked[v] >= n
  <2>1. SinceRevoked(get[g].key, v) = tick - revoked[v]
    BY <1>5 DEF SinceRevoked
  <2> QED BY <1>1, <1>2, <1>3, <1>5, <2>1
<1> QED BY <1>4, <1>5 DEF GoodAt

\* A call that ends, or does not begin.
LEMMA HandOutKeeps ==
  ASSUME RegistryInv, NEW g \in Getters, Active(g), NEW v \in Issued, NEW n \in Int,
         n + SenderTTL > get[g].seen, GoodAt(get[g].key, v, n), HandOut(g, v),
         UNCHANGED <<credential, issued, revoked, tick>>
  PROVE  /\ get' \in [Getters -> {Ready} \cup Searching \cup Storing]
         /\ handed' \in 0 .. LastTick /\ OldTokenIsBounded'
         /\ CallsAreShort' /\ ResolvedWasGood' /\ RevokedBefore'
<1>1. /\ handed' = SinceRevoked(get[g].key, v)
      /\ get' = [get EXCEPT ![g] = Ready]
  BY DEF HandOut
<1>2. handed' \in 0 .. LastTick /\ OldTokenIsBounded'
  BY <1>1, HandedIsBounded DEF OldTokenIsBounded
<1>3. Ready \notin Searching \cup Storing
  BY DEF Ready, Searching, Storing
<1>4. get' \in [Getters -> {Ready} \cup Searching \cup Storing]
  BY <1>1 DEF RegistryInv, Typed
<1>5. CallsAreShort' /\ ResolvedWasGood' /\ RevokedBefore'
  BY <1>1, <1>3 DEF RegistryInv, Typed, CallsAreShort, ResolvedWasGood, RevokedBefore,
                    Active, GoodAt
<1> QED BY <1>2, <1>4, <1>5

LEMMA CallGetKeeps ==
  ASSUME RegistryInv, NEW g \in Getters, NEW k \in Keys, CallGet(g, k)
  PROVE  RegistryInv'
<1> DEFINE r == [step |-> "look", key |-> k, seen |-> tick]
<1>1. get' = [get EXCEPT ![g] = r] /\ r \in Searching /\ r \notin Storing
  BY DEF CallGet, RegistryInv, Typed, Searching, Storing
<1>2. Typed'
  BY <1>1 DEF CallGet, RegistryInv, Typed
<1>3. tick \in Nat /\ tick <= tick + SlowGet
  BY RegistryAssumption DEF RegistryInv, Typed
<1>4. CallsAreShort'
  <2>1. ASSUME NEW h \in Getters, Active(h)'
        PROVE  (get[h].seen <= tick /\ tick <= get[h].seen + SlowGet)'
    <3>1. CASE h = g
      BY <1>1, <1>3, <3>1 DEF CallGet, RegistryInv, Typed
    <3>2. CASE h # g
      BY <1>1, <2>1, <3>2 DEF CallGet, RegistryInv, Typed, CallsAreShort, Active
    <3> QED BY <3>1, <3>2
  <2> QED BY <2>1 DEF CallsAreShort
<1>5. ResolvedWasGood'
  BY <1>1 DEF CallGet, RegistryInv, Typed, ResolvedWasGood, GoodAt
<1>6. RevokedBefore' /\ CachedWasGood' /\ OldTokenIsBounded'
  BY DEF CallGet, RegistryInv, RevokedBefore, CachedWasGood, OldTokenIsBounded, GoodAt
<1> QED BY <1>2, <1>4, <1>5, <1>6 DEF RegistryInv

\* A call that goes on to another step of the search.
LEMMA MovesKeep ==
  ASSUME RegistryInv, NEW g \in Getters, get[g] \in Searching,
         NEW s \in {"lock", "resolve"}, Moves(g, s), writer' \subseteq Getters,
         UNCHANGED <<credential, issued, revoked, entry, tick, handed>>
  PROVE  RegistryInv'
<1>1. /\ get' = [get EXCEPT ![g].step = s]
      /\ get'[g] \in Searching /\ get'[g] \notin Storing
      /\ get'[g].seen = get[g].seen
  BY DEF Moves, RegistryInv, Typed, Searching, Storing
<1>2. \A h \in Getters : h # g => get'[h] = get[h]
  BY <1>1 DEF RegistryInv, Typed
<1>3. Typed'
  BY <1>1 DEF RegistryInv, Typed
<1>4. CallsAreShort' /\ ResolvedWasGood'
  BY <1>1, <1>2 DEF RegistryInv, CallsAreShort, ResolvedWasGood, Active, GoodAt
<1>5. RevokedBefore' /\ CachedWasGood' /\ OldTokenIsBounded'
  BY DEF RegistryInv, RevokedBefore, CachedWasGood, OldTokenIsBounded, GoodAt
<1> QED BY <1>3, <1>4, <1>5 DEF RegistryInv

\* What the cache hands out under either lock.
LEMMA CachedKeeps ==
  ASSUME RegistryInv, NEW g \in Getters, get[g] \in Searching, NEW e \in LiveEntry(g),
         HandOut(g, e.of),
         UNCHANGED <<credential, issued, revoked, entry, writer, tick>>
  PROVE  RegistryInv'
<1>1. Active(g) /\ get[g].key \in Keys /\ get[g].seen \in Nat
  BY DEF Active, Searching
<1>2. /\ e \in entry[get[g].key] /\ e.until > get[g].seen
      /\ e.of \in Issued /\ e.until \in Nat
  BY <1>1 DEF LiveEntry, RegistryInv, Typed
<1>3. GoodAt(get[g].key, e.of, e.until - SenderTTL)
  BY <1>1, <1>2 DEF RegistryInv, CachedWasGood
<1>4. /\ e.until - SenderTTL \in Int
      /\ (e.until - SenderTTL) + SenderTTL > get[g].seen
  BY <1>1, <1>2, RegistryAssumption
<1>5. /\ get' \in [Getters -> {Ready} \cup Searching \cup Storing]
      /\ handed' \in 0 .. LastTick /\ OldTokenIsBounded'
      /\ CallsAreShort' /\ ResolvedWasGood' /\ RevokedBefore'
  BY <1>1, <1>2, <1>3, <1>4, HandOutKeeps
<1>6. Typed' /\ CachedWasGood'
  BY <1>5 DEF RegistryInv, Typed, CachedWasGood, GoodAt
<1> QED BY <1>5, <1>6 DEF RegistryInv

LEMMA LookKeeps ==
  ASSUME RegistryInv, NEW g \in Getters, LookUp(g) \/ LookAgain(g)
  PROVE  RegistryInv'
<1>1. get[g] \in Searching
  BY Shapes DEF LookUp, LookAgain, RegistryInv
<1>2. CASE LookUp(g)
  <2>1. CASE \E e \in LiveEntry(g) : HandOut(g, e.of)
    BY <1>1, <1>2, <2>1, CachedKeeps DEF LookUp
  <2>2. CASE LiveEntry(g) = {} /\ Moves(g, "lock") /\ UNCHANGED handed
    BY <1>1, <1>2, <2>2, MovesKeep DEF LookUp, RegistryInv, Typed
  <2> QED BY <1>2, <2>1, <2>2 DEF LookUp
<1>3. CASE LookAgain(g)
  <2>1. CASE \E e \in LiveEntry(g) : HandOut(g, e.of) /\ UNCHANGED writer
    BY <1>1, <1>3, <2>1, CachedKeeps DEF LookAgain
  <2>2. CASE /\ LiveEntry(g) = {} /\ writer' = {g} /\ Moves(g, "resolve")
             /\ UNCHANGED handed
    BY <1>1, <1>3, <2>2, MovesKeep DEF LookAgain
  <2> QED BY <1>3, <2>1, <2>2 DEF LookAgain
<1> QED BY <1>2, <1>3

\* The factory: the credential it reads is the one of the key.
LEMMA ResolveKeeps ==
  ASSUME RegistryInv, NEW g \in Getters, ResolveCredential(g)
  PROVE  RegistryInv'
<1> DEFINE k == get[g].key
           r == [step |-> "store", key |-> k, seen |-> get[g].seen, of |-> credential[k]]
<1>1. get[g] \in Searching
  BY Shapes DEF ResolveCredential, RegistryInv
<1>2. get' = [get EXCEPT ![g] = r] /\ credential[k] # 0
  BY DEF ResolveCredential, RegistryInv, Typed
<1>3. k \in Keys /\ credential[k] \in Issued
  BY <1>1, <1>2, RegistryAssumption DEF Searching, RegistryInv, Typed, Issued
<1>4. r \in Storing /\ r.seen = get[g].seen /\ r.key = k /\ r.of = credential[k]
  BY <1>1, <1>3 DEF Searching, Storing
<1>5. get'[g] = r /\ \A h \in Getters : h # g => get'[h] = get[h]
  BY <1>2 DEF RegistryInv, Typed
<1>6. Typed'
  BY <1>2, <1>4 DEF ResolveCredential, RegistryInv, Typed
<1>7. CallsAreShort' /\ ResolvedWasGood'
  BY <1>1, <1>4, <1>5 DEF ResolveCredential, RegistryInv, CallsAreShort, ResolvedWasGood,
                          Active, GoodAt
<1>8. RevokedBefore' /\ CachedWasGood' /\ OldTokenIsBounded'
  BY DEF ResolveCredential, RegistryInv, RevokedBefore, CachedWasGood, OldTokenIsBounded,
         GoodAt
<1> QED BY <1>6, <1>7, <1>8 DEF RegistryInv

LEMMA FailKeeps ==
  ASSUME RegistryInv, NEW g \in Getters, FactoryFails(g)
  PROVE  RegistryInv'
<1>1. get' = [get EXCEPT ![g] = Ready] /\ Ready \notin Searching \cup Storing
  BY DEF FactoryFails, Ready, Searching, Storing
<1>2. Typed'
  BY <1>1 DEF FactoryFails, RegistryInv, Typed
<1>3. CallsAreShort' /\ ResolvedWasGood'
  BY <1>1 DEF FactoryFails, RegistryInv, Typed, CallsAreShort, ResolvedWasGood, Active,
              GoodAt
<1>4. RevokedBefore' /\ CachedWasGood' /\ OldTokenIsBounded'
  BY DEF FactoryFails, RegistryInv, RevokedBefore, CachedWasGood, OldTokenIsBounded, GoodAt
<1> QED BY <1>2, <1>3, <1>4 DEF RegistryInv

\* The new entry begins its lifetime when its call read the clock.
LEMMA StoreKeeps ==
  ASSUME RegistryInv, NEW g \in Getters, StoreSender(g)
  PROVE  RegistryInv'
<1> DEFINE k == get[g].key
           v == get[g].of
           n == get[g].seen
           e == [of |-> v, until |-> n + SenderTTL]
<1>1. get[g] \in Storing /\ Active(g)
  BY Shapes DEF StoreSender, RegistryInv, Active
<1>2. k \in Keys /\ v \in Issued /\ n \in 0 .. LastTick
  BY <1>1 DEF Storing
<1>3. GoodAt(k, v, n) /\ n <= tick
  BY <1>1 DEF RegistryInv, ResolvedWasGood, CallsAreShort
<1>4. n \in Int /\ n + SenderTTL > n
  BY <1>2, RegistryAssumption
<1>5. HandOut(g, v) /\ UNCHANGED <<credential, issued, revoked, tick>>
  BY DEF StoreSender
<1>6. /\ get' \in [Getters -> {Ready} \cup Searching \cup Storing]
      /\ handed' \in 0 .. LastTick /\ OldTokenIsBounded'
      /\ CallsAreShort' /\ ResolvedWasGood' /\ RevokedBefore'
  BY <1>1, <1>2, <1>3, <1>4, <1>5, HandOutKeeps
<1>7. entry' = [entry EXCEPT ![k] = {e}] /\ writer' = {}
  BY DEF StoreSender
<1>8. n + SenderTTL \in 0 .. LastTick + SenderTTL
  BY <1>2, RegistryAssumption
<1>9. {e} \in SUBSET [of : Issued, until : 0 .. LastTick + SenderTTL]
  BY <1>2, <1>8
<1>10. Typed'
  BY <1>5, <1>6, <1>7, <1>9 DEF RegistryInv, Typed
<1>11. e.of = v /\ e.until <= tick + SenderTTL /\ e.until - SenderTTL = n
  <2>1. tick \in Nat /\ SenderTTL \in Nat /\ n \in Nat
    BY <1>2, RegistryAssumption DEF RegistryInv, Typed
  <2> QED BY <1>3, <2>1
<1>12. CachedWasGood'
  <2>1. ASSUME NEW j \in Keys, NEW f \in entry'[j]
        PROVE  (f.until <= tick + SenderTTL /\ GoodAt(j, f.of, f.until - SenderTTL))'
    <3>1. CASE j = k
      <4>1. f = e
        BY <1>7, <3>1 DEF RegistryInv, Typed
      <4>2. GoodAt(j, f.of, f.until - SenderTTL)
        BY <1>3, <1>11, <3>1, <4>1
      <4> QED BY <1>5, <1>11, <4>1, <4>2 DEF GoodAt
    <3>2. CASE j # k
      <4>1. f \in entry[j]
        BY <1>7, <3>2 DEF RegistryInv, Typed
      <4> QED BY <1>5, <4>1 DEF RegistryInv, CachedWasGood, GoodAt
    <3> QED BY <3>1, <3>2
  <2> QED BY <2>1 DEF CachedWasGood
<1> QED BY <1>6, <1>10, <1>12 DEF RegistryInv

\* A credential that is replaced or deleted now was good until now.
LEMMA RevocationKeeps ==
  ASSUME RegistryInv, NEW k \in Keys,
         credential' \in [Keys -> 0 .. MaxIssued], issued' \in 0 .. MaxIssued,
         \A j \in Keys : j # k => credential'[j] = credential[j],
         revoked' = [v \in Issued |-> IF v = credential[k] THEN tick ELSE revoked[v]],
         UNCHANGED <<entry, get, writer, tick, handed>>
  PROVE  RegistryInv'
<1>1. /\ tick \in 0 .. LastTick
      /\ \A v \in Issued : revoked[v] \in 0 .. LastTick /\ revoked[v] <= tick
  BY DEF RegistryInv, Typed, RevokedBefore
<1>2. \A v \in Issued : revoked'[v] \in {tick, revoked[v]}
  OBVIOUS
<1>3. \A v \in Issued : revoked'[v] \in 0 .. LastTick /\ revoked'[v] <= tick
  BY <1>1, <1>2
<1>4. Typed'
  BY <1>3 DEF RegistryInv, Typed
<1>5. RevokedBefore'
  BY <1>3 DEF RevokedBefore
<1>6. ASSUME NEW j \in Keys, NEW v \in Issued, NEW n \in Int, n <= tick, GoodAt(j, v, n)
      PROVE  GoodAt(j, v, n)'
  <2>1. CASE v = credential[k]
    BY <1>6, <2>1 DEF GoodAt
  <2>2. CASE v # credential[k]
    <3>1. revoked'[v] = revoked[v]
      BY <2>2
    <3>2. credential[j] = v => j # k
      BY <2>2
    <3> QED BY <1>6, <3>1, <3>2 DEF GoodAt
  <2> QED BY <2>1, <2>2
<1>7. ResolvedWasGood'
  <2>1. ASSUME NEW g \in Getters, get[g] \in Storing
        PROVE  GoodAt(get[g].key, get[g].of, get[g].seen)'
    <3>1. /\ get[g].key \in Keys /\ get[g].of \in Issued /\ get[g].seen \in Int
          /\ get[g].seen <= tick /\ GoodAt(get[g].key, get[g].of, get[g].seen)
      BY <2>1 DEF RegistryInv, CallsAreShort, ResolvedWasGood, Active, Storing
    <3>2. GoodAt(get[g].key, get[g].of, get[g].seen)'
            <=> (credential'[get[g].key] = get[g].of \/ revoked'[get[g].of] >= get[g].seen)
      BY DEF GoodAt
    <3>3. credential'[get[g].key] = get[g].of \/ revoked'[get[g].of] >= get[g].seen
      BY <1>6, <3>1 DEF GoodAt
    <3> QED BY <3>2, <3>3
  <2> QED BY <2>1 DEF ResolvedWasGood
<1>8. CachedWasGood'
  <2>1. ASSUME NEW j \in Keys, NEW e \in entry[j]
        PROVE  /\ e.until <= tick + SenderTTL
               /\ credential'[j] = e.of \/ revoked'[e.of] >= e.until - SenderTTL
    <3>1. /\ e.of \in Issued /\ e.until \in Nat /\ e.until <= tick + SenderTTL
          /\ GoodAt(j, e.of, e.until - SenderTTL)
      BY RegistryAssumption DEF RegistryInv, Typed, CachedWasGood
    <3>2. e.until - SenderTTL \in Int /\ e.until - SenderTTL <= tick
      BY <1>1, <3>1, RegistryAssumption
    <3> QED BY <1>6, <3>1, <3>2 DEF GoodAt
  <2> QED BY <2>1 DEF CachedWasGood, GoodAt
<1>9. CallsAreShort' /\ OldTokenIsBounded'
  BY DEF RegistryInv, CallsAreShort, OldTokenIsBounded, Active
<1> QED BY <1>4, <1>5, <1>7, <1>8, <1>9 DEF RegistryInv

LEMMA IssueKeeps ==
  ASSUME RegistryInv, NEW k \in Keys, IssueCredential(k) \/ RevokeCredential(k)
  PROVE  RegistryInv'
<1>1. CASE IssueCredential(k)
  <2>1. issued + 1 \in 0 .. MaxIssued
    BY <1>1, RegistryAssumption DEF IssueCredential, RegistryInv, Typed
  <2> QED BY <1>1, <2>1, RevocationKeeps DEF IssueCredential, RegistryInv, Typed
<1>2. CASE RevokeCredential(k)
  <2>1. 0 \in 0 .. MaxIssued
    BY RegistryAssumption
  <2> QED BY <1>2, <2>1, RevocationKeeps DEF RevokeCredential, RegistryInv, Typed
<1> QED BY <1>1, <1>2

LEMMA ClockTicksKeeps ==
  ASSUME RegistryInv, ClockTicks
  PROVE  RegistryInv'
<1>1. tick \in Nat /\ tick < LastTick /\ tick' = tick + 1 /\ LastTick \in Nat
  BY RegistryAssumption DEF ClockTicks, RegistryInv, Typed
<1>2. Typed'
  BY <1>1 DEF ClockTicks, RegistryInv, Typed
<1>3. CallsAreShort'
  <2>1. ASSUME NEW g \in Getters, Active(g)
        PROVE  get[g].seen <= tick + 1 /\ tick + 1 <= get[g].seen + SlowGet
    <3>1. ~Doing(g, "ready")
      BY <2>1, Shapes DEF RegistryInv, Active, Ready, Searching, Storing
    <3>2. tick - get[g].seen < SlowGet
      BY <3>1 DEF ClockTicks
    <3>3. get[g].seen \in Nat /\ get[g].seen <= tick
      BY <2>1 DEF Active, Searching, Storing, RegistryInv, CallsAreShort
    <3> QED BY <1>1, <3>2, <3>3, RegistryAssumption
  <2> QED BY <1>1, <2>1 DEF ClockTicks, CallsAreShort, Active
<1>4. RevokedBefore'
  <2>1. \A v \in Issued : revoked[v] \in Nat /\ revoked[v] <= tick
    BY DEF RegistryInv, Typed, RevokedBefore
  <2>2. \A v \in Issued : revoked[v] <= tick + 1
    BY <1>1, <2>1
  <2> QED BY <1>1, <2>2 DEF ClockTicks, RevokedBefore
<1>5. CachedWasGood'
  <2>1. ASSUME NEW k \in Keys, NEW e \in entry[k]
        PROVE  /\ e.until <= (tick + 1) + SenderTTL
               /\ GoodAt(k, e.of, e.until - SenderTTL)
    <3>1. e.until \in Nat
      BY RegistryAssumption DEF RegistryInv, Typed
    <3>2. e.until <= tick + SenderTTL /\ GoodAt(k, e.of, e.until - SenderTTL)
      BY DEF RegistryInv, CachedWasGood
    <3> QED BY <1>1, <3>1, <3>2, RegistryAssumption
  <2> QED BY <1>1, <2>1 DEF ClockTicks, CachedWasGood, GoodAt
<1>6. ResolvedWasGood' /\ OldTokenIsBounded'
  BY DEF ClockTicks, RegistryInv, ResolvedWasGood, OldTokenIsBounded, GoodAt
<1> QED BY <1>2, <1>3, <1>4, <1>5, <1>6 DEF RegistryInv

LEMMA NextRegistryInv == RegistryInv /\ [RegistryNext]_registryVars => RegistryInv'
<1> SUFFICES ASSUME RegistryInv, [RegistryNext]_registryVars PROVE RegistryInv'
  OBVIOUS
<1>1. ASSUME NEW g \in Getters, NEW k \in Keys, CallGet(g, k) PROVE RegistryInv'
  BY <1>1, CallGetKeeps
<1>2. ASSUME NEW g \in Getters, LookUp(g) \/ LookAgain(g) PROVE RegistryInv'
  BY <1>2, LookKeeps
<1>3. ASSUME NEW g \in Getters, ResolveCredential(g) PROVE RegistryInv'
  BY <1>3, ResolveKeeps
<1>4. ASSUME NEW g \in Getters, FactoryFails(g) PROVE RegistryInv'
  BY <1>4, FailKeeps
<1>5. ASSUME NEW g \in Getters, StoreSender(g) PROVE RegistryInv'
  BY <1>5, StoreKeeps
<1>6. ASSUME NEW k \in Keys, IssueCredential(k) \/ RevokeCredential(k) PROVE RegistryInv'
  BY <1>6, IssueKeeps
<1>7. CASE ClockTicks
  BY <1>7, ClockTicksKeeps
<1>8. CASE UNCHANGED registryVars
  BY <1>8 DEF registryVars, RegistryInv, Typed, CallsAreShort, RevokedBefore,
              ResolvedWasGood, CachedWasGood, OldTokenIsBounded, Active, GoodAt
<1> QED BY <1>1, <1>2, <1>3, <1>4, <1>5, <1>6, <1>7, <1>8 DEF RegistryNext

\* What the registry caches or is about to cache was the credential of its key
\* when the entry's lifetime began (registry.go:82-119).
THEOREM RegistryInvariant == RegistrySpec => []RegistryInv
<1>1. RegistryInit => RegistryInv
  BY InitRegistryInv
<1>2. RegistryInv /\ [RegistryNext]_registryVars => RegistryInv'
  BY NextRegistryInv
<1> QED BY <1>1, <1>2, PTL DEF RegistrySpec

\* A revoked credential is handed out for less than the lifetime of an entry and
\* of a call of Get (registry.go:82-119).
THEOREM OldTokensAreBounded == RegistrySpec => []OldTokenIsBounded
<1>1. RegistryInv => OldTokenIsBounded
  BY DEF RegistryInv
<1> QED BY <1>1, RegistryInvariant, PTL

\* Every variable of the registry keeps its type.
THEOREM RegistryTypeCorrect == RegistrySpec => []RegistryTypeOK
<1>1. RegistryInv => RegistryTypeOK
  BY DEF RegistryInv, Typed, RegistryTypeOK, Ready, Searching, Storing
<1> QED BY <1>1, RegistryInvariant, PTL
=============================================================================
