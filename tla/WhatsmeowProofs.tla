--------------------------- MODULE WhatsmeowProofs ---------------------------
(***************************************************************************)
(* The theorems about adapter/provider/whatsmeow: the Manager with its     *)
(* clients, and the warm-up and the throttle of one account.               *)
(***************************************************************************)
EXTENDS WhatsmeowManager, WhatsmeowPacing, FiniteSetTheorems, SequenceTheorems, TLAPS

-----------------------------------------------------------------------------
(* The inductive invariant of the manager.                                 *)

\* What holds of a client wherever it is: a loop that does not run handles
\* nothing, a closed socket leaves nothing to handle behind, and a stub never
\* hears anything.
Fine(cl) ==
  /\ cl.loop \in {"new", "ended"} => cl.at = "select"
  /\ cl.loop = "new" => cl.queue = <<>>
  /\ cl.sock = "closed" => cl.at = "select" /\ (cl.loop = "ended" \/ cl.queue = <<>>)
  /\ cl.kind = "stub" => /\ cl.queue = <<>> /\ cl.at = "select"
                         /\ ~cl.connected /\ cl.sock # "up"
ClientsAreFine == \A a \in Clients : Exists(a) => Fine(client[a])

BornInOrder == \A a \in Clients : Exists(a) => a <= born

\* The table holds clients that exist, each under its own tenant.
TableIsSound ==
  \A t \in Tenants : clients[t] # None
                       => Exists(clients[t]) /\ client[clients[t]].tenant = t

LockIsHeld == \A c \in Callers : caller[c].at = "evict" <=> lock = c

\* The list of the least recently used is the table without the victim.
Distinct(s) == \A i, j \in 1 .. Len(s) : s[i] = s[j] => i = j
IsVictim(a) == \E c \in Callers : caller[c].at = "evict" /\ a \in caller[c].stop
OrderIsTable ==
  /\ Distinct(order)
  /\ \A t \in Tenants : t \in ToSet(order) <=> clients[t] # None /\ ~IsVictim(clients[t])

CallsAreSound ==
  \A c \in Callers :
    /\ caller[c].at \in {"look", "build", "insert", "evict"}
         => caller[c].tenant \in Tenants /\ caller[c].op \in {"send", "qr"}
    /\ caller[c].at = "stop"
         => /\ \A a \in caller[c].stop : Exists(a)
            /\ caller[c].has # None => caller[c].has \in caller[c].stop
    /\ caller[c].at = "evict"
         => /\ clients[caller[c].tenant] = None
            /\ \E v \in Clients : caller[c].stop = {v} /\ InTable(v)

\* A client that is not inserted yet is known to one call only, and its loops
\* were never started.
Holds(c, a) == caller[c].at \in {"insert", "evict"} /\ caller[c].has = a
HeldIsFresh ==
  \A c \in Callers : \A a \in Clients : Holds(c, a) =>
    /\ Exists(a) /\ client[a].tenant = caller[c].tenant /\ client[a].loop = "new"
    /\ ~InTable(a)
    /\ \A d \in Callers : Holds(d, a) => d = c
HoldsOne == \A c \in Callers : caller[c].at \in {"insert", "evict"} => caller[c].has # None

\* NoOrphanSocket for every socket that can still open.
Stops(c, a) == caller[c].at = "stop" /\ a \in caller[c].stop
OpenIsOwned ==
  \A a \in Clients : Exists(a) /\ client[a].sock # "closed" =>
    InTable(a) \/ \E c \in Callers : Holds(c, a) \/ Stops(c, a)

ManagerInv ==
  /\ TypeOK /\ ClientsAreFine /\ BornInOrder /\ TableIsSound /\ LockIsHeld
  /\ OrderIsTable /\ CallsAreSound /\ HeldIsFresh /\ HoldsOne /\ OpenIsOwned

-----------------------------------------------------------------------------
(* Records: what the proofs need of a call and of a client.                *)

LEMMA BusyFields ==
  ASSUME NEW b \in Busy
  PROVE  /\ b.op \in {"send", "qr", "reset", "shutdown"} /\ b.at \in Steps
         /\ b.tenant \in Tenants \cup {None} /\ b.has \in Clients \cup {None}
         /\ b.stop \in SUBSET Clients /\ b.at # "idle" /\ b # Idle
<1>1. /\ b.op \in {"send", "qr", "reset", "shutdown"} /\ b.at \in Steps
      /\ b.tenant \in Tenants \cup {None} /\ b.has \in Clients \cup {None}
      /\ b.stop \in SUBSET Clients
  BY DEF Busy
<1>2. b.at # "idle"
  BY <1>1 DEF Steps
<1>. QED
  BY <1>1, <1>2 DEF Idle

LEMMA BusyAt ==
  ASSUME NEW b \in Busy, NEW at \in Steps
  PROVE  LET d == [b EXCEPT !.at = at] IN
         /\ d \in Busy /\ d.at = at /\ d.op = b.op /\ d.tenant = b.tenant
         /\ d.has = b.has /\ d.stop = b.stop
  BY DEF Busy

LEMMA BusyHas ==
  ASSUME NEW b \in Busy, NEW a \in Clients \cup {None}
  PROVE  LET d == [b EXCEPT !.has = a] IN
         /\ d \in Busy /\ d.at = b.at /\ d.op = b.op /\ d.tenant = b.tenant
         /\ d.has = a /\ d.stop = b.stop
  BY DEF Busy

LEMMA BusyStop ==
  ASSUME NEW b \in Busy, NEW S \in SUBSET Clients
  PROVE  LET d == [b EXCEPT !.stop = S] IN
         /\ d \in Busy /\ d.at = b.at /\ d.op = b.op /\ d.tenant = b.tenant
         /\ d.has = b.has /\ d.stop = S
  BY DEF Busy

LEMMA BusyStart ==
  ASSUME NEW op \in {"send", "qr", "reset", "shutdown"}, NEW at \in Steps,
         NEW t \in Tenants \cup {None}
  PROVE  LET d == [op |-> op, at |-> at, tenant |-> t, has |-> None, stop |-> {}] IN
         /\ d \in Busy /\ d.at = at /\ d.op = op /\ d.tenant = t
         /\ d.has = None /\ d.stop = {}
  BY DEF Busy

LEMMA ClientFields ==
  ASSUME NEW x \in Client
  PROVE  /\ x.tenant \in Tenants /\ x.kind \in {"real", "stub"}
         /\ x.sock \in {"up", "down", "closed"} /\ x.connected \in BOOLEAN
         /\ x.loop \in {"new", "running", "cancelled", "ended"}
         /\ x.queue \in Seq(Events) /\ x.at \in Events \cup {"select"}
         /\ x # Unborn
<1>1. /\ x.tenant \in Tenants /\ x.kind \in {"real", "stub"}
      /\ x.sock \in {"up", "down", "closed"} /\ x.connected \in BOOLEAN
      /\ x.loop \in {"new", "running", "cancelled", "ended"}
      /\ x.queue \in Seq(Events) /\ x.at \in Events \cup {"select"}
  BY DEF Client
<1>2. x # Unborn
  BY <1>1 DEF Unborn
<1>. QED
  BY <1>1, <1>2

LEMMA ClientLoop ==
  ASSUME NEW x \in Client, NEW l \in {"new", "running", "cancelled", "ended"}
  PROVE  LET y == [x EXCEPT !.loop = l] IN
         /\ y \in Client /\ y.loop = l /\ y.tenant = x.tenant /\ y.kind = x.kind
         /\ y.sock = x.sock /\ y.connected = x.connected /\ y.queue = x.queue
         /\ y.at = x.at
  BY DEF Client

LEMMA ClientSock ==
  ASSUME NEW x \in Client, NEW k \in {"up", "down", "closed"}
  PROVE  LET y == [x EXCEPT !.sock = k] IN
         /\ y \in Client /\ y.sock = k /\ y.tenant = x.tenant /\ y.kind = x.kind
         /\ y.loop = x.loop /\ y.connected = x.connected /\ y.queue = x.queue
         /\ y.at = x.at
  BY DEF Client

LEMMA ClientQueue ==
  ASSUME NEW x \in Client, NEW q \in Seq(Events)
  PROVE  LET y == [x EXCEPT !.queue = q] IN
         /\ y \in Client /\ y.queue = q /\ y.tenant = x.tenant /\ y.kind = x.kind
         /\ y.loop = x.loop /\ y.connected = x.connected /\ y.sock = x.sock
         /\ y.at = x.at
  BY DEF Client

LEMMA ClientAt ==
  ASSUME NEW x \in Client, NEW e \in Events \cup {"select"}
  PROVE  LET y == [x EXCEPT !.at = e] IN
         /\ y \in Client /\ y.at = e /\ y.tenant = x.tenant /\ y.kind = x.kind
         /\ y.loop = x.loop /\ y.connected = x.connected /\ y.sock = x.sock
         /\ y.queue = x.queue
  BY DEF Client

LEMMA ClientConnected ==
  ASSUME NEW x \in Client, NEW f \in BOOLEAN
  PROVE  LET y == [x EXCEPT !.connected = f] IN
         /\ y \in Client /\ y.connected = f /\ y.tenant = x.tenant /\ y.kind = x.kind
         /\ y.loop = x.loop /\ y.at = x.at /\ y.sock = x.sock
         /\ y.queue = x.queue
  BY DEF Client

LEMMA ClientNew ==
  ASSUME NEW t \in Tenants, NEW k \in {"real", "stub"}
  PROVE  LET y == NewClient(t, k) IN
         /\ y \in Client /\ y.tenant = t /\ y.kind = k /\ y.sock = "down"
         /\ y.connected = FALSE /\ y.loop = "new" /\ y.queue = <<>> /\ y.at = "select"
  BY DEF Client, NewClient

LEMMA ExistsIsClient ==
  ASSUME TypeOK, NEW a \in Clients, Exists(a)
  PROVE  client[a] \in Client
  BY DEF TypeOK, Exists

LEMMA CallIsBusy ==
  ASSUME TypeOK, NEW c \in Callers, caller[c].at # "idle"
  PROVE  caller[c] \in Busy
  BY DEF TypeOK, Idle

-----------------------------------------------------------------------------
(* Sequences without duplicates.                                           *)

LEMMA AppendDistinct ==
  ASSUME NEW S, NEW s \in Seq(S), Distinct(s), NEW e \in S, e \notin ToSet(s)
  PROVE  /\ Append(s, e) \in Seq(S) /\ Distinct(Append(s, e))
         /\ ToSet(Append(s, e)) = ToSet(s) \cup {e}
<1>. DEFINE r == Append(s, e)
<1>1. /\ r \in Seq(S) /\ Len(r) = Len(s) + 1 /\ r[Len(s) + 1] = e
      /\ \A i \in 1 .. Len(s) : r[i] = s[i]
  BY AppendProperties
<1>2. Len(s) \in Nat /\ DOMAIN s = 1 .. Len(s) /\ DOMAIN r = 1 .. Len(r)
  BY <1>1, LenProperties
<1>3. \A i \in 1 .. Len(s) : s[i] # e
  BY <1>2 DEF ToSet
<1>. HIDE DEF r
<1>4. Distinct(r)
  BY <1>1, <1>2, <1>3 DEF Distinct
<1>5. ToSet(r) = ToSet(s) \cup {e}
  BY <1>1, <1>2 DEF ToSet
<1>. QED
  BY <1>1, <1>4, <1>5 DEF r

LEMMA TailDistinct ==
  ASSUME NEW S, NEW s \in Seq(S), Distinct(s), s # <<>>
  PROVE  /\ Tail(s) \in Seq(S) /\ Distinct(Tail(s))
         /\ Head(s) \in ToSet(s) /\ ToSet(Tail(s)) = ToSet(s) \ {Head(s)}
<1>. DEFINE r == Tail(s)
<1>1. /\ r \in Seq(S) /\ Len(r) = Len(s) - 1 /\ Head(s) = s[1]
      /\ \A i \in 1 .. Len(r) : r[i] = s[i + 1]
  BY HeadTailProperties
<1>2. Len(s) \in Nat /\ DOMAIN s = 1 .. Len(s) /\ DOMAIN r = 1 .. Len(r) /\ Len(s) # 0
  BY <1>1, LenProperties, EmptySeq
<1>. HIDE DEF r
<1>4. Distinct(r)
  BY <1>1, <1>2 DEF Distinct
<1>5. Head(s) \in ToSet(s)
  BY <1>1, <1>2 DEF ToSet
<1>6. ToSet(r) = ToSet(s) \ {Head(s)}
  <2>1. \A i \in 1 .. Len(r) : r[i] \in ToSet(s) /\ r[i] # Head(s)
    BY <1>1, <1>2 DEF Distinct, ToSet
  <2>2. \A i \in 1 .. Len(s) : i = 1 \/ (i - 1 \in 1 .. Len(r) /\ r[i - 1] = s[i])
    BY <1>1, <1>2
  <2>3. ToSet(r) \subseteq ToSet(s) \ {Head(s)}
    BY <1>2, <2>1 DEF ToSet
  <2>4. ASSUME NEW x \in ToSet(s) \ {Head(s)}
        PROVE  x \in ToSet(r)
    <3>1. PICK i \in 1 .. Len(s) : s[i] = x
      BY <1>2 DEF ToSet
    <3>2. i - 1 \in DOMAIN r /\ r[i - 1] = x
      BY <1>1, <1>2, <2>2, <3>1
    <3>. QED
      BY <3>2 DEF ToSet
  <2>. QED
    BY <2>3, <2>4
<1>. QED
  BY <1>1, <1>4, <1>5, <1>6 DEF r

LEMMA RemoveDistinct ==
  ASSUME NEW S, NEW s \in Seq(S), Distinct(s), NEW e
  PROVE  /\ RemoveFirst(s, e) \in Seq(S) /\ Distinct(RemoveFirst(s, e))
         /\ ToSet(RemoveFirst(s, e)) = ToSet(s) \ {e}
<1>1. Len(s) \in Nat /\ DOMAIN s = 1 .. Len(s)
  BY LenProperties
<1>2. CASE ~\E i \in 1 .. Len(s) : s[i] = e
  BY <1>1, <1>2 DEF RemoveFirst, ToSet
<1>3. CASE \E i \in 1 .. Len(s) : s[i] = e
  <2>1. PICK i \in 1 .. Len(s) : s[i] = e
    BY <1>3
  <2>2. {j \in 1 .. Len(s) : s[j] = e} = {i}
    BY <2>1 DEF Distinct
  <2>3. SelectInSeq(s, LAMBDA v : v = e) = i
    BY <2>2 DEF SelectInSeq, Min
  <2>4. RemoveFirst(s, e) = SubSeq(s, 1, i - 1) \o SubSeq(s, i + 1, Len(s))
    BY <1>3, <2>3 DEF RemoveFirst, RemoveAt
  <2>. DEFINE p == SubSeq(s, 1, i - 1)
              q == SubSeq(s, i + 1, Len(s))
              r == p \o q
  <2>5. /\ p \in Seq(S) /\ Len(p) = i - 1 /\ \A j \in 1 .. i - 1 : p[j] = s[j]
    BY <1>1, <2>1, SubSeqProperties
  <2>6. /\ q \in Seq(S) /\ Len(q) = Len(s) - i
        /\ \A j \in 1 .. Len(s) - i : q[j] = s[i + j]
    <3>1. PICK m \in Int : m = i + 1
      BY <1>1, <2>1
    <3>2. Len(s) \in Int /\ \A j \in m .. Len(s) : s[j] \in S
      BY <1>1, <2>1, <3>1, ElementOfSeq
    <3>3. /\ SubSeq(s, m, Len(s)) \in Seq(S)
          /\ Len(SubSeq(s, m, Len(s))) = IF m <= Len(s) THEN Len(s) - m + 1 ELSE 0
          /\ \A j \in 1 .. Len(s) - m + 1 : SubSeq(s, m, Len(s))[j] = s[m + j - 1]
      BY <3>2, SubSeqProperties
    <3>4. q = SubSeq(s, m, Len(s))
      BY <3>1
    <3>. HIDE DEF q
    <3>5. Len(q) = Len(s) - i
      <4>1. PICK n \in Nat : n = Len(s)
        BY <1>1
      <4>2. Len(q) = IF m <= n THEN n - m + 1 ELSE 0
        BY <3>3, <3>4, <4>1, Zenon
      <4>3. (IF m <= n THEN n - m + 1 ELSE 0) = n - i
        BY <2>1, <3>1, <4>1
      <4>. QED
        BY <4>1, <4>2, <4>3
    <3>6. ASSUME NEW j \in 1 .. Len(s) - i
          PROVE  q[j] = s[i + j]
      <4>1. j \in 1 .. Len(s) - m + 1 /\ m + j - 1 = i + j
        BY <1>1, <2>1, <3>1
      <4>. QED
        BY <3>3, <3>4, <4>1
    <3>. QED
      BY <3>3, <3>4, <3>5, <3>6
  <2>7. /\ r \in Seq(S) /\ Len(r) = Len(p) + Len(q)
        /\ \A j \in 1 .. Len(p) + Len(q) : r[j] = IF j <= Len(p) THEN p[j] ELSE q[j - Len(p)]
    BY <2>5, <2>6, ConcatProperties
  <2>. HIDE DEF p, q, r
  <2>8. /\ Len(r) = Len(s) - 1
        /\ \A j \in 1 .. Len(r) : r[j] = IF j < i THEN s[j] ELSE s[j + 1]
    BY <1>1, <2>1, <2>5, <2>6, <2>7
  <2>9. DOMAIN r = 1 .. Len(r)
    BY <2>7, LenProperties
  <2>10. Distinct(r)
    BY <1>1, <2>1, <2>8 DEF Distinct
  <2>11. \A j \in 1 .. Len(r) : r[j] \in ToSet(s) /\ r[j] # e
    <3>. TAKE j \in 1 .. Len(r)
    <3>1. PICK k \in 1 .. Len(s) : k # i /\ r[j] = s[k]
      <4>1. CASE j < i
        <5>1. j \in 1 .. Len(s) /\ j # i /\ r[j] = s[j]
          BY <1>1, <2>1, <2>8, <4>1
        <5>. QED
          BY <5>1
      <4>2. CASE ~(j < i)
        <5>1. j + 1 \in 1 .. Len(s) /\ j + 1 # i /\ r[j] = s[j + 1]
          BY <1>1, <2>1, <2>8, <4>2
        <5>. QED
          BY <5>1
      <4>. QED
        BY <4>1, <4>2
    <3>2. r[j] \in ToSet(s)
      BY <1>1, <3>1 DEF ToSet
    <3>3. r[j] # e
      BY <2>1, <3>1 DEF Distinct
    <3>. QED
      BY <3>2, <3>3
  <2>12. \A j \in 1 .. Len(s) : s[j] = e \/ (\E k \in 1 .. Len(r) : r[k] = s[j])
    <3> TAKE j \in 1 .. Len(s)
    <3>1. CASE j < i
      BY <1>1, <2>1, <2>8, <3>1
    <3>2. CASE j > i
      <4>1. j - 1 \in 1 .. Len(r) /\ r[j - 1] = s[j]
        BY <1>1, <2>1, <2>8, <3>2
      <4>. QED
        BY <4>1
    <3>. QED
      BY <1>1, <2>1, <3>1, <3>2
  <2>13. ToSet(r) = ToSet(s) \ {e}
    <3>1. ToSet(r) \subseteq ToSet(s) \ {e}
      BY <2>9, <2>11 DEF ToSet
    <3>2. ASSUME NEW x \in ToSet(s) \ {e}
          PROVE  x \in ToSet(r)
      <4>1. PICK j \in 1 .. Len(s) : s[j] = x
        BY <1>1 DEF ToSet
      <4>2. PICK k \in 1 .. Len(r) : r[k] = x
        BY <2>12, <4>1
      <4>. QED
        BY <2>9, <4>2 DEF ToSet
    <3>. QED
      BY <3>1, <3>2
  <2>. QED
    BY <2>4, <2>7, <2>10, <2>13 DEF r, p, q
<1>. QED
  BY <1>2, <1>3

-----------------------------------------------------------------------------
(* Steps that only move one call, and steps that only move one client.     *)

LEMMA CallStep ==
  ASSUME ManagerInv, NEW c \in Callers, NEW b \in Busy \cup {Idle},
         caller' = [caller EXCEPT ![c] = b],
         caller[c].at \notin {"insert", "evict", "stop"},
         b.at \notin {"insert", "evict"},
         b.at \in {"look", "build"} => b.tenant \in Tenants /\ b.op \in {"send", "qr"},
         b.at = "stop" => b.has = None /\ \A a \in b.stop : Exists(a),
         order' \in Seq(Tenants), Distinct(order'), ToSet(order') = ToSet(order),
         cached' \in [Tenants -> Clients \cup {None}],
         regLock' \in Callers \cup {None},
         UNCHANGED <<clients, lock, client, born, heard>>
  PROVE  ManagerInv'
<1>0. TypeOK /\ caller \in [Callers -> Busy \cup {Idle}]
  BY DEF ManagerInv, TypeOK
<1>1. caller'[c] = b /\ \A d \in Callers : d # c => caller'[d] = caller[d]
  BY <1>0
<1>2. TypeOK'
  BY <1>0 DEF TypeOK
<1>3. ClientsAreFine' /\ BornInOrder' /\ TableIsSound'
  BY DEF ManagerInv, ClientsAreFine, BornInOrder, TableIsSound, Exists
<1>4. LockIsHeld'
  BY <1>1 DEF ManagerInv, LockIsHeld
<1>5. \A a : IsVictim(a)' <=> IsVictim(a)
  BY <1>1 DEF IsVictim
<1>6. OrderIsTable'
  BY <1>5 DEF ManagerInv, OrderIsTable
<1>7. CallsAreSound'
  <2>1. \A a : (Exists(a)' <=> Exists(a)) /\ (InTable(a)' <=> InTable(a))
    BY DEF Exists, InTable
  <2> SUFFICES ASSUME NEW d \in Callers
               PROVE  (/\ caller[d].at \in {"look", "build", "insert", "evict"}
                            => caller[d].tenant \in Tenants /\ caller[d].op \in {"send", "qr"}
                       /\ caller[d].at = "stop"
                            => /\ \A a \in caller[d].stop : Exists(a)
                               /\ caller[d].has # None => caller[d].has \in caller[d].stop
                       /\ caller[d].at = "evict"
                            => /\ clients[caller[d].tenant] = None
                               /\ \E v \in Clients : caller[d].stop = {v} /\ InTable(v))'
    BY DEF CallsAreSound
  <2>2. CASE d = c
    BY <1>1, <2>1, <2>2
  <2>3. CASE d # c
    BY <1>1, <2>1, <2>3 DEF ManagerInv, CallsAreSound
  <2>. QED
    BY <2>2, <2>3
<1>8. \A d \in Callers, a \in Clients : Holds(d, a)' <=> Holds(d, a)
  BY <1>1 DEF Holds
<1>9. HeldIsFresh' /\ HoldsOne'
  <2>1. HoldsOne'
    BY <1>1 DEF ManagerInv, HoldsOne
  <2>2. \A a : (Exists(a)' <=> Exists(a)) /\ (InTable(a)' <=> InTable(a))
    BY DEF Exists, InTable
  <2>3. \A d \in Callers, a \in Clients : Holds(d, a) => caller'[d] = caller[d]
    BY <1>1 DEF Holds
  <2>. QED
    BY <1>8, <2>1, <2>2, <2>3 DEF ManagerInv, HeldIsFresh
<1>10. OpenIsOwned'
  <2>1. \A d \in Callers : \A a : Stops(d, a) => Stops(d, a)'
    BY <1>1 DEF Stops
  <2>. QED
    BY <1>8, <2>1 DEF ManagerInv, OpenIsOwned, Exists, InTable
<1>. QED
  BY <1>2, <1>3, <1>4, <1>6, <1>7, <1>9, <1>10 DEF ManagerInv

LEMMA ClientStep ==
  ASSUME ManagerInv, NEW a \in Clients, Exists(a), NEW x \in Client,
         client' = [client EXCEPT ![a] = x],
         x.tenant = client[a].tenant, Fine(x),
         client[a].loop = "new" => x.loop = "new" \/ InTable(a),
         x.sock # "closed" => client[a].sock # "closed",
         heard' \in 0 .. MaxEvents,
         UNCHANGED <<clients, order, lock, caller, cached, regLock, born>>
  PROVE  ManagerInv'
<1>0. TypeOK /\ client \in [Clients -> Client \cup {Unborn}]
  BY DEF ManagerInv, TypeOK
<1>1. client'[a] = x /\ \A e \in Clients : e # a => client'[e] = client[e]
  BY <1>0
<1>2. \A e \in Clients : /\ Exists(e)' <=> Exists(e)
                         /\ Exists(e) => client'[e].tenant = client[e].tenant
                         /\ InTable(e)' <=> InTable(e)
  BY <1>1, ClientFields DEF Exists, InTable
<1>3. TypeOK'
  BY <1>0 DEF TypeOK
<1>4. ClientsAreFine'
  BY <1>1, <1>2 DEF ManagerInv, ClientsAreFine
<1>5. TableIsSound'
  <2>1. \A t \in Tenants : clients[t] # None => clients[t] \in Clients
    BY <1>0 DEF TypeOK
  <2>. QED
    BY <1>2, <2>1 DEF ManagerInv, TableIsSound
<1>6. BornInOrder'
  BY <1>2 DEF ManagerInv, BornInOrder
<1>7. LockIsHeld' /\ HoldsOne' /\ OrderIsTable'
  BY DEF ManagerInv, LockIsHeld, HoldsOne, OrderIsTable, IsVictim
<1>8. CallsAreSound'
  <2>1. \A d \in Callers : caller[d].at = "stop" => caller[d].stop \subseteq Clients
    BY <1>0, CallIsBusy, BusyFields
  <2>. QED
    BY <1>2, <2>1 DEF ManagerInv, CallsAreSound
<1>9. HeldIsFresh'
  <2>1. \A d \in Callers, e \in Clients : Holds(d, e)' <=> Holds(d, e)
    BY DEF Holds
  <2>2. \A e \in Clients : client[e].loop = "new" => client'[e].loop = "new" \/ InTable(e)
    BY <1>1
  <2>. QED
    BY <1>2, <2>1, <2>2 DEF ManagerInv, HeldIsFresh
<1>10. OpenIsOwned'
  <2>1. \A d \in Callers, e \in Clients : (Holds(d, e)' <=> Holds(d, e))
                                          /\ (Stops(d, e)' <=> Stops(d, e))
    BY DEF Holds, Stops
  <2>2. \A e \in Clients : client'[e].sock # "closed" => client[e].sock # "closed"
    BY <1>1
  <2>. QED
    BY <1>2, <2>1, <2>2 DEF ManagerInv, OpenIsOwned
<1>. QED
  BY <1>3, <1>4, <1>5, <1>6, <1>7, <1>8, <1>9, <1>10 DEF ManagerInv

-----------------------------------------------------------------------------
(* The steps of the manager.                                               *)

LEMMA ManagerInit == Init => ManagerInv
<1> SUFFICES ASSUME Init PROVE ManagerInv
  OBVIOUS
<1>1. TypeOK
  BY ManagerAssumption DEF Init, TypeOK
<1>2. \A a \in Clients : ~Exists(a)
  BY DEF Init, Exists
<1>3. \A c \in Callers : caller[c].at = "idle"
  BY DEF Init, Idle
<1>4. ClientsAreFine /\ BornInOrder /\ OpenIsOwned
  BY <1>2 DEF ClientsAreFine, BornInOrder, OpenIsOwned
<1>5. TableIsSound
  BY DEF TableIsSound, Init
<1>6. LockIsHeld
  BY <1>3, ManagerAssumption DEF LockIsHeld, Init
<1>7. OrderIsTable
  <2>1. ToSet(order) = {} /\ Len(order) = 0
    BY DEF Init, ToSet
  <2>. QED
    BY <2>1 DEF OrderIsTable, Distinct, Init
<1>8. CallsAreSound /\ HeldIsFresh /\ HoldsOne
  BY <1>3 DEF CallsAreSound, HeldIsFresh, HoldsOne, Holds
<1>. QED
  BY <1>1, <1>4, <1>5, <1>6, <1>7, <1>8 DEF ManagerInv

LEMMA ManagerTypes ==
  ASSUME ManagerInv
  PROVE  /\ TypeOK
         /\ order \in Seq(Tenants) /\ Distinct(order)
         /\ cached \in [Tenants -> Clients \cup {None}]
         /\ regLock \in Callers \cup {None}
         /\ clients \in [Tenants -> Clients \cup {None}]
         /\ caller \in [Callers -> Busy \cup {Idle}]
         /\ client \in [Clients -> Client \cup {Unborn}]
         /\ heard \in 0 .. MaxEvents
BY DEF ManagerInv, TypeOK, OrderIsTable

LEMMA IdleFields == Idle.at = "idle" /\ Idle \in Busy \cup {Idle}
BY DEF Idle

\* Touching a tenant of the table keeps the set.
LEMMA TouchedKeeps ==
  ASSUME ManagerInv, NEW t \in Tenants
  PROVE  /\ Touched(t) \in Seq(Tenants) /\ Distinct(Touched(t))
         /\ ToSet(Touched(t)) = ToSet(order)
<1>1. order \in Seq(Tenants) /\ Distinct(order)
  BY ManagerTypes
<1>2. CASE t \notin ToSet(order)
  BY <1>1, <1>2 DEF Touched
<1>3. CASE t \in ToSet(order)
  <2>. DEFINE r == RemoveFirst(order, t)
  <2>1. r \in Seq(Tenants) /\ Distinct(r) /\ ToSet(r) = ToSet(order) \ {t}
    BY <1>1, RemoveDistinct
  <2>. HIDE DEF r
  <2>2. /\ Append(r, t) \in Seq(Tenants) /\ Distinct(Append(r, t))
        /\ ToSet(Append(r, t)) = ToSet(r) \cup {t}
    BY <2>1, AppendDistinct
  <2>3. Touched(t) = Append(r, t)
    BY <1>3 DEF Touched, r
  <2>. QED
    BY <1>3, <2>1, <2>2, <2>3
<1>. QED
  BY <1>2, <1>3

\* The call that is handed a client goes on to use it.
LEMMA HandedType ==
  ASSUME TypeOK, NEW c \in Callers, NEW a \in Clients, Handed(c, a), caller[c] \in Busy
  PROVE  \E b \in Busy : /\ caller' = [caller EXCEPT ![c] = b]
                         /\ b.at = "use" /\ b.has = a
                         /\ cached' \in [Tenants -> Clients \cup {None}]
                         /\ regLock' \in Callers \cup {None}
<1>. DEFINE d == [caller[c] EXCEPT !.at = "use"]
            b == [d EXCEPT !.has = a]
<1>1. d \in Busy /\ d.at = "use"
  BY BusyAt DEF Steps
<1>2. b \in Busy /\ b.at = "use" /\ b.has = a
  <2>. HIDE DEF d
  <2>. QED
    BY <1>1, BusyHas
<1>3. caller' = [caller EXCEPT ![c] = b]
  BY Zenon DEF Handed
<1>4. /\ cached' \in [Tenants -> Clients \cup {None}]
      /\ regLock' \in Callers \cup {None}
  <2>1. cached \in [Tenants -> Clients \cup {None}] /\ regLock \in Callers \cup {None}
    BY DEF TypeOK
  <2>2. CASE caller[c].op = "send"
    BY <2>1, <2>2 DEF Handed
  <2>3. CASE caller[c].op # "send"
    BY <2>1, <2>3 DEF Handed
  <2>. QED
    BY <2>2, <2>3
<1>. HIDE DEF b
<1>. QED
  BY <1>2, <1>3, <1>4

\* Calls that begin.
LEMMA HitStep ==
  ASSUME ManagerInv, NEW c \in Callers, NEW t \in Tenants, Hit(c, t)
  PROVE  ManagerInv'
<1>. DEFINE d == [op |-> "send", at |-> "use", tenant |-> t, has |-> None, stop |-> {}]
            b == [d EXCEPT !.has = cached[t]]
<1>1. d \in Busy /\ d.at = "use"
  BY BusyStart DEF Steps
<1>2. cached[t] \in Clients \cup {None}
  BY ManagerTypes
<1>3. b \in Busy /\ b.at = "use"
  <2>. HIDE DEF d
  <2>. QED
    BY <1>1, <1>2, BusyHas
<1>4. caller' = [caller EXCEPT ![c] = b]
  <2>1. caller' = [[caller EXCEPT ![c] = d] EXCEPT ![c].has = cached[t]]
    BY DEF Hit, Starts
  <2>. HIDE DEF d
  <2>. QED
    BY <2>1, ManagerTypes
<1>. HIDE DEF b
<1>. QED
  BY <1>3, <1>4, ManagerTypes, CallStep, IdleFields DEF Hit

LEMMA MissStep ==
  ASSUME ManagerInv, NEW c \in Callers, NEW t \in Tenants, Miss(c, t)
  PROVE  ManagerInv'
<1>. DEFINE b == [op |-> "send", at |-> "look", tenant |-> t, has |-> None, stop |-> {}]
<1>1. b \in Busy /\ b.at = "look" /\ b.op = "send" /\ b.tenant = t
  BY BusyStart DEF Steps
<1>2. caller' = [caller EXCEPT ![c] = b]
  BY DEF Miss, Starts
<1>. HIDE DEF b
<1>. QED
  BY <1>1, <1>2, ManagerTypes, CallStep, IdleFields DEF Miss

LEMMA CurrentQRStep ==
  ASSUME ManagerInv, NEW c \in Callers, NEW t \in Tenants, CurrentQR(c, t)
  PROVE  ManagerInv'
<1>. DEFINE b == [op |-> "qr", at |-> "look", tenant |-> t, has |-> None, stop |-> {}]
<1>1. b \in Busy /\ b.at = "look" /\ b.op = "qr" /\ b.tenant = t
  BY BusyStart DEF Steps
<1>2. caller' = [caller EXCEPT ![c] = b]
  BY DEF CurrentQR, Starts
<1>. HIDE DEF b
<1>. QED
  BY <1>1, <1>2, ManagerTypes, CallStep, IdleFields DEF CurrentQR

LEMMA DisconnectAllStep ==
  ASSUME ManagerInv, NEW c \in Callers, DisconnectAll(c)
  PROVE  ManagerInv'
<1>. DEFINE S == {clients[t] : t \in Table}
            d == [op |-> "shutdown", at |-> "stop", tenant |-> None, has |-> None, stop |-> {}]
            b == [d EXCEPT !.stop = S]
<1>1. d \in Busy /\ d.at = "stop" /\ d.has = None
  BY BusyStart DEF Steps
<1>2. S \in SUBSET Clients /\ \A a \in S : Exists(a)
  <2>1. \A t \in Table : clients[t] \in Clients /\ Exists(clients[t])
    BY ManagerTypes DEF Table, ManagerInv, TableIsSound
  <2>. QED
    BY <2>1
<1>3. b \in Busy /\ b.at = "stop" /\ b.has = None /\ b.stop = S
  <2>. HIDE DEF d, S
  <2>. QED
    BY <1>1, <1>2, BusyStop
<1>4. caller' = [caller EXCEPT ![c] = b]
  <2>1. caller' = [[caller EXCEPT ![c] = d] EXCEPT ![c].stop = S]
    BY DEF DisconnectAll, Starts
  <2>. HIDE DEF d, S
  <2>. QED
    BY <2>1, ManagerTypes
<1>. HIDE DEF b, S
<1>. QED
  BY <1>2, <1>3, <1>4, ManagerTypes, CallStep, IdleFields DEF DisconnectAll

\* Calls that end without a client of their own.
LEMMA EndsStep ==
  ASSUME ManagerInv, NEW c \in Callers,
         CreateFails(c) \/ ReadQR(c) \/ Sent(c)
  PROVE  ManagerInv'
<1>1. /\ caller' = [caller EXCEPT ![c] = Idle]
      /\ caller[c].at \in {"build", "use", "sent"}
      /\ UNCHANGED <<clients, order, lock, client, cached, born, heard>>
      /\ regLock' \in {None, regLock}
  BY DEF CreateFails, ReadQR, Sent
<1>. QED
  BY <1>1, ManagerTypes, CallStep, IdleFields

LEMMA SendStep ==
  ASSUME ManagerInv, NEW c \in Callers, Send(c)
  PROVE  ManagerInv'
<1>0. /\ caller[c].at = "use"
      /\ UNCHANGED <<clients, order, lock, client, cached, regLock, born, heard>>
      /\ caller' = Goes(c, "sent") \/ caller' = [caller EXCEPT ![c] = Idle]
  BY DEF Send
<1>1. CASE caller' = [caller EXCEPT ![c] = Idle]
  BY <1>0, <1>1, ManagerTypes, CallStep, IdleFields
<1>2. CASE caller' = Goes(c, "sent")
  <2>. DEFINE b == [caller[c] EXCEPT !.at = "sent"]
  <2>1. b \in Busy /\ b.at = "sent"
    BY <1>0, ManagerTypes, CallIsBusy, BusyAt DEF Steps
  <2>2. caller' = [caller EXCEPT ![c] = b]
    BY <1>2 DEF Goes
  <2>. HIDE DEF b
  <2>. QED
    BY <1>0, <2>1, <2>2, ManagerTypes, CallStep
<1>. QED
  BY <1>0, <1>1, <1>2

LEMMA LookupStep ==
  ASSUME ManagerInv, NEW c \in Callers, Lookup(c)
  PROVE  ManagerInv'
<1>0. /\ caller[c].at = "look" /\ caller[c] \in Busy
      /\ caller[c].tenant \in Tenants /\ caller[c].op \in {"send", "qr"}
  BY ManagerTypes, CallIsBusy DEF Lookup, ManagerInv, CallsAreSound
<1>1. CASE clients[caller[c].tenant] = None
  <2>. DEFINE b == [caller[c] EXCEPT !.at = "build"]
  <2>1. b \in Busy /\ b.at = "build" /\ b.tenant = caller[c].tenant /\ b.op = caller[c].op
    BY <1>0, BusyAt DEF Steps
  <2>2. caller' = [caller EXCEPT ![c] = b]
    BY <1>1 DEF Lookup, Goes
  <2>3. UNCHANGED <<order, cached, regLock, clients, lock, client, born, heard>>
    BY <1>1 DEF Lookup
  <2>. HIDE DEF b
  <2>. QED
    BY <1>0, <2>1, <2>2, <2>3, ManagerTypes, CallStep
<1>2. CASE clients[caller[c].tenant] # None
  <2>1. PICK t \in Tenants : t = caller[c].tenant
    BY <1>0
  <2>2. /\ order' = Touched(t) /\ Handed(c, clients[t]) /\ clients[t] \in Clients
        /\ UNCHANGED <<clients, lock, client, born, heard>>
    BY <1>2, <2>1, ManagerTypes DEF Lookup
  <2>3. PICK b \in Busy : /\ caller' = [caller EXCEPT ![c] = b]
                          /\ b.at = "use"
                          /\ cached' \in [Tenants -> Clients \cup {None}]
                          /\ regLock' \in Callers \cup {None}
    BY <1>0, <2>2, ManagerTypes, HandedType
  <2>. QED
    BY <1>0, <2>2, <2>3, TouchedKeeps, CallStep
<1>. QED
  BY <1>1, <1>2

\* Steps of a client.
LEMMA StartStep ==
  ASSUME ManagerInv, NEW a \in Clients, Start(a)
  PROVE  ManagerInv'
<1>. DEFINE x == [client[a] EXCEPT !.loop = "running"]
<1>1. client[a] \in Client /\ Exists(a) /\ Fine(client[a]) /\ InTable(a)
  BY ManagerTypes, ExistsIsClient DEF Start, ManagerInv, ClientsAreFine, InTable
<1>2. /\ x \in Client /\ x.loop = "running" /\ x.tenant = client[a].tenant
      /\ x.kind = client[a].kind /\ x.sock = client[a].sock
      /\ x.connected = client[a].connected /\ x.queue = client[a].queue
      /\ x.at = client[a].at
  BY <1>1, ClientLoop
<1>3. client' = [client EXCEPT ![a] = x]
  BY DEF Start
<1>. HIDE DEF x
<1>4. Fine(x)
  BY <1>1, <1>2 DEF Start, Fine
<1>. QED
  BY <1>1, <1>2, <1>3, <1>4, ManagerTypes, ClientStep DEF Start

LEMMA HeardStep ==
  ASSUME ManagerInv, NEW a \in Clients, NEW e \in Events, NEW k \in {"up", "down"},
         Exists(a), client[a].kind = "real", client[a].sock # "closed", Heard(a, e, k)
  PROVE  ManagerInv'
<1>. DEFINE room == client[a].loop # "new" /\ Len(client[a].queue) < EventBuffer
            q == IF room THEN Append(client[a].queue, e) ELSE client[a].queue
            y == [client[a] EXCEPT !.sock = k]
            x == [y EXCEPT !.queue = q]
<1>1. client[a] \in Client /\ Fine(client[a])
  BY ManagerTypes, ExistsIsClient DEF ManagerInv, ClientsAreFine
<1>2. q \in Seq(Events) /\ (client[a].loop = "new" => q = client[a].queue)
  BY <1>1, ClientFields
<1>0. k \in {"up", "down", "closed"}
  OBVIOUS
<1>3. /\ y \in Client /\ y.sock = k /\ y.loop = client[a].loop
      /\ y.tenant = client[a].tenant /\ y.kind = client[a].kind
      /\ y.connected = client[a].connected /\ y.queue = client[a].queue
      /\ y.at = client[a].at
  BY <1>0, <1>1, ClientSock
<1>4. client' = [client EXCEPT ![a] = x]
  <2>1. client' = [client EXCEPT ![a].sock = k, ![a].queue = q]
    <3>1. client' = [client EXCEPT ![a].sock = k,
                       ![a].queue = IF room THEN Append(@, e) ELSE @]
      BY Zenon DEF Heard
    <3>2. (IF room THEN Append(y.queue, e) ELSE y.queue) = q
      BY <1>3
    <3>. QED
      BY <3>1, <1>3, ManagerTypes
  <2>. HIDE DEF q
  <2>. QED
    BY <2>1, ManagerTypes
<1>5. /\ x \in Client /\ x.sock = k /\ x.loop = client[a].loop
      /\ x.tenant = client[a].tenant /\ x.kind = client[a].kind
      /\ x.connected = client[a].connected /\ x.queue = q
      /\ x.at = client[a].at
  <2>. HIDE DEF y, q
  <2>. QED
    BY <1>2, <1>3, ClientQueue
<1>. HIDE DEF x, y, q
<1>6. Fine(x)
  BY <1>1, <1>2, <1>5 DEF Fine
<1>7. heard' \in 0 .. MaxEvents
  BY ManagerTypes, ManagerAssumption DEF Heard
<1>. QED
  BY <1>1, <1>4, <1>5, <1>6, <1>7, ManagerTypes, ClientStep DEF Heard

LEMMA DeliverStep ==
  ASSUME ManagerInv, NEW a \in Clients, Deliver(a)
  PROVE  ManagerInv'
BY HeardStep DEF Deliver, Events

LEMMA TakeStep ==
  ASSUME ManagerInv, NEW a \in Clients, Take(a)
  PROVE  ManagerInv'
<1>. DEFINE y == [client[a] EXCEPT !.at = Head(client[a].queue)]
            x == [y EXCEPT !.queue = Tail(client[a].queue)]
<1>1. client[a] \in Client /\ Exists(a) /\ Fine(client[a])
  BY ManagerTypes, ExistsIsClient DEF Take, ManagerInv, ClientsAreFine
<1>2. Head(client[a].queue) \in Events /\ Tail(client[a].queue) \in Seq(Events)
  BY <1>1, ClientFields DEF Take
<1>3. /\ y \in Client /\ y.sock = client[a].sock /\ y.loop = client[a].loop
      /\ y.tenant = client[a].tenant /\ y.kind = client[a].kind
      /\ y.connected = client[a].connected /\ y.queue = client[a].queue
  BY <1>1, <1>2, ClientAt
<1>4. client' = [client EXCEPT ![a] = x]
  <2>1. client' = [client EXCEPT ![a].at = Head(client[a].queue), ![a].queue = Tail(@)]
    BY DEF Take
  <2>. QED
    BY <2>1, <1>3, ManagerTypes
<1>5. /\ x \in Client /\ x.sock = client[a].sock /\ x.loop = client[a].loop
      /\ x.tenant = client[a].tenant /\ x.kind = client[a].kind
      /\ x.connected = client[a].connected
  <2>. HIDE DEF y
  <2>. QED
    BY <1>2, <1>3, ClientQueue
<1>. HIDE DEF x, y
<1>6. Fine(x)
  BY <1>1, <1>5 DEF Fine, Take
<1>. QED
  BY <1>1, <1>4, <1>5, <1>6, ManagerTypes, ClientStep DEF Take

LEMMA ProcessEventStep ==
  ASSUME ManagerInv, NEW a \in Clients, ProcessEvent(a)
  PROVE  ManagerInv'
<1>. DEFINE f == Flag(client[a].at, client[a].connected)
            y == [client[a] EXCEPT !.connected = f]
            x == [y EXCEPT !.at = "select"]
<1>1. client[a] \in Client /\ Exists(a) /\ Fine(client[a])
  BY ManagerTypes, ExistsIsClient DEF ProcessEvent, ManagerInv, ClientsAreFine
<1>2. f \in BOOLEAN
  BY <1>1, ClientFields DEF Flag
<1>3. /\ y \in Client /\ y.sock = client[a].sock /\ y.loop = client[a].loop
      /\ y.tenant = client[a].tenant /\ y.kind = client[a].kind
      /\ y.queue = client[a].queue
  <2>. HIDE DEF f
  <2>. QED
    BY <1>1, <1>2, ClientConnected
<1>4. client' = [client EXCEPT ![a] = x]
  <2>1. client' = [client EXCEPT ![a].connected = Flag(client[a].at, @),
                                 ![a].at = "select"]
    BY DEF ProcessEvent
  <2>. QED
    BY <2>1, ManagerTypes
<1>5. /\ x \in Client /\ x.sock = client[a].sock /\ x.loop = client[a].loop
      /\ x.tenant = client[a].tenant /\ x.kind = client[a].kind
      /\ x.queue = client[a].queue /\ x.at = "select"
  <2>. HIDE DEF y
  <2>. QED
    BY <1>3, ClientAt
<1>. HIDE DEF x, y, f
<1>6. Fine(x)
  BY <1>1, <1>5 DEF Fine, ProcessEvent
<1>. QED
  BY <1>1, <1>4, <1>5, <1>6, ManagerTypes, ClientStep DEF ProcessEvent

LEMMA LoopEndsStep ==
  ASSUME ManagerInv, NEW a \in Clients, LoopEnds(a)
  PROVE  ManagerInv'
<1>. DEFINE x == [client[a] EXCEPT !.loop = "ended"]
<1>1. client[a] \in Client /\ Exists(a) /\ Fine(client[a])
  BY ManagerTypes, ExistsIsClient DEF LoopEnds, ManagerInv, ClientsAreFine
<1>2. /\ x \in Client /\ x.loop = "ended" /\ x.tenant = client[a].tenant
      /\ x.kind = client[a].kind /\ x.sock = client[a].sock
      /\ x.connected = client[a].connected /\ x.queue = client[a].queue
      /\ x.at = client[a].at
  BY <1>1, ClientLoop
<1>3. client' = [client EXCEPT ![a] = x]
  BY DEF LoopEnds
<1>. HIDE DEF x
<1>4. Fine(x)
  BY <1>1, <1>2 DEF LoopEnds, Fine
<1>. QED
  BY <1>1, <1>2, <1>3, <1>4, ManagerTypes, ClientStep DEF LoopEnds

LEMMA ExpireStep ==
  ASSUME ManagerInv, NEW t \in Tenants, Expire(t)
  PROVE  ManagerInv'
<1>1. TypeOK'
  BY ManagerTypes DEF Expire, TypeOK
<1>. QED
  BY <1>1 DEF Expire, ManagerInv, ClientsAreFine, BornInOrder, TableIsSound, LockIsHeld,
     OrderIsTable, IsVictim, CallsAreSound, HeldIsFresh, HoldsOne, OpenIsOwned, Exists,
     InTable, Holds, Stops

\* The factory returns a client that nobody else knows.
LEMMA CreateStep ==
  ASSUME ManagerInv, NEW c \in Callers, Create(c)
  PROVE  ManagerInv'
<1>0. /\ caller[c].at = "build" /\ caller[c] \in Busy
      /\ caller[c].tenant \in Tenants /\ caller[c].op \in {"send", "qr"}
  BY ManagerTypes, CallIsBusy DEF Create, ManagerInv, CallsAreSound
<1>1. PICK n : n = born + 1
  OBVIOUS
<1>2. n \in Clients /\ born' = n /\ born \in Nat /\ born < n /\ born' \in 0 .. MaxClients
  BY <1>1, ManagerTypes, ManagerAssumption DEF Create, Clients, TypeOK
<1>3. PICK x \in Client :
        /\ client' = [client EXCEPT ![n] = x]
        /\ x.tenant = caller[c].tenant /\ x.sock = "down" /\ x.connected = FALSE
        /\ x.loop = "new" /\ x.queue = <<>> /\ x.at = "select"
  <2>1. Factory[caller[c].op] \in {"real", "stub"}
    BY <1>0, ManagerAssumption
  <2>. QED
    BY <1>0, <1>1, <2>1, ClientNew DEF Create
<1>4. PICK b \in Busy :
        /\ caller' = [caller EXCEPT ![c] = b]
        /\ b.at = "insert" /\ b.op = caller[c].op /\ b.tenant = caller[c].tenant
        /\ b.has = n
  <2>. DEFINE d == [caller[c] EXCEPT !.at = "insert"]
              b == [d EXCEPT !.has = n]
  <2>1. d \in Busy /\ d.at = "insert" /\ d.op = caller[c].op /\ d.tenant = caller[c].tenant
    BY <1>0, BusyAt DEF Steps
  <2>2. caller' = [caller EXCEPT ![c] = b]
    BY <1>1, Zenon DEF Create
  <2>3. /\ b \in Busy /\ b.at = "insert" /\ b.op = caller[c].op
        /\ b.tenant = caller[c].tenant /\ b.has = n
    <3>. HIDE DEF d
    <3>. QED
      BY <1>2, <2>1, BusyHas
  <2>. HIDE DEF b
  <2>. QED
    BY <2>2, <2>3
<1>5. UNCHANGED <<clients, order, lock, cached, regLock, heard>>
  BY DEF Create
<1>6. /\ client'[n] = x /\ \A e \in Clients : e # n => client'[e] = client[e]
      /\ caller'[c] = b /\ \A d \in Callers : d # c => caller'[d] = caller[d]
  BY <1>2, <1>3, <1>4, ManagerTypes
<1>7. ~Exists(n) /\ \A e \in Clients : Exists(e)' <=> Exists(e) \/ e = n
  BY <1>2, <1>6, ClientFields DEF ManagerInv, BornInOrder, Exists, Clients
<1>8. \A t \in Tenants : clients[t] # n /\ (clients[t] # None => clients[t] \in Clients)
  BY <1>2, <1>7, ManagerTypes DEF ManagerInv, TableIsSound, Clients, None
<1>9. \A e \in Clients : InTable(e)' <=> InTable(e)
  BY <1>0, <1>3, <1>5, <1>6, <1>7, <1>8 DEF InTable
<1>10. TypeOK'
  BY <1>2, <1>3, <1>4, <1>5, ManagerTypes DEF TypeOK
<1>11. ClientsAreFine'
  <2>1. Fine(x)
    BY <1>3 DEF Fine
  <2>. QED
    BY <1>6, <1>7, <2>1 DEF ManagerInv, ClientsAreFine
<1>12. BornInOrder'
  BY <1>2, <1>7 DEF ManagerInv, BornInOrder, Clients
<1>13. TableIsSound'
  BY <1>5, <1>6, <1>7, <1>8 DEF ManagerInv, TableIsSound
<1>14. LockIsHeld'
  BY <1>0, <1>4, <1>5, <1>6 DEF ManagerInv, LockIsHeld
<1>15. OrderIsTable'
  <2>1. \A a : IsVictim(a)' <=> IsVictim(a)
    BY <1>0, <1>4, <1>6 DEF IsVictim
  <2>. QED
    BY <1>5, <2>1 DEF ManagerInv, OrderIsTable
<1>16. CallsAreSound'
  <2> SUFFICES ASSUME NEW d \in Callers
               PROVE  (/\ caller[d].at \in {"look", "build", "insert", "evict"}
                            => caller[d].tenant \in Tenants /\ caller[d].op \in {"send", "qr"}
                       /\ caller[d].at = "stop"
                            => /\ \A a \in caller[d].stop : Exists(a)
                               /\ caller[d].has # None => caller[d].has \in caller[d].stop
                       /\ caller[d].at = "evict"
                            => /\ clients[caller[d].tenant] = None
                               /\ \E v \in Clients : caller[d].stop = {v} /\ InTable(v))'
    BY DEF CallsAreSound
  <2>1. CASE d = c
    BY <1>0, <1>4, <1>6, <2>1
  <2>2. CASE d # c
    <3>1. caller[d].at = "stop" => caller[d].stop \subseteq Clients
      BY ManagerTypes, CallIsBusy, BusyFields
    <3>. QED
      BY <1>5, <1>6, <1>7, <1>9, <2>2, <3>1 DEF ManagerInv, CallsAreSound
  <2>. QED
    BY <2>1, <2>2
<1>17. \A d \in Callers, e \in Clients :
         Holds(d, e)' <=> Holds(d, e) \/ (d = c /\ e = n)
  BY <1>0, <1>4, <1>6 DEF Holds
<1>18. \A d \in Callers : ~Holds(d, n)
  BY <1>2, <1>7 DEF ManagerInv, HeldIsFresh
<1>19. HoldsOne'
  BY <1>2, <1>4, <1>6 DEF ManagerInv, HoldsOne, Clients, None
<1>20. HeldIsFresh'
  <2> SUFFICES ASSUME NEW d \in Callers, NEW e \in Clients, Holds(d, e)'
               PROVE  /\ Exists(e)' /\ client'[e].tenant = caller'[d].tenant
                      /\ client'[e].loop = "new" /\ ~InTable(e)'
                      /\ \A g \in Callers : Holds(g, e)' => g = d
    BY DEF HeldIsFresh
  <2>1. CASE e = n
    BY <1>3, <1>4, <1>6, <1>7, <1>8, <1>9, <1>17, <1>18, <2>1 DEF InTable
  <2>2. CASE e # n
    <3>1. Holds(d, e) /\ d # c
      BY <1>0, <1>17, <2>2 DEF Holds
    <3>. QED
      BY <1>6, <1>7, <1>9, <1>17, <2>2, <3>1 DEF ManagerInv, HeldIsFresh
  <2>. QED
    BY <2>1, <2>2
<1>21. OpenIsOwned'
  <2>1. \A d \in Callers, e \in Clients : Stops(d, e) => Stops(d, e)'
    BY <1>0, <1>6 DEF Stops
  <2>. QED
    BY <1>2, <1>6, <1>7, <1>9, <1>17, <2>1 DEF ManagerInv, OpenIsOwned
<1>. QED
  BY <1>10, <1>11, <1>12, <1>13, <1>14, <1>15, <1>16, <1>19, <1>20, <1>21 DEF ManagerInv

LEMMA CancelledFields ==
  ASSUME NEW x \in Client, Fine(x)
  PROVE  LET y == Cancelled(x) IN
         /\ y \in Client /\ Fine(y) /\ y.tenant = x.tenant /\ y.sock = x.sock
         /\ y.loop = "new" <=> x.loop = "new"
<1>1. CASE x.loop = "running"
  <2>. DEFINE y == [x EXCEPT !.loop = "cancelled"]
  <2>1. /\ y \in Client /\ y.loop = "cancelled" /\ y.tenant = x.tenant /\ y.kind = x.kind
        /\ y.sock = x.sock /\ y.connected = x.connected /\ y.queue = x.queue
        /\ y.at = x.at
    BY ClientLoop
  <2>2. Cancelled(x) = y
    BY <1>1 DEF Cancelled
  <2>. HIDE DEF y
  <2>3. Fine(y)
    BY <1>1, <2>1 DEF Fine
  <2>. QED
    BY <1>1, <2>1, <2>2, <2>3
<1>2. CASE x.loop # "running"
  BY <1>2 DEF Cancelled
<1>. QED
  BY <1>1, <1>2

LEMMA ClosedFields ==
  ASSUME NEW x \in Client, Fine(x), LoopsEnded(x)
  PROVE  LET y == Closed(x) IN
         /\ y \in Client /\ Fine(y) /\ y.tenant = x.tenant /\ y.sock = "closed"
         /\ y.loop = x.loop
<1>. DEFINE y == [x EXCEPT !.sock = "closed"]
<1>1. /\ y \in Client /\ y.loop = x.loop /\ y.tenant = x.tenant /\ y.kind = x.kind
      /\ y.sock = "closed" /\ y.connected = x.connected /\ y.queue = x.queue
      /\ y.at = x.at
  BY ClientSock
<1>2. Closed(x) = y
  BY DEF Closed
<1>. HIDE DEF y
<1>3. Fine(y)
  BY <1>1 DEF Fine, LoopsEnded
<1>. QED
  BY <1>1, <1>2, <1>3

\* What is known at the second critical section and in an eviction.
LEMMA HeldFacts ==
  ASSUME ManagerInv, NEW c \in Callers, caller[c].at \in {"insert", "evict"}
  PROVE  /\ caller[c] \in Busy /\ caller[c].tenant \in Tenants
         /\ caller[c].has \in Clients
         /\ LET a == caller[c].has IN
            /\ Exists(a) /\ client[a] \in Client /\ Fine(client[a]) /\ Holds(c, a)
            /\ client[a].tenant = caller[c].tenant /\ client[a].loop = "new"
            /\ ~InTable(a) /\ \A d \in Callers : Holds(d, a) => d = c
<1>1. caller[c] \in Busy /\ caller[c].has \in Clients
  BY ManagerTypes, CallIsBusy, BusyFields DEF ManagerInv, HoldsOne
<1>2. caller[c].tenant \in Tenants /\ Holds(c, caller[c].has)
  BY DEF ManagerInv, CallsAreSound, Holds
<1>3. LET a == caller[c].has IN
      /\ Exists(a) /\ client[a].tenant = caller[c].tenant /\ client[a].loop = "new"
      /\ ~InTable(a) /\ \A d \in Callers : Holds(d, a) => d = c
  BY <1>1, <1>2 DEF ManagerInv, HeldIsFresh
<1>4. LET a == caller[c].has IN client[a] \in Client /\ Fine(client[a])
  BY <1>1, <1>3, ManagerTypes, ExistsIsClient DEF ManagerInv, ClientsAreFine
<1>. QED
  BY <1>1, <1>2, <1>3, <1>4

LEMMA NobodyEvicts ==
  ASSUME ManagerInv, lock = None
  PROVE  (\A d \in Callers : caller[d].at # "evict") /\ \A a : ~IsVictim(a)
BY ManagerAssumption DEF ManagerInv, LockIsHeld, IsVictim

\* Another call was faster: the client of this one is closed.
LEMMA InsertLost ==
  ASSUME ManagerInv, NEW c \in Callers, Insert(c), clients[caller[c].tenant] # None
  PROVE  ManagerInv'
<1>0. caller[c].at = "insert" /\ lock = None
  BY DEF Insert
<1>1. PICK t \in Tenants : t = caller[c].tenant
  BY <1>0, HeldFacts
<1>2. PICK a \in Clients : a = caller[c].has
  BY <1>0, HeldFacts
<1>3. PICK v \in Clients : v = clients[t]
  BY <1>1, ManagerTypes
<1>4. /\ client' = [client EXCEPT ![a] = Closed(client[a])]
      /\ order' = Touched(t) /\ Handed(c, v)
      /\ UNCHANGED <<clients, lock, born, heard>>
  BY <1>1, <1>2, <1>3 DEF Insert
<1>5. /\ Exists(a) /\ client[a] \in Client /\ Fine(client[a]) /\ Holds(c, a)
      /\ client[a].tenant = t /\ client[a].loop = "new"
      /\ ~InTable(a) /\ \A d \in Callers : Holds(d, a) => d = c
  BY <1>0, <1>1, <1>2, HeldFacts
<1>6. PICK x \in Client : /\ client' = [client EXCEPT ![a] = x]
                          /\ Fine(x) /\ x.tenant = t /\ x.sock = "closed" /\ x.loop = "new"
  <2>1. PICK x : x = Closed(client[a])
    OBVIOUS
  <2>2. LoopsEnded(client[a])
    BY <1>5 DEF LoopsEnded
  <2>3. x \in Client /\ Fine(x) /\ x.tenant = t /\ x.sock = "closed" /\ x.loop = "new"
    BY <1>5, <2>1, <2>2, ClosedFields
  <2>. QED
    BY <1>4, <2>1, <2>3
<1>7. PICK b \in Busy : /\ caller' = [caller EXCEPT ![c] = b] /\ b.at = "use"
                        /\ cached' \in [Tenants -> Clients \cup {None}]
                        /\ regLock' \in Callers \cup {None}
  BY <1>0, <1>4, HeldFacts, ManagerTypes, HandedType
<1>8. /\ client'[a] = x /\ \A e \in Clients : e # a => client'[e] = client[e]
      /\ caller'[c] = b /\ \A d \in Callers : d # c => caller'[d] = caller[d]
  BY <1>6, <1>7, ManagerTypes
<1>9. \A e \in Clients : /\ Exists(e)' <=> Exists(e)
                         /\ Exists(e) => client'[e].tenant = client[e].tenant
                         /\ InTable(e)' <=> InTable(e)
  BY <1>4, <1>5, <1>6, <1>8, ClientFields DEF Exists, InTable
<1>10. TypeOK'
  BY <1>4, <1>6, <1>7, ManagerTypes, TouchedKeeps DEF TypeOK
<1>11. ClientsAreFine' /\ BornInOrder'
  BY <1>4, <1>6, <1>8, <1>9 DEF ManagerInv, ClientsAreFine, BornInOrder
<1>12. TableIsSound'
  BY <1>4, <1>9, ManagerTypes DEF ManagerInv, TableIsSound
<1>13. \A d \in Callers : caller'[d].at # "evict"
  BY <1>0, <1>7, <1>8, NobodyEvicts
<1>14. LockIsHeld'
  BY <1>0, <1>4, <1>13, ManagerAssumption DEF LockIsHeld
<1>15. OrderIsTable'
  BY <1>0, <1>4, <1>13, TouchedKeeps, NobodyEvicts DEF ManagerInv, OrderIsTable, IsVictim
<1>16. CallsAreSound'
  <2>1. \A d \in Callers : caller[d].at = "stop" => caller[d].stop \subseteq Clients
    BY ManagerTypes, CallIsBusy, BusyFields
  <2>. QED
    BY <1>4, <1>7, <1>8, <1>9, <1>13, <2>1 DEF ManagerInv, CallsAreSound
<1>17. \A d \in Callers, e \in Clients : Holds(d, e)' <=> Holds(d, e) /\ d # c
  BY <1>7, <1>8 DEF Holds
<1>18. HeldIsFresh' /\ HoldsOne'
  <2>1. HoldsOne'
    BY <1>7, <1>8 DEF ManagerInv, HoldsOne
  <2>2. \A d \in Callers, e \in Clients : Holds(d, e)' => e # a /\ caller'[d] = caller[d]
    BY <1>5, <1>8, <1>17
  <2>. QED
    BY <1>8, <1>9, <1>17, <2>1, <2>2 DEF ManagerInv, HeldIsFresh
<1>19. OpenIsOwned'
  <2>1. \A d \in Callers, e \in Clients : Stops(d, e) => Stops(d, e)'
    BY <1>0, <1>8 DEF Stops
  <2>2. \A d \in Callers, e \in Clients : Holds(d, e) /\ e # a => Holds(d, e)'
    BY <1>2, <1>17 DEF Holds
  <2>. QED
    BY <1>6, <1>8, <1>9, <2>1, <2>2 DEF ManagerInv, OpenIsOwned
<1>. QED
  BY <1>10, <1>11, <1>12, <1>14, <1>15, <1>16, <1>18, <1>19 DEF ManagerInv

\* There is room in the table.
LEMMA InsertRoom ==
  ASSUME ManagerInv, NEW c \in Callers, caller[c].at = "insert", lock = None,
         clients[caller[c].tenant] = None,
         clients' = [clients EXCEPT ![caller[c].tenant] = caller[c].has],
         order' = Append(order, caller[c].tenant),
         Handed(c, caller[c].has),
         UNCHANGED <<lock, client, born, heard>>
  PROVE  ManagerInv'
<1>1. PICK t \in Tenants : t = caller[c].tenant
  BY HeldFacts
<1>2. PICK a \in Clients : a = caller[c].has
  BY HeldFacts
<1>3. /\ clients[t] = None /\ clients' = [clients EXCEPT ![t] = a]
      /\ order' = Append(order, t) /\ Handed(c, a)
  BY <1>1, <1>2
<1>5. /\ Exists(a) /\ client[a] \in Client /\ Fine(client[a]) /\ Holds(c, a)
      /\ client[a].tenant = t /\ client[a].loop = "new"
      /\ ~InTable(a) /\ \A d \in Callers : Holds(d, a) => d = c
  BY <1>1, <1>2, HeldFacts
<1>7. PICK b \in Busy : /\ caller' = [caller EXCEPT ![c] = b] /\ b.at = "use"
                        /\ cached' \in [Tenants -> Clients \cup {None}]
                        /\ regLock' \in Callers \cup {None}
  BY <1>3, HeldFacts, ManagerTypes, HandedType
<1>8. /\ clients'[t] = a /\ \A u \in Tenants : u # t => clients'[u] = clients[u]
      /\ caller'[c] = b /\ \A d \in Callers : d # c => caller'[d] = caller[d]
  BY <1>3, <1>7, ManagerTypes
<1>9. \A e \in Clients : /\ Exists(e)' <=> Exists(e)
                         /\ InTable(e)' <=> InTable(e) \/ e = a
  <2> SUFFICES ASSUME NEW e \in Clients, Exists(e)
               PROVE  InTable(e)' <=> InTable(e) \/ e = a
    BY <1>5 DEF Exists, InTable
  <2>1. client[e].tenant \in Tenants /\ e # None
    BY ManagerTypes, ExistsIsClient, ClientFields DEF Clients, None
  <2>. QED
    BY <1>3, <1>5, <1>8, <2>1 DEF Exists, InTable
<1>10. t \notin ToSet(order)
  BY <1>3 DEF ManagerInv, OrderIsTable
<1>11. /\ order' \in Seq(Tenants) /\ Distinct(order')
       /\ ToSet(order') = ToSet(order) \cup {t}
  BY <1>3, <1>10, ManagerTypes, AppendDistinct
<1>12. TypeOK'
  <2>1. clients' \in [Tenants -> Clients \cup {None}]
    BY <1>3, ManagerTypes
  <2>2. caller' \in [Callers -> Busy \cup {Idle}]
    BY <1>7, ManagerTypes
  <2>3. /\ lock' \in Callers \cup {None}
        /\ client' \in [Clients -> Client \cup {Unborn}]
        /\ born' \in 0 .. MaxClients /\ heard' \in 0 .. MaxEvents
    BY ManagerTypes DEF TypeOK
  <2>. QED
    BY <1>7, <1>11, <2>1, <2>2, <2>3 DEF TypeOK
<1>13. ClientsAreFine' /\ BornInOrder'
  BY DEF ManagerInv, ClientsAreFine, BornInOrder, Exists
<1>14. TableIsSound'
  BY <1>5, <1>8 DEF ManagerInv, TableIsSound, Exists
<1>15. \A d \in Callers : caller'[d].at # "evict"
  BY <1>7, <1>8, NobodyEvicts
<1>16. LockIsHeld'
  BY <1>15, ManagerAssumption DEF LockIsHeld
<1>17. OrderIsTable'
  <2>1. \A e : ~IsVictim(e) /\ ~IsVictim(e)'
    BY <1>15, NobodyEvicts DEF IsVictim
  <2>2. a # None
    BY DEF Clients, None
  <2>. QED
    BY <1>8, <1>11, <2>1, <2>2 DEF ManagerInv, OrderIsTable
<1>18. CallsAreSound'
  <2>1. \A d \in Callers : caller[d].at = "stop" => caller[d].stop \subseteq Clients
    BY ManagerTypes, CallIsBusy, BusyFields
  <2>. QED
    BY <1>7, <1>8, <1>9, <1>15, <2>1 DEF ManagerInv, CallsAreSound
<1>19. \A d \in Callers, e \in Clients : Holds(d, e)' <=> Holds(d, e) /\ d # c
  BY <1>7, <1>8 DEF Holds
<1>20. HeldIsFresh' /\ HoldsOne'
  <2>1. HoldsOne'
    BY <1>7, <1>8 DEF ManagerInv, HoldsOne
  <2>2. \A d \in Callers, e \in Clients : Holds(d, e)' => e # a /\ caller'[d] = caller[d]
    BY <1>5, <1>8, <1>19
  <2>. QED
    BY <1>9, <1>19, <2>1, <2>2 DEF ManagerInv, HeldIsFresh
<1>21. OpenIsOwned'
  <2>1. \A d \in Callers, e \in Clients : Stops(d, e) => Stops(d, e)'
    BY <1>8 DEF Stops
  <2>2. \A d \in Callers, e \in Clients : Holds(d, e) /\ e # a => Holds(d, e)'
    BY <1>2, <1>19 DEF Holds
  <2>. QED
    BY <1>9, <2>1, <2>2 DEF ManagerInv, OpenIsOwned
<1>. QED
  BY <1>12, <1>13, <1>14, <1>16, <1>17, <1>18, <1>20, <1>21 DEF ManagerInv

\* The table is full: the eviction begins, and m.mu stays locked.
LEMMA InsertFull ==
  ASSUME ManagerInv, NEW c \in Callers, caller[c].at = "insert", lock = None,
         clients[caller[c].tenant] = None, Insert(c), lock' # None
  PROVE  ManagerInv'
<1>0. /\ lock' = c /\ order' = Tail(order)
      /\ UNCHANGED <<clients, cached, regLock, born, heard>>
  BY DEF Insert
<1>1. order # <<>>
  <2>1. Table # {}
    <3>1. Cardinality(Table) >= MaxActiveTenants
      BY DEF Insert
    <3>2. Cardinality({}) = 0
      BY FS_EmptySet
    <3>3. ~(0 >= MaxActiveTenants)
      BY ManagerAssumption
    <3>. QED
      BY <3>1, <3>2, <3>3
  <2>2. PICK t \in Tenants : clients[t] # None
    BY <2>1 DEF Table
  <2>3. t \in ToSet(order)
    BY <2>2, NobodyEvicts DEF ManagerInv, OrderIsTable
  <2>. QED
    BY <2>3 DEF ToSet
<1>2. PICK h : h = Head(order)
  OBVIOUS
<1>3. /\ Tail(order) \in Seq(Tenants) /\ Distinct(Tail(order))
      /\ h \in ToSet(order) /\ ToSet(Tail(order)) = ToSet(order) \ {h}
  BY <1>1, <1>2, ManagerTypes, TailDistinct
<1>4. h \in Tenants
  BY <1>1, <1>2, ManagerTypes
<1>5. PICK v \in Clients : v = clients[h]
  BY <1>3, <1>4, ManagerTypes DEF ManagerInv, OrderIsTable
<1>6. /\ Exists(v) /\ client[v].tenant = h /\ InTable(v) /\ client[v] \in Client
      /\ Fine(client[v])
  BY <1>4, <1>5, ManagerTypes, ExistsIsClient
     DEF ManagerInv, TableIsSound, InTable, ClientsAreFine, Clients, None
<1>7. PICK x \in Client : /\ client' = [client EXCEPT ![v] = x] /\ Fine(x)
                          /\ x.tenant = h /\ x.sock = client[v].sock
                          /\ x.loop = "new" <=> client[v].loop = "new"
  <2>1. PICK x : x = Cancelled(client[v])
    OBVIOUS
  <2>2. /\ x \in Client /\ Fine(x) /\ x.tenant = h /\ x.sock = client[v].sock
        /\ x.loop = "new" <=> client[v].loop = "new"
    BY <1>6, <2>1, CancelledFields
  <2>3. client' = [client EXCEPT ![v] = x]
    BY <1>2, <1>5, <2>1 DEF Insert
  <2>. QED
    BY <2>2, <2>3
<1>8. PICK b \in Busy : /\ caller' = [caller EXCEPT ![c] = b]
                        /\ b.at = "evict" /\ b.stop = {v} /\ b.has = caller[c].has
                        /\ b.tenant = caller[c].tenant /\ b.op = caller[c].op
  <2>. DEFINE d == [caller[c] EXCEPT !.at = "evict"]
              b == [d EXCEPT !.stop = {v}]
  <2>1. /\ d \in Busy /\ d.at = "evict" /\ d.op = caller[c].op
        /\ d.tenant = caller[c].tenant /\ d.has = caller[c].has
    BY HeldFacts, BusyAt DEF Steps
  <2>2. caller' = [caller EXCEPT ![c] = b]
    BY <1>0, <1>2, <1>5, ManagerAssumption DEF Insert
  <2>3. /\ b \in Busy /\ b.at = "evict" /\ b.stop = {v} /\ b.has = caller[c].has
        /\ b.tenant = caller[c].tenant /\ b.op = caller[c].op
    <3>. HIDE DEF d
    <3>. QED
      BY <2>1, BusyStop
  <2>. HIDE DEF b
  <2>. QED
    BY <2>2, <2>3
<1>9. /\ client'[v] = x /\ \A e \in Clients : e # v => client'[e] = client[e]
      /\ caller'[c] = b /\ \A d \in Callers : d # c => caller'[d] = caller[d]
  BY <1>7, <1>8, ManagerTypes
<1>10. \A e \in Clients : /\ Exists(e)' <=> Exists(e)
                          /\ Exists(e) => client'[e].tenant = client[e].tenant
                          /\ client'[e].loop = "new" <=> client[e].loop = "new"
                          /\ client'[e].sock = client[e].sock
                          /\ InTable(e)' <=> InTable(e)
  BY <1>0, <1>6, <1>7, <1>9, ClientFields DEF Exists, InTable
<1>11. TypeOK'
  BY <1>0, <1>3, <1>7, <1>8, ManagerTypes DEF TypeOK
<1>12. ClientsAreFine' /\ BornInOrder'
  BY <1>0, <1>7, <1>9, <1>10 DEF ManagerInv, ClientsAreFine, BornInOrder
<1>13. TableIsSound'
  BY <1>0, <1>10, ManagerTypes DEF ManagerInv, TableIsSound
<1>14. \A d \in Callers : d # c => caller'[d].at # "evict"
  BY <1>9, NobodyEvicts
<1>15. LockIsHeld'
  BY <1>0, <1>8, <1>9, <1>14 DEF LockIsHeld
<1>16. OrderIsTable'
  <2>1. \A e : ~IsVictim(e) /\ (IsVictim(e)' <=> e = v)
    BY <1>8, <1>9, <1>14, NobodyEvicts DEF IsVictim
  <2>2. \A u \in Tenants : clients[u] = v <=> u = h
    BY <1>5, <1>6 DEF ManagerInv, TableIsSound, Clients, None
  <2>. QED
    BY <1>0, <1>3, <2>1, <2>2 DEF ManagerInv, OrderIsTable
<1>17. CallsAreSound'
  <2>1. \A d \in Callers : caller[d].at = "stop" => caller[d].stop \subseteq Clients
    BY ManagerTypes, CallIsBusy, BusyFields
  <2>2. /\ b.tenant \in Tenants /\ b.op \in {"send", "qr"} /\ clients'[b.tenant] = None
        /\ b.stop = {v} /\ InTable(v)'
    BY <1>0, <1>6, <1>8, <1>10 DEF ManagerInv, CallsAreSound
  <2>. QED
    BY <1>0, <1>8, <1>9, <1>10, <1>14, <2>1, <2>2 DEF ManagerInv, CallsAreSound
<1>18. \A d \in Callers, e \in Clients : Holds(d, e)' <=> Holds(d, e)
  BY <1>8, <1>9 DEF Holds
<1>19. HeldIsFresh' /\ HoldsOne'
  <2>1. HoldsOne'
    BY <1>8, <1>9 DEF ManagerInv, HoldsOne
  <2>2. \A d \in Callers : caller'[d].tenant = caller[d].tenant
    BY <1>8, <1>9
  <2>. QED
    BY <1>0, <1>10, <1>18, <2>1, <2>2 DEF ManagerInv, HeldIsFresh
<1>20. OpenIsOwned'
  <2>1. \A d \in Callers, e \in Clients : Stops(d, e) => Stops(d, e)'
    BY <1>9 DEF Stops
  <2>. QED
    BY <1>0, <1>10, <1>18, <2>1 DEF ManagerInv, OpenIsOwned
<1>. QED
  BY <1>11, <1>12, <1>13, <1>15, <1>16, <1>17, <1>19, <1>20 DEF ManagerInv

LEMMA InsertStep ==
  ASSUME ManagerInv, NEW c \in Callers, Insert(c)
  PROVE  ManagerInv'
<1>1. CASE clients[caller[c].tenant] # None
  BY <1>1, InsertLost
<1>2. CASE clients[caller[c].tenant] = None
  <2>1. caller[c].at = "insert" /\ lock = None
    BY DEF Insert
  <2>2. CASE lock' # None
    BY <1>2, <2>1, <2>2, InsertFull
  <2>3. CASE lock' = None
    <3>1. /\ clients' = [clients EXCEPT ![caller[c].tenant] = caller[c].has]
          /\ order' = Append(order, caller[c].tenant)
          /\ Handed(c, caller[c].has)
          /\ UNCHANGED <<lock, client, born, heard>>
      BY <1>2, <2>3, ManagerAssumption DEF Insert
    <3>. QED
      BY <1>2, <2>1, <3>1, InsertRoom
  <2>. QED
    BY <2>2, <2>3
<1>. QED
  BY <1>1, <1>2

\* The victim's loops have ended: it leaves the table, closed.
LEMMA EvictStep ==
  ASSUME ManagerInv, NEW c \in Callers, Evict(c)
  PROVE  ManagerInv'
<1>0. caller[c].at = "evict" /\ lock = c /\ lock' = None
  BY DEF Evict, ManagerInv, LockIsHeld
<1>1. PICK t \in Tenants : t = caller[c].tenant
  BY <1>0, HeldFacts
<1>2. PICK a \in Clients : a = caller[c].has
  BY <1>0, HeldFacts
<1>3. PICK v \in Clients : caller[c].stop = {v} /\ InTable(v)
  BY <1>0 DEF ManagerInv, CallsAreSound
<1>4. PICK h : h = client[v].tenant
  OBVIOUS
<1>5. /\ Exists(v) /\ client[v] \in Client /\ Fine(client[v]) /\ h \in Tenants
      /\ clients[h] = v /\ clients[t] = None /\ h # t /\ v # None
  BY <1>0, <1>1, <1>3, <1>4, ManagerTypes, ExistsIsClient, ClientFields
     DEF InTable, ManagerInv, ClientsAreFine, CallsAreSound, Clients, None
<1>6. /\ LoopsEnded(client[v])
      /\ client' = [client EXCEPT ![v] = Closed(client[v])]
      /\ clients' = [clients EXCEPT ![h] = None, ![t] = a]
      /\ order' = Append(order, t) /\ Handed(c, a)
      /\ UNCHANGED <<born, heard>>
  BY <1>1, <1>2, <1>3, <1>4 DEF Evict
<1>7. /\ Exists(a) /\ client[a] \in Client /\ Fine(client[a]) /\ Holds(c, a)
      /\ client[a].tenant = t /\ client[a].loop = "new"
      /\ ~InTable(a) /\ \A d \in Callers : Holds(d, a) => d = c
  BY <1>0, <1>1, <1>2, HeldFacts
<1>8. a # v
  BY <1>3, <1>7
<1>9. PICK x \in Client : /\ client' = [client EXCEPT ![v] = x] /\ Fine(x)
                          /\ x.tenant = h /\ x.sock = "closed"
                          /\ x.loop = client[v].loop
  <2>1. PICK x : x = Closed(client[v])
    OBVIOUS
  <2>2. /\ x \in Client /\ Fine(x) /\ x.tenant = h /\ x.sock = "closed"
        /\ x.loop = client[v].loop
    BY <1>4, <1>5, <1>6, <2>1, ClosedFields
  <2>. QED
    BY <1>6, <2>1, <2>2
<1>10. PICK b \in Busy : /\ caller' = [caller EXCEPT ![c] = b] /\ b.at = "use"
                         /\ cached' \in [Tenants -> Clients \cup {None}]
                         /\ regLock' \in Callers \cup {None}
  BY <1>0, <1>6, HeldFacts, ManagerTypes, HandedType
<1>11. /\ client'[v] = x /\ \A e \in Clients : e # v => client'[e] = client[e]
       /\ caller'[c] = b /\ \A d \in Callers : d # c => caller'[d] = caller[d]
       /\ clients'[t] = a /\ clients'[h] = None
       /\ \A u \in Tenants : u # t /\ u # h => clients'[u] = clients[u]
  BY <1>5, <1>6, <1>9, <1>10, ManagerTypes
<1>12. \A e \in Clients : /\ Exists(e)' <=> Exists(e)
                          /\ Exists(e) => client'[e].tenant = client[e].tenant
                          /\ InTable(e)' <=> (InTable(e) /\ e # v) \/ e = a
  <2>1. \A e \in Clients : /\ Exists(e)' <=> Exists(e)
                           /\ Exists(e) => client'[e].tenant = client[e].tenant
    BY <1>4, <1>5, <1>9, <1>11, ClientFields DEF Exists
  <2> SUFFICES ASSUME NEW e \in Clients, Exists(e)
               PROVE  InTable(e)' <=> (InTable(e) /\ e # v) \/ e = a
    BY <1>7, <2>1 DEF InTable
  <2>2. client[e].tenant \in Tenants /\ e # None
    BY ManagerTypes, ExistsIsClient, ClientFields DEF Clients, None
  <2>3. InTable(e)' <=> clients'[client[e].tenant] = e
    BY <2>1 DEF InTable
  <2>4. CASE client[e].tenant = t
    BY <1>5, <1>7, <1>11, <2>2, <2>3, <2>4 DEF InTable
  <2>5. CASE client[e].tenant = h
    BY <1>5, <1>7, <1>8, <1>11, <2>2, <2>3, <2>5 DEF InTable
  <2>6. CASE client[e].tenant # t /\ client[e].tenant # h
    BY <1>4, <1>7, <1>11, <2>2, <2>3, <2>6 DEF InTable
  <2>. QED
    BY <2>4, <2>5, <2>6
<1>13. t \notin ToSet(order)
  BY <1>5 DEF ManagerInv, OrderIsTable
<1>14. /\ order' \in Seq(Tenants) /\ Distinct(order')
       /\ ToSet(order') = ToSet(order) \cup {t}
  BY <1>6, <1>13, ManagerTypes, AppendDistinct
<1>15. TypeOK'
  <2>1. clients' \in [Tenants -> Clients \cup {None}]
    BY <1>6, ManagerTypes
  <2>2. client' \in [Clients -> Client \cup {Unborn}]
    BY <1>9, ManagerTypes
  <2>3. caller' \in [Callers -> Busy \cup {Idle}]
    BY <1>10, ManagerTypes
  <2>. QED
    BY <1>0, <1>6, <1>10, <1>14, <2>1, <2>2, <2>3, ManagerTypes DEF TypeOK
<1>16. ClientsAreFine' /\ BornInOrder'
  BY <1>6, <1>9, <1>11, <1>12 DEF ManagerInv, ClientsAreFine, BornInOrder
<1>17. TableIsSound'
  <2>1. \A u \in Tenants : clients[u] \in Clients \cup {None}
    BY ManagerTypes
  <2> SUFFICES ASSUME NEW u \in Tenants, clients'[u] # None
               PROVE  client'[clients'[u]] # Unborn /\ client'[clients'[u]].tenant = u
    BY DEF TableIsSound, Exists
  <2>4. \A e \in Clients : Exists(e) => client'[e] # Unborn
    BY <1>12 DEF Exists
  <2>2. CASE u = t
    BY <1>7, <1>11, <1>12, <2>2, <2>4
  <2>3. CASE u # t
    <3>1. u # h /\ clients'[u] = clients[u]
      BY <1>11, <2>3
    <3>. QED
      BY <1>12, <2>1, <2>4, <3>1 DEF ManagerInv, TableIsSound
  <2>. QED
    BY <2>2, <2>3
<1>18. \A d \in Callers : caller'[d].at # "evict"
  BY <1>0, <1>10, <1>11 DEF ManagerInv, LockIsHeld
<1>19. LockIsHeld'
  BY <1>0, <1>18, ManagerAssumption DEF LockIsHeld
<1>20. OrderIsTable'
  <2>1. \A e : ~IsVictim(e)' /\ (IsVictim(e) <=> e = v)
    BY <1>0, <1>3, <1>18 DEF IsVictim, ManagerInv, LockIsHeld
  <2>2. \A u \in Tenants : clients[u] = v <=> u = h
    BY <1>4, <1>5 DEF ManagerInv, TableIsSound
  <2>3. a # None
    BY DEF Clients, None
  <2>. QED
    BY <1>5, <1>11, <1>14, <2>1, <2>2, <2>3 DEF ManagerInv, OrderIsTable
<1>21. CallsAreSound'
  <2>1. \A d \in Callers : caller[d].at = "stop" => caller[d].stop \subseteq Clients
    BY ManagerTypes, CallIsBusy, BusyFields
  <2>. QED
    BY <1>10, <1>11, <1>12, <1>18, <2>1 DEF ManagerInv, CallsAreSound
<1>22. \A d \in Callers, e \in Clients : Holds(d, e)' <=> Holds(d, e) /\ d # c
  BY <1>10, <1>11 DEF Holds
<1>23. HeldIsFresh' /\ HoldsOne'
  <2>1. HoldsOne'
    BY <1>10, <1>11 DEF ManagerInv, HoldsOne
  <2>2. \A d \in Callers, e \in Clients : Holds(d, e)' => e # a /\ caller'[d] = caller[d]
    BY <1>7, <1>11, <1>22
  <2>3. \A e \in Clients : client'[e].loop = client[e].loop
    BY <1>9, <1>11
  <2>. QED
    BY <1>12, <1>22, <2>1, <2>2, <2>3 DEF ManagerInv, HeldIsFresh
<1>24. OpenIsOwned'
  <2>1. \A d \in Callers, e \in Clients : Stops(d, e) => Stops(d, e)'
    BY <1>0, <1>11 DEF Stops
  <2>2. \A d \in Callers, e \in Clients : Holds(d, e) /\ e # a => Holds(d, e)'
    BY <1>2, <1>22 DEF Holds
  <2>. QED
    BY <1>9, <1>11, <1>12, <2>1, <2>2 DEF ManagerInv, OpenIsOwned
<1>. QED
  BY <1>15, <1>16, <1>17, <1>19, <1>20, <1>21, <1>23, <1>24 DEF ManagerInv

\* A reset takes the client out of the table and stops it afterwards.
LEMMA DisconnectStep ==
  ASSUME ManagerInv, NEW c \in Callers, NEW t \in Tenants, Disconnect(c, t)
  PROVE  ManagerInv'
<1>0. /\ caller[c] = Idle /\ caller[c].at = "idle" /\ lock = None /\ clients[t] # None
      /\ UNCHANGED <<lock, cached, regLock, born, heard>>
      /\ clients' = [clients EXCEPT ![t] = None]
      /\ order' = RemoveFirst(order, t)
  BY IdleFields DEF Disconnect
<1>1. PICK v \in Clients : v = clients[t]
  BY <1>0, ManagerTypes
<1>2. /\ Exists(v) /\ client[v] \in Client /\ Fine(client[v])
      /\ client[v].tenant = t /\ InTable(v) /\ v # None
  BY <1>0, <1>1, ManagerTypes, ExistsIsClient
     DEF InTable, ManagerInv, ClientsAreFine, TableIsSound
<1>3. PICK x \in Client : /\ client' = [client EXCEPT ![v] = x] /\ Fine(x)
                          /\ x.tenant = t /\ x.sock = client[v].sock
                          /\ x.loop = "new" <=> client[v].loop = "new"
  <2>1. PICK x : x = Cancelled(client[v])
    OBVIOUS
  <2>2. /\ x \in Client /\ Fine(x) /\ x.tenant = t /\ x.sock = client[v].sock
        /\ x.loop = "new" <=> client[v].loop = "new"
    BY <1>2, <2>1, CancelledFields
  <2>3. client' = [client EXCEPT ![v] = x]
    BY <1>1, <2>1 DEF Disconnect
  <2>. QED
    BY <2>2, <2>3
<1>4. PICK b \in Busy : /\ caller' = [caller EXCEPT ![c] = b]
                        /\ b.at = "stop" /\ b.stop = {v} /\ b.has = None
  <2>. DEFINE d == [op |-> "reset", at |-> "stop", tenant |-> t, has |-> None, stop |-> {}]
              b == [d EXCEPT !.stop = {v}]
  <2>1. d \in Busy /\ d.at = "stop" /\ d.has = None
    BY BusyStart DEF Steps
  <2>2. caller' = [caller EXCEPT ![c] = b]
    <3>1. caller' = [[caller EXCEPT ![c] = d] EXCEPT ![c].stop = {v}]
      BY <1>1 DEF Disconnect, Starts
    <3>. HIDE DEF d
    <3>. QED
      BY <3>1, ManagerTypes
  <2>3. b \in Busy /\ b.at = "stop" /\ b.stop = {v} /\ b.has = None
    <3>. HIDE DEF d
    <3>. QED
      BY <2>1, BusyStop
  <2>. HIDE DEF b
  <2>. QED
    BY <2>2, <2>3
<1>5. /\ client'[v] = x /\ \A e \in Clients : e # v => client'[e] = client[e]
      /\ caller'[c] = b /\ \A d \in Callers : d # c => caller'[d] = caller[d]
      /\ clients'[t] = None /\ \A u \in Tenants : u # t => clients'[u] = clients[u]
  BY <1>0, <1>3, <1>4, ManagerTypes
<1>6. \A e \in Clients : /\ Exists(e)' <=> Exists(e)
                         /\ Exists(e) => client'[e].tenant = client[e].tenant
                         /\ client'[e].loop = "new" <=> client[e].loop = "new"
                         /\ client'[e].sock = client[e].sock
                         /\ InTable(e)' <=> InTable(e) /\ e # v
  <2>1. \A e \in Clients : /\ Exists(e)' <=> Exists(e)
                           /\ Exists(e) => client'[e].tenant = client[e].tenant
                           /\ client'[e].loop = "new" <=> client[e].loop = "new"
                           /\ client'[e].sock = client[e].sock
    BY <1>2, <1>3, <1>5, ClientFields DEF Exists
  <2> SUFFICES ASSUME NEW e \in Clients, Exists(e)
               PROVE  InTable(e)' <=> InTable(e) /\ e # v
    BY <2>1 DEF InTable
  <2>2. client[e].tenant \in Tenants /\ e # None
    BY ManagerTypes, ExistsIsClient, ClientFields DEF Clients, None
  <2>. QED
    BY <1>1, <1>2, <1>5, <2>1, <2>2 DEF InTable
<1>7. /\ order' \in Seq(Tenants) /\ Distinct(order')
      /\ ToSet(order') = ToSet(order) \ {t}
  BY <1>0, ManagerTypes, RemoveDistinct
<1>8. TypeOK'
  BY <1>0, <1>3, <1>4, <1>7, ManagerTypes DEF TypeOK
<1>9. ClientsAreFine' /\ BornInOrder'
  BY <1>0, <1>3, <1>5, <1>6 DEF ManagerInv, ClientsAreFine, BornInOrder
<1>10. TableIsSound'
  BY <1>5, <1>6, ManagerTypes DEF ManagerInv, TableIsSound
<1>11. \A d \in Callers : caller'[d].at # "evict"
  BY <1>0, <1>4, <1>5, NobodyEvicts
<1>12. LockIsHeld'
  BY <1>0, <1>11, ManagerAssumption DEF LockIsHeld
<1>13. OrderIsTable'
  <2>1. \A e : ~IsVictim(e) /\ ~IsVictim(e)'
    BY <1>0, <1>11, NobodyEvicts DEF IsVictim
  <2>. QED
    BY <1>5, <1>7, <2>1 DEF ManagerInv, OrderIsTable
<1>14. CallsAreSound'
  <2>1. \A d \in Callers : caller[d].at = "stop" => caller[d].stop \subseteq Clients
    BY ManagerTypes, CallIsBusy, BusyFields
  <2>2. \A d \in Callers : d # c /\ caller[d].at \in {"look", "build", "insert", "evict"}
          => caller'[d].tenant \in Tenants /\ caller'[d].op \in {"send", "qr"}
    BY <1>5 DEF ManagerInv, CallsAreSound
  <2>. QED
    BY <1>2, <1>4, <1>5, <1>6, <1>11, <2>1, <2>2 DEF ManagerInv, CallsAreSound
<1>15. \A d \in Callers, e \in Clients : Holds(d, e)' <=> Holds(d, e)
  BY <1>0, <1>4, <1>5 DEF Holds
<1>16. HeldIsFresh' /\ HoldsOne'
  <2>1. HoldsOne'
    BY <1>4, <1>5 DEF ManagerInv, HoldsOne
  <2>2. \A d \in Callers, e \in Clients : Holds(d, e) => caller'[d] = caller[d]
    BY <1>0, <1>5 DEF Holds
  <2>. QED
    BY <1>6, <1>15, <2>1, <2>2 DEF ManagerInv, HeldIsFresh
<1>17. OpenIsOwned'
  <2>1. \A d \in Callers, e \in Clients : Stops(d, e) => Stops(d, e)'
    BY <1>0, <1>5 DEF Stops
  <2>2. Stops(c, v)'
    BY <1>4, <1>5 DEF Stops
  <2>. QED
    BY <1>6, <1>15, <2>1, <2>2 DEF ManagerInv, OpenIsOwned
<1>. QED
  BY <1>8, <1>9, <1>10, <1>12, <1>13, <1>14, <1>16, <1>17 DEF ManagerInv

LEMMA StopFacts ==
  ASSUME ManagerInv, NEW c \in Callers, caller[c].at = "stop", NEW a \in caller[c].stop
  PROVE  /\ caller[c] \in Busy /\ a \in Clients /\ caller[c].stop \in SUBSET Clients
         /\ Exists(a) /\ client[a] \in Client /\ Fine(client[a])
<1>1. caller[c] \in Busy /\ caller[c].stop \in SUBSET Clients /\ a \in Clients
  BY ManagerTypes, CallIsBusy, BusyFields
<1>2. Exists(a)
  BY DEF ManagerInv, CallsAreSound
<1>. QED
  BY <1>1, <1>2, ManagerTypes, ExistsIsClient DEF ManagerInv, ClientsAreFine

LEMMA StopStep ==
  ASSUME ManagerInv, NEW c \in Callers, NEW a \in Clients, Stop(c, a)
  PROVE  ManagerInv'
<1>0. /\ caller[c].at = "stop" /\ a \in caller[c].stop
      /\ UNCHANGED <<clients, order, lock, cached, regLock, born, heard>>
  BY DEF Stop
<1>1. /\ caller[c] \in Busy /\ Exists(a) /\ client[a] \in Client /\ Fine(client[a])
  BY <1>0, StopFacts
<1>2. PICK x \in Client : /\ client' = [client EXCEPT ![a] = x] /\ Fine(x)
                          /\ x.tenant = client[a].tenant /\ x.sock = client[a].sock
                          /\ x.loop = "new" <=> client[a].loop = "new"
  <2>1. PICK x : x = Cancelled(client[a])
    OBVIOUS
  <2>2. /\ x \in Client /\ Fine(x) /\ x.tenant = client[a].tenant
        /\ x.sock = client[a].sock
        /\ x.loop = "new" <=> client[a].loop = "new"
    BY <1>1, <2>1, CancelledFields
  <2>3. client' = [client EXCEPT ![a] = x]
    BY <2>1 DEF Stop
  <2>. QED
    BY <2>2, <2>3
<1>3. PICK b \in Busy : /\ caller' = [caller EXCEPT ![c] = b]
                        /\ b.at = "stop" /\ b.stop = caller[c].stop /\ b.has = a
  <2>. DEFINE b == [caller[c] EXCEPT !.has = a]
  <2>1. b \in Busy /\ b.at = "stop" /\ b.stop = caller[c].stop /\ b.has = a
    BY <1>0, <1>1, BusyHas
  <2>2. caller' = [caller EXCEPT ![c] = b]
    BY DEF Stop
  <2>. HIDE DEF b
  <2>. QED
    BY <2>1, <2>2
<1>4. /\ client'[a] = x /\ \A e \in Clients : e # a => client'[e] = client[e]
      /\ caller'[c] = b /\ \A d \in Callers : d # c => caller'[d] = caller[d]
  BY <1>2, <1>3, ManagerTypes
<1>5. \A e \in Clients : /\ Exists(e)' <=> Exists(e)
                         /\ Exists(e) => client'[e].tenant = client[e].tenant
                         /\ client'[e].loop = "new" <=> client[e].loop = "new"
                         /\ client'[e].sock = client[e].sock
                         /\ InTable(e)' <=> InTable(e)
  BY <1>0, <1>1, <1>2, <1>4, ClientFields DEF Exists, InTable
<1>6. \A d \in Callers : /\ caller'[d].at = caller[d].at
                         /\ caller'[d].stop = caller[d].stop
                         /\ d # c => caller'[d] = caller[d]
  BY <1>0, <1>3, <1>4
<1>7. \A d \in Callers, e \in Clients : /\ Holds(d, e)' <=> Holds(d, e)
                                        /\ Stops(d, e)' <=> Stops(d, e)
                                        /\ Holds(d, e) => caller'[d] = caller[d]
  BY <1>0, <1>6 DEF Holds, Stops
<1>8. TypeOK'
  BY <1>0, <1>2, <1>3, ManagerTypes DEF TypeOK
<1>9. ClientsAreFine' /\ BornInOrder' /\ TableIsSound' /\ LockIsHeld'
  <2>1. ClientsAreFine' /\ BornInOrder'
    BY <1>0, <1>2, <1>4, <1>5 DEF ManagerInv, ClientsAreFine, BornInOrder
  <2>2. TableIsSound' /\ LockIsHeld'
    BY <1>0, <1>5, <1>6, ManagerTypes DEF ManagerInv, TableIsSound, LockIsHeld
  <2>. QED
    BY <2>1, <2>2
<1>10. OrderIsTable'
  BY <1>0, <1>6 DEF ManagerInv, OrderIsTable, IsVictim
<1>11. CallsAreSound'
  <2>1. \A d \in Callers : caller[d].at = "stop" => caller[d].stop \subseteq Clients
    BY ManagerTypes, CallIsBusy, BusyFields
  <2>. QED
    BY <1>0, <1>3, <1>4, <1>5, <1>6, <2>1 DEF ManagerInv, CallsAreSound
<1>12. HeldIsFresh' /\ HoldsOne'
  <2>1. HoldsOne'
    BY <1>0, <1>6 DEF ManagerInv, HoldsOne
  <2>. QED
    BY <1>5, <1>7, <2>1 DEF ManagerInv, HeldIsFresh
<1>13. OpenIsOwned'
  BY <1>5, <1>7 DEF ManagerInv, OpenIsOwned
<1>. QED
  BY <1>8, <1>9, <1>10, <1>11, <1>12, <1>13 DEF ManagerInv

LEMMA StoppedStep ==
  ASSUME ManagerInv, NEW c \in Callers, Stopped(c)
  PROVE  ManagerInv'
<1>0. /\ caller[c].at = "stop" /\ caller[c].has # None
      /\ UNCHANGED <<clients, order, lock, cached, regLock, born, heard>>
  BY DEF Stopped
<1>1. PICK a : a = caller[c].has
  OBVIOUS
<1>2. /\ a \in Clients /\ a \in caller[c].stop /\ caller[c] \in Busy
      /\ Exists(a) /\ client[a] \in Client /\ Fine(client[a])
      /\ caller[c].stop \in SUBSET Clients
  <2>1. a \in caller[c].stop
    BY <1>0, <1>1 DEF ManagerInv, CallsAreSound
  <2>. QED
    BY <1>0, <2>1, StopFacts
<1>3. PICK x \in Client : /\ client' = [client EXCEPT ![a] = x] /\ Fine(x)
                          /\ x.tenant = client[a].tenant /\ x.sock = "closed"
                          /\ x.loop = client[a].loop
  <2>1. PICK x : x = Closed(client[a])
    OBVIOUS
  <2>2. /\ x \in Client /\ Fine(x) /\ x.tenant = client[a].tenant
        /\ x.sock = "closed" /\ x.loop = client[a].loop
    BY <1>1, <1>2, <2>1, ClosedFields DEF Stopped
  <2>3. client' = [client EXCEPT ![a] = x]
    BY <1>1, <2>1 DEF Stopped
  <2>. QED
    BY <2>2, <2>3
<1>4. PICK b \in Busy \cup {Idle} :
        /\ caller' = [caller EXCEPT ![c] = b]
        /\ \/ b.at = "idle" /\ caller[c].stop = {a}
           \/ b.at = "stop" /\ b.stop = caller[c].stop \ {a} /\ b.has = None
  <2>1. CASE caller[c].stop = {a}
    <3>1. caller' = [caller EXCEPT ![c] = Idle]
      BY <1>1, <2>1 DEF Stopped
    <3>2. PICK b : b = Idle
      OBVIOUS
    <3>3. b \in Busy \cup {Idle} /\ b.at = "idle"
      BY <3>2, IdleFields
    <3>. QED
      BY <2>1, <3>1, <3>2, <3>3
  <2>2. CASE caller[c].stop # {a}
    <3>. DEFINE S == caller[c].stop \ {a}
                d == [caller[c] EXCEPT !.has = None]
                b == [d EXCEPT !.stop = S]
    <3>1. d \in Busy /\ d.at = "stop" /\ d.has = None /\ d.stop = caller[c].stop
      BY <1>0, <1>2, BusyHas
    <3>2. S \in SUBSET Clients
      BY <1>2
    <3>3. caller' = [caller EXCEPT ![c] = b]
      <4>1. caller' = [caller EXCEPT ![c].has = None, ![c].stop = @ \ {a}]
        BY <1>1, <2>2 DEF Stopped
      <4>2. caller' = [caller EXCEPT ![c] = [d EXCEPT !.stop = d.stop \ {a}]]
        BY <4>1, ManagerTypes
      <4>. QED
        BY <3>1, <4>2
    <3>4. b \in Busy /\ b.at = "stop" /\ b.stop = S /\ b.has = None
      <4>. HIDE DEF d, S
      <4>. QED
        BY <3>1, <3>2, BusyStop
    <3>. HIDE DEF b
    <3>. QED
      BY <3>3, <3>4
  <2>. QED
    BY <2>1, <2>2
<1>5. /\ client'[a] = x /\ \A e \in Clients : e # a => client'[e] = client[e]
      /\ caller'[c] = b /\ \A d \in Callers : d # c => caller'[d] = caller[d]
  BY <1>2, <1>3, <1>4, ManagerTypes
<1>6. \A e \in Clients : /\ Exists(e)' <=> Exists(e)
                         /\ Exists(e) => client'[e].tenant = client[e].tenant
                         /\ client'[e].loop = client[e].loop
                         /\ InTable(e)' <=> InTable(e)
  BY <1>0, <1>2, <1>3, <1>5, ClientFields DEF Exists, InTable
<1>7. \A d \in Callers, e \in Clients :
        /\ Holds(d, e)' <=> Holds(d, e)
        /\ Stops(d, e) /\ e # a => Stops(d, e)'
        /\ Holds(d, e) => caller'[d] = caller[d]
  BY <1>0, <1>4, <1>5 DEF Holds, Stops
<1>8. TypeOK'
  BY <1>0, <1>3, <1>4, ManagerTypes DEF TypeOK
<1>9. ClientsAreFine' /\ BornInOrder' /\ TableIsSound' /\ LockIsHeld'
  <2>1. ClientsAreFine' /\ BornInOrder'
    BY <1>0, <1>3, <1>5, <1>6 DEF ManagerInv, ClientsAreFine, BornInOrder
  <2>2. TableIsSound'
    BY <1>0, <1>6, ManagerTypes DEF ManagerInv, TableIsSound
  <2>3. LockIsHeld'
    BY <1>0, <1>4, <1>5 DEF ManagerInv, LockIsHeld
  <2>. QED
    BY <2>1, <2>2, <2>3
<1>10. OrderIsTable'
  <2>1. \A e : IsVictim(e)' <=> IsVictim(e)
    BY <1>0, <1>4, <1>5 DEF IsVictim
  <2>. QED
    BY <1>0, <2>1 DEF ManagerInv, OrderIsTable
<1>11. CallsAreSound'
  <2>1. \A d \in Callers : caller[d].at = "stop" => caller[d].stop \subseteq Clients
    BY ManagerTypes, CallIsBusy, BusyFields
  <2>2. \A e \in caller[c].stop : Exists(e) /\ e \in Clients
    BY <1>0, <2>1 DEF ManagerInv, CallsAreSound
  <2> SUFFICES ASSUME NEW d \in Callers
               PROVE  (/\ caller[d].at \in {"look", "build", "insert", "evict"}
                            => caller[d].tenant \in Tenants /\ caller[d].op \in {"send", "qr"}
                       /\ caller[d].at = "stop"
                            => /\ \A e \in caller[d].stop : Exists(e)
                               /\ caller[d].has # None => caller[d].has \in caller[d].stop
                       /\ caller[d].at = "evict"
                            => /\ clients[caller[d].tenant] = None
                               /\ \E v \in Clients : caller[d].stop = {v} /\ InTable(v))'
    BY DEF CallsAreSound
  <2>3. CASE d = c
    BY <1>4, <1>5, <1>6, <2>2, <2>3
  <2>4. CASE d # c
    BY <1>0, <1>5, <1>6, <2>1, <2>4 DEF ManagerInv, CallsAreSound
  <2>. QED
    BY <2>3, <2>4
<1>12. HeldIsFresh' /\ HoldsOne'
  <2>1. HoldsOne'
    BY <1>4, <1>5 DEF ManagerInv, HoldsOne
  <2>. QED
    BY <1>6, <1>7, <2>1 DEF ManagerInv, HeldIsFresh
<1>13. OpenIsOwned'
  BY <1>3, <1>5, <1>6, <1>7 DEF ManagerInv, OpenIsOwned
<1>. QED
  BY <1>8, <1>9, <1>10, <1>11, <1>12, <1>13 DEF ManagerInv

LEMMA ManagerNext ==
  ASSUME ManagerInv, [Next]_vars
  PROVE  ManagerInv'
<1>1. CASE UNCHANGED vars
  BY <1>1 DEF vars, ManagerInv, TypeOK, ClientsAreFine, BornInOrder, TableIsSound,
     LockIsHeld, OrderIsTable, IsVictim, CallsAreSound, HeldIsFresh, HoldsOne,
     OpenIsOwned, Exists, InTable, Holds, Stops
<1>2. ASSUME NEW c \in Callers, Calls(c)
      PROVE  ManagerInv'
  BY <1>2, HitStep, MissStep, CurrentQRStep, DisconnectStep, DisconnectAllStep DEF Calls
<1>3. ASSUME NEW c \in Callers, Steps1(c)
      PROVE  ManagerInv'
  BY <1>3, LookupStep, CreateStep, EndsStep, InsertStep, EvictStep, StopStep,
     StoppedStep, SendStep DEF Steps1
<1>4. ASSUME NEW a \in Clients, Start(a) \/ Deliver(a) \/ Loop(a)
      PROVE  ManagerInv'
  BY <1>4, StartStep, DeliverStep, TakeStep, ProcessEventStep, LoopEndsStep DEF Loop
<1>5. ASSUME NEW t \in Tenants, Expire(t)
      PROVE  ManagerInv'
  BY <1>5, ExpireStep
<1>. QED
  BY <1>1, <1>2, <1>3, <1>4, <1>5 DEF Next

\* The inductive invariant of the manager holds in every state.
THEOREM ManagerInvariant == Spec => []ManagerInv
BY ManagerInit, ManagerNext, PTL DEF Spec

\* Every client, every call and the list of the least recently used stay
\* within their types.
THEOREM ManagerTypeCorrect == Spec => []TypeOK
<1>1. ManagerInv => TypeOK
  BY DEF ManagerInv
<1>. QED
  BY <1>1, ManagerInvariant, PTL

\* However calls, evictions and resets of a tenant interleave, an open socket is
\* in the table, or a call that is under way still has to insert or to stop it.
THEOREM NoSocketIsOrphaned == Spec => []NoOrphanSocket
<1>1. ManagerInv => NoOrphanSocket
  <2> SUFFICES ASSUME ManagerInv, NEW a \in Clients, Exists(a), client[a].sock = "up"
               PROVE  \/ InTable(a)
                      \/ \E c \in Callers :
                           \/ caller[c].at \in {"insert", "evict"} /\ caller[c].has = a
                           \/ caller[c].at = "stop" /\ a \in caller[c].stop
    BY DEF NoOrphanSocket
  <2>. QED
    BY DEF ManagerInv, OpenIsOwned, Holds, Stops
<1>. QED
  BY <1>1, ManagerInvariant, PTL

-----------------------------------------------------------------------------
(* The size of the table of clients.                                       *)

TableIsBounded == IsFiniteSet(Table) /\ Cardinality(Table) <= MaxActiveTenants

\* A call that finds room takes one place.
LEMMA InsertBounded ==
  ASSUME ManagerInv, TableIsBounded, NEW c \in Callers, Insert(c)
  PROVE  TableIsBounded'
<1>0. clients \in [Tenants -> Clients \cup {None}] /\ caller[c].at = "insert"
  BY ManagerTypes DEF Insert
<1>1. CASE UNCHANGED clients
  BY <1>1 DEF TableIsBounded, Table
<1>2. CASE /\ clients[caller[c].tenant] = None /\ Cardinality(Table) < MaxActiveTenants
           /\ clients' = [clients EXCEPT ![caller[c].tenant] = caller[c].has]
  <2>1. PICK t \in Tenants : t = caller[c].tenant
    BY <1>0, HeldFacts
  <2>2. Table' \subseteq Table \cup {t}
    BY <1>0, <1>2, <2>1 DEF Table
  <2>3. t \notin Table
    BY <1>2, <2>1 DEF Table
  <2>4. /\ IsFiniteSet(Table \cup {t}) /\ Cardinality(Table) \in Nat
        /\ Cardinality(Table \cup {t}) = Cardinality(Table) + 1
    BY <2>3, FS_AddElement, FS_CardinalityType DEF TableIsBounded
  <2>5. /\ IsFiniteSet(Table') /\ Cardinality(Table') \in Nat
        /\ Cardinality(Table') <= Cardinality(Table \cup {t})
    BY <2>2, <2>4, FS_Subset, FS_CardinalityType
  <2>6. Cardinality(Table') <= MaxActiveTenants
    <3>1. Cardinality(Table) < MaxActiveTenants /\ MaxActiveTenants \in Nat
      BY <1>2, ManagerAssumption
    <3>. QED
      BY <2>4, <2>5, <3>1
  <2>. QED
    BY <2>5, <2>6 DEF TableIsBounded
<1>3. \/ UNCHANGED clients
      \/ /\ clients[caller[c].tenant] = None /\ Cardinality(Table) < MaxActiveTenants
         /\ clients' = [clients EXCEPT ![caller[c].tenant] = caller[c].has]
  BY DEF Insert
<1>. QED
  BY <1>1, <1>2, <1>3

\* An eviction gives the place of the victim, which nobody has taken from the
\* table meanwhile, to the tenant that waits for it.
LEMMA EvictBounded ==
  ASSUME ManagerInv, TableIsBounded, NEW c \in Callers, Evict(c)
  PROVE  TableIsBounded'
<1>0. clients \in [Tenants -> Clients \cup {None}] /\ caller[c].at = "evict"
  BY ManagerTypes DEF Evict
<1>1. PICK t \in Tenants : t = caller[c].tenant
  BY <1>0, HeldFacts
<1>2. PICK v \in Clients : caller[c].stop = {v} /\ InTable(v)
  BY <1>0 DEF ManagerInv, CallsAreSound
<1>3. PICK h : h = client[v].tenant
  OBVIOUS
<1>4. h \in Table /\ t \notin Table
  <2>1. h \in Tenants /\ clients[h] = v /\ v # None
    BY <1>2, <1>3, ManagerTypes, ExistsIsClient, ClientFields DEF InTable, Clients, None
  <2>2. clients[t] = None
    BY <1>0, <1>1 DEF ManagerInv, CallsAreSound
  <2>. QED
    BY <2>1, <2>2 DEF Table
<1>5. Table' \subseteq (Table \ {h}) \cup {t}
  <2>1. clients' = [clients EXCEPT ![h] = None, ![t] = caller[c].has]
    BY <1>1, <1>2, <1>3 DEF Evict
  <2>. QED
    BY <1>0, <2>1 DEF Table
<1>6. /\ IsFiniteSet(Table \ {h}) /\ Cardinality(Table) \in Nat
      /\ Cardinality(Table \ {h}) = Cardinality(Table) - 1
  BY <1>4, FS_RemoveElement, FS_CardinalityType DEF TableIsBounded
<1>7. /\ IsFiniteSet((Table \ {h}) \cup {t})
      /\ Cardinality((Table \ {h}) \cup {t}) = Cardinality(Table \ {h}) + 1
  <2>1. t \notin Table \ {h}
    BY <1>4
  <2>. QED
    BY <1>6, <2>1, FS_AddElement
<1>8. /\ IsFiniteSet(Table') /\ Cardinality(Table') \in Nat
      /\ Cardinality(Table') <= Cardinality((Table \ {h}) \cup {t})
  BY <1>5, <1>7, FS_Subset, FS_CardinalityType
<1>9. Cardinality(Table') <= MaxActiveTenants
  <2>1. Cardinality(Table) <= MaxActiveTenants /\ MaxActiveTenants \in Nat
    BY ManagerAssumption DEF TableIsBounded
  <2>. QED
    BY <1>6, <1>7, <1>8, <2>1
<1>. QED
  BY <1>8, <1>9 DEF TableIsBounded

\* A reset frees a place.
LEMMA DisconnectBounded ==
  ASSUME ManagerInv, TableIsBounded, NEW c \in Callers, NEW t \in Tenants, Disconnect(c, t)
  PROVE  TableIsBounded'
<1>1. Table' \subseteq Table
  BY ManagerTypes DEF Disconnect, Table
<1>2. /\ IsFiniteSet(Table') /\ Cardinality(Table') \in Nat
      /\ Cardinality(Table) \in Nat /\ Cardinality(Table') <= Cardinality(Table)
  BY <1>1, FS_Subset, FS_CardinalityType DEF TableIsBounded
<1>3. Cardinality(Table') <= MaxActiveTenants
  <2>1. Cardinality(Table) <= MaxActiveTenants /\ MaxActiveTenants \in Nat
    BY ManagerAssumption DEF TableIsBounded
  <2>. QED
    BY <1>2, <2>1
<1>. QED
  BY <1>2, <1>3 DEF TableIsBounded

\* Nothing else writes the table.
LEMMA TableSteps ==
  ASSUME [Next]_vars
  PROVE  \/ UNCHANGED clients
         \/ \E c \in Callers : \/ Insert(c) \/ Evict(c)
                               \/ \E t \in Tenants : Disconnect(c, t)
<1>1. ASSUME NEW c \in Callers, Calls(c)
      PROVE  UNCHANGED clients \/ \E t \in Tenants : Disconnect(c, t)
  BY <1>1 DEF Calls, Hit, Miss, CurrentQR, DisconnectAll
<1>2. ASSUME NEW c \in Callers, Steps1(c)
      PROVE  UNCHANGED clients \/ Insert(c) \/ Evict(c)
  BY <1>2 DEF Steps1, Lookup, Create, CreateFails, Stop, Stopped, ReadQR, Send, Sent
<1>3. ASSUME NEW a \in Clients, Start(a) \/ Deliver(a) \/ Loop(a)
      PROVE  UNCHANGED clients
  BY <1>3 DEF Start, Deliver, Heard, Loop, Take, ProcessEvent, LoopEnds
<1>4. ASSUME NEW t \in Tenants, Expire(t)
      PROVE  UNCHANGED clients
  BY <1>4 DEF Expire
<1>5. CASE UNCHANGED vars
  BY <1>5 DEF vars
<1>. QED
  BY <1>1, <1>2, <1>3, <1>4, <1>5 DEF Next

\* Of all calls that create a client at the same time, each after it has looked
\* for it without the lock, no more get a place than MaxActiveTenants: a full
\* table costs an eviction, and the lock is held until the victim's place is
\* taken (manager.go GetOrCreate, evictLRU).
THEOREM TableStaysBounded == Spec => []TableIsBounded
<1>1. Init => TableIsBounded
  <2>1. Init => Table = {}
    BY DEF Init, Table
  <2>. QED
    BY <2>1, FS_EmptySet, ManagerAssumption DEF TableIsBounded
<1>2. ManagerInv /\ TableIsBounded /\ [Next]_vars => TableIsBounded'
  <2> SUFFICES ASSUME ManagerInv, TableIsBounded, [Next]_vars PROVE TableIsBounded'
    OBVIOUS
  <2>1. CASE UNCHANGED clients
    BY <2>1 DEF TableIsBounded, Table
  <2>. QED
    BY <2>1, TableSteps, InsertBounded, EvictBounded, DisconnectBounded
<1>. QED
  BY <1>1, <1>2, ManagerInvariant, PTL DEF Spec

-----------------------------------------------------------------------------
(* What a step does to a closed client.                                    *)

\* The handler of a client with a closed socket has nothing to do, and a send
\* through it ends without an acknowledgement.
LEMMA ClosedIsQuiet ==
  ASSUME ManagerInv, NEW a \in Clients, Exists(a), client[a].sock = "closed"
  PROVE  /\ client[a].at = "select" /\ ~Take(a) /\ ~ProcessEvent(a) /\ ~Deliver(a)
         /\ client[a].kind = "stub" => ~client[a].connected
         /\ ~Up(a)
BY DEF ManagerInv, ClientsAreFine, Fine, Take, ProcessEvent, Deliver, Up

LEMMA CancelledKeeps ==
  ASSUME NEW x \in Client
  PROVE  /\ Cancelled(x).at = x.at /\ Cancelled(x).connected = x.connected
         /\ Closed(x).at = x.at /\ Closed(x).connected = x.connected
<1>1. [x EXCEPT !.loop = "cancelled"].at = x.at
      /\ [x EXCEPT !.loop = "cancelled"].connected = x.connected
  BY ClientLoop
<1>2. Closed(x).at = x.at /\ Closed(x).connected = x.connected
  BY ClientSock DEF Closed
<1>. QED
  BY <1>1, <1>2 DEF Cancelled

\* The steps of a call leave the handler of every client alone.
LEMMA CallsKeepHandlers ==
  ASSUME ManagerInv, NEW c \in Callers, Calls(c) \/ Steps1(c),
         NEW a \in Clients, Exists(a)
  PROVE  client'[a].at = client[a].at /\ client'[a].connected = client[a].connected
<1>0. client[a] \in Client /\ client \in [Clients -> Client \cup {Unborn}]
  BY ManagerTypes, ExistsIsClient
<1>1. \/ client' = client
      \/ Create(c)
      \/ \E e : client' = [client EXCEPT ![e] = Cancelled(@)]
      \/ \E e : client' = [client EXCEPT ![e] = Closed(@)]
  BY DEF Calls, Steps1, Hit, Miss, CurrentQR, Disconnect, DisconnectAll, Lookup,
     CreateFails, Insert, Evict, Stop, Stopped, ReadQR, Send, Sent
<1>2. CASE Create(c)
  <2>1. born + 1 # a
    BY ManagerTypes, ManagerAssumption DEF ManagerInv, BornInOrder, TypeOK, Clients
  <2>. QED
    BY <1>0, <1>2, <2>1 DEF Create
<1>3. ASSUME NEW e, client' = [client EXCEPT ![e] = Cancelled(@)]
      PROVE  client'[a].at = client[a].at /\ client'[a].connected = client[a].connected
  <2>1. CASE e = a
    BY <1>0, <1>3, <2>1, CancelledKeeps
  <2>2. CASE e # a
    BY <1>0, <1>3, <2>2
  <2>. QED
    BY <2>1, <2>2
<1>4. ASSUME NEW e, client' = [client EXCEPT ![e] = Closed(@)]
      PROVE  client'[a].at = client[a].at /\ client'[a].connected = client[a].connected
  <2>1. CASE e = a
    BY <1>0, <1>4, <2>1, CancelledKeeps
  <2>2. CASE e # a
    BY <1>0, <1>4, <2>2
  <2>. QED
    BY <2>1, <2>2
<1>. QED
  BY <1>1, <1>2, <1>3, <1>4

\* So do the steps of the clients, as long as the client is closed.
LEMMA ClientsKeepHandlers ==
  ASSUME ManagerInv, NEW e \in Clients, Start(e) \/ Deliver(e) \/ Loop(e),
         NEW a \in Clients, Exists(a), client[a].sock = "closed"
  PROVE  client'[a].at = client[a].at /\ client'[a].connected = client[a].connected
<1>0. client[a] \in Client /\ client \in [Clients -> Client \cup {Unborn}]
  BY ManagerTypes, ExistsIsClient
<1>1. CASE e # a
  BY <1>0, <1>1 DEF Start, Deliver, Heard, Loop, Take, ProcessEvent, LoopEnds
<1>2. CASE e = a
  <2>1. Start(a) \/ LoopEnds(a)
    BY <1>2, ClosedIsQuiet DEF Loop
  <2>2. client'[a] = [client[a] EXCEPT !.loop = "running"]
        \/ client'[a] = [client[a] EXCEPT !.loop = "ended"]
    BY <1>0, <2>1 DEF Start, LoopEnds
  <2>3. \A l \in {"running", "ended"} :
          LET y == [client[a] EXCEPT !.loop = l] IN
          y.at = client[a].at /\ y.connected = client[a].connected
    BY <1>0, ClientLoop
  <2>. QED
    BY <2>2, <2>3
<1>. QED
  BY <1>1, <1>2

\* No step acknowledges a send of a call that holds a closed client.
LEMMA ClosedIsNotSent ==
  ASSUME ManagerInv, [Next]_vars,
         NEW a \in Clients, Exists(a), client[a].sock = "closed",
         NEW c \in Callers, caller[c].at = "use", caller[c].has = a
  PROVE  caller'[c].at # "sent"
<1>0. caller \in [Callers -> Busy \cup {Idle}] /\ caller[c] # Idle
  BY ManagerTypes, IdleFields
<1>1. CASE caller'[c] = caller[c]
  BY <1>1
<1>2. CASE caller' = [caller EXCEPT ![c] = Idle]
  BY <1>0, <1>2, IdleFields
<1>3. CASE Send(c)
  <2>1. ~\E r : (SendMessage(a, r) \/ DoAction(a, r)) /\ r.asks \in Answers(a)
    <3>1. CASE client[a].kind = "real"
      BY <3>1, ClosedIsQuiet DEF Answers, RealMessages, RealActions
    <3>2. CASE client[a].kind # "real"
      <4>1. ~client[a].connected
        BY <3>2, ManagerTypes, ExistsIsClient, ClientFields, ClosedIsQuiet
      <4>. QED
        BY <4>1 DEF SendMessage, DoAction
    <3>. QED
      BY <3>1, <3>2
  <2>2. caller' = [caller EXCEPT ![c] = Idle]
    BY <1>3, <2>1 DEF Send
  <2>. QED
    BY <1>2, <2>2
<1>4. ASSUME NEW d \in Callers, Calls(d) \/ Steps1(d), d # c
      PROVE  caller'[c] = caller[c]
  BY <1>0, <1>4 DEF Calls, Steps1, Hit, Miss, CurrentQR, Disconnect, DisconnectAll,
     Lookup, Create, CreateFails, Insert, Evict, Stop, Stopped, ReadQR, Send, Sent,
     Starts, Goes, Handed
<1>5. ASSUME Calls(c) \/ Steps1(c)
      PROVE  Send(c) \/ caller' = [caller EXCEPT ![c] = Idle]
  BY <1>0, <1>5 DEF Calls, Steps1, Hit, Miss, CurrentQR, Disconnect, DisconnectAll,
     Lookup, Create, CreateFails, Insert, Evict, Stop, Stopped, ReadQR, Sent
<1>6. ASSUME \/ UNCHANGED vars
             \/ \E e \in Clients : Start(e) \/ Deliver(e) \/ Loop(e)
             \/ \E t \in Tenants : Expire(t)
      PROVE  caller'[c] = caller[c]
  BY <1>6 DEF vars, Start, Deliver, Heard, Loop, Take, ProcessEvent, LoopEnds, Expire
<1>. QED
  BY <1>1, <1>2, <1>3, <1>4, <1>5, <1>6 DEF Next

\* A client that was evicted or reset handles no event and acknowledges no send
\* any more, whoever still holds it.
THEOREM EvictedClientsAreSilent == Spec => EvictedIsSilent
<1>1. ASSUME ManagerInv, [Next]_vars, NEW a \in Clients, Gone(a)
      PROVE  /\ client'[a].at = "select" /\ client'[a].connected = client[a].connected
             /\ \A c \in Callers : caller[c].at = "use" /\ caller[c].has = a
                                     => caller'[c].at # "sent"
  <2>1. Exists(a) /\ client[a].sock = "closed" /\ client[a].at = "select"
    BY <1>1, ClosedIsQuiet DEF Gone
  <2>2. client'[a].at = client[a].at /\ client'[a].connected = client[a].connected
    <3>1. CASE UNCHANGED vars \/ \E t \in Tenants : Expire(t)
      BY <3>1 DEF vars, Expire
    <3>2. CASE \E c \in Callers : Calls(c) \/ Steps1(c)
      BY <1>1, <2>1, <3>2, CallsKeepHandlers
    <3>3. CASE \E e \in Clients : Start(e) \/ Deliver(e) \/ Loop(e)
      BY <1>1, <2>1, <3>3, ClientsKeepHandlers
    <3>. QED
      BY <1>1, <3>1, <3>2, <3>3 DEF Next
  <2>. QED
    BY <1>1, <2>1, <2>2, ClosedIsNotSent
<1>2. ManagerInv /\ [Next]_vars
        => [\A a \in Clients : Gone(a) =>
              /\ client'[a].at = "select" /\ client'[a].connected = client[a].connected
              /\ \A c \in Callers : caller[c].at = "use" /\ caller[c].has = a
                                      => caller'[c].at # "sent"]_vars
  BY <1>1
<1>. QED
  BY <1>2, ManagerInvariant, PTL DEF Spec, EvictedIsSilent

-----------------------------------------------------------------------------
(* The inductive invariant of the warm-up and the throttle.                *)

Account == [sent : Nat, anchor : Nat, until : Nat, health : 0 .. MaxHealth]

\* The sends that AllowSend let pass and RecordSent does not count yet, and
\* those of them that are out.
Admitted == {s \in Senders : send[s].at \in {"send", "record"}}
Uncounted == {s \in Senders : send[s].at = "record"}

SendersTyped ==
  send \in [Senders -> [at : {"nothing", "send", "record"}]
                         \cup [at : {"save"}, snapshot : Account]]

\* No account, in memory, in the row or on its way there, is of a later day.
AnchorsAreBehind ==
  /\ start <= clock
  /\ mem.anchor <= DayOf(clock) /\ row.anchor <= DayOf(clock)
  /\ \A s \in Senders : send[s].at = "save" => send[s].snapshot.anchor <= DayOf(clock)

\* On the first day of a process nothing passes, and a crash may have lost
\* counts of that day.  Later the quota bounds what is counted and admitted.
Quiet == Admitted = {} /\ DayOf(start) = DayOf(clock)
Bounded ==
  /\ Rolled.sent + Cardinality(Admitted) <= Larger(QuotaNow, 1) - 1 + Cardinality(Senders)
  /\ today <= Rolled.sent + Cardinality(Uncounted)

PacingInv ==
  PacingTypeOK /\ SendersTyped /\ AnchorsAreBehind /\ (Quiet \/ Bounded)

LEMMA DayType ==
  ASSUME NEW t \in Nat
  PROVE  DayOf(t) \in Nat
BY PacingAssumption DEF DayOf

LEMMA DayGrows ==
  ASSUME NEW s \in Nat, NEW t \in Nat, s <= t
  PROVE  DayOf(s) <= DayOf(t)
BY PacingAssumption DEF DayOf

LEMMA DayBounds ==
  ASSUME NEW t \in Nat
  PROVE  DayLength * DayOf(t) <= t /\ t < DayLength * DayOf(t) + DayLength
BY PacingAssumption DEF DayOf

LEMMA FirstDay ==
  ASSUME NEW s \in Nat, NEW t \in Nat, s <= t, DayOf(s) = DayOf(t)
  PROVE  DayOf(t - s) = 0
<1>0. \A k, l \in Nat : k * l \in Nat
  OBVIOUS
<1>1. PICK x \in Nat : x = DayLength * DayOf(t)
  BY <1>0, DayType, PacingAssumption
<1>2. x <= s /\ t < x + DayLength
  BY <1>1, DayBounds
<1>3. t - s \in Nat /\ t - s < DayLength
  BY <1>2, PacingAssumption
<1>4. \A r \in Nat : r < DayLength => r \div DayLength = 0
  BY PacingAssumption
<1>. QED
  BY <1>3, <1>4 DEF DayOf

LEMMA SmallNats == MaxClock \in Nat /\ 0 .. MaxClock \subseteq Nat
BY PacingAssumption

LEMMA ClockTypes ==
  ASSUME PacingTypeOK, AnchorsAreBehind
  PROVE  /\ clock \in Nat /\ start \in Nat /\ clock - start \in Nat
         /\ DayOf(clock) \in Nat /\ DayOf(clock - start) \in Nat
BY SmallNats, DayType DEF PacingTypeOK, AnchorsAreBehind

\* The ramp of the quota.
LEMMA RampValues ==
  /\ Len(Ramp) \in Nat \ {0}
  /\ \A d \in Nat : d < Len(Ramp) => Ramp[d + 1] \in Nat /\ Ramp[d + 1] <= Steady
  /\ \A d, e \in Nat : d <= e /\ e < Len(Ramp) => Ramp[d + 1] <= Ramp[e + 1]
<1>1. Len(Ramp) \in Nat \ {0} /\ Ramp \in [1 .. Len(Ramp) -> Nat]
  BY PacingAssumption
<1>2. PICK n \in Nat : n = Len(Ramp)
  BY <1>1
<1>3. ASSUME NEW d \in Nat, d < n
      PROVE  d + 1 \in 1 .. n
  BY <1>3
<1>. QED
  BY <1>1, <1>2, <1>3, PacingAssumption

LEMMA QuotaType ==
  ASSUME PacingTypeOK, AnchorsAreBehind
  PROVE  QuotaNow \in Nat
BY ClockTypes, RampValues, PacingAssumption DEF QuotaNow

LEMMA NoQuotaYet ==
  ASSUME PacingTypeOK, AnchorsAreBehind, DayOf(start) = DayOf(clock)
  PROVE  QuotaNow = 0
<1>1. DayOf(clock - start) = 0
  BY ClockTypes, FirstDay DEF AnchorsAreBehind
<1>. QED
  BY <1>1, RampValues, PacingAssumption DEF QuotaNow

\* As long as the process lives, the quota only grows.
LEMMA QuotaGrows ==
  ASSUME PacingTypeOK, AnchorsAreBehind, clock' = clock + 1, start' = start
  PROVE  QuotaNow' \in Nat /\ QuotaNow <= QuotaNow'
<1>1. PICK d \in Nat : d = DayOf(clock - start)
  BY ClockTypes
<1>2. (clock + 1) - start \in Nat /\ clock - start <= (clock + 1) - start
  BY ClockTypes
<1>3. PICK e \in Nat : e = DayOf((clock + 1) - start)
  BY <1>2, DayType
<1>4. d <= e
  BY <1>1, <1>2, <1>3, ClockTypes, DayGrows
<1>5. QuotaNow = IF d < Len(Ramp) THEN Ramp[d + 1] ELSE Steady
  BY <1>1 DEF QuotaNow
<1>6. DayOf(clock' - start') = e
  <2>1. clock' - start' = (clock + 1) - start
    OBVIOUS
  <2>. QED
    BY <1>3, <2>1, Zenon
<1>7. QuotaNow' = IF e < Len(Ramp) THEN Ramp[e + 1] ELSE Steady
  BY <1>6 DEF QuotaNow
<1>8. Len(Ramp) \in Nat /\ Steady \in Nat
  BY RampValues, PacingAssumption
<1>9. CASE e < Len(Ramp)
  <2>1. d < Len(Ramp)
    BY <1>4, <1>8, <1>9
  <2>. QED
    BY <1>4, <1>5, <1>7, <1>9, <2>1, RampValues
<1>10. CASE ~(e < Len(Ramp))
  BY <1>5, <1>7, <1>8, <1>10, RampValues
<1>. QED
  BY <1>9, <1>10

-----------------------------------------------------------------------------
(* What a sender's step does to the accounts and to the senders counted.   *)

LEMMA AccountFields ==
  ASSUME NEW x \in Account
  PROVE  /\ x.sent \in Nat /\ x.anchor \in Nat /\ x.until \in Nat /\ x.health \in 0 .. MaxHealth
         /\ \A v \in Nat : [x EXCEPT !.sent = v] \in Account
                           /\ [x EXCEPT !.sent = v].sent = v
                           /\ [x EXCEPT !.sent = v].anchor = x.anchor
         /\ \A v \in Nat : [x EXCEPT !.until = v] \in Account
                           /\ [x EXCEPT !.until = v].sent = x.sent
                           /\ [x EXCEPT !.until = v].anchor = x.anchor
         /\ \A v \in 0 .. MaxHealth : [x EXCEPT !.health = v] \in Account
                           /\ [x EXCEPT !.health = v].sent = x.sent
                           /\ [x EXCEPT !.health = v].anchor = x.anchor
BY DEF Account

LEMMA AccountsTyped ==
  ASSUME PacingTypeOK
  PROVE  mem \in Account /\ row \in Account /\ today \in Nat
BY DEF PacingTypeOK, Account

\* The day of the account in memory is today, once it is rolled.
LEMMA RolledFields ==
  ASSUME PacingTypeOK, AnchorsAreBehind
  PROVE  /\ Rolled \in Account /\ Rolled.anchor = DayOf(clock)
         /\ Rolled.sent = IF mem.anchor = DayOf(clock) THEN mem.sent ELSE 0
<1>1. mem \in Account /\ DayOf(clock) \in Nat
  BY AccountsTyped, ClockTypes
<1>2. CASE mem.anchor = DayOf(clock)
  BY <1>1, <1>2 DEF Rolled
<1>3. CASE mem.anchor # DayOf(clock)
  <2>1. Rolled = [mem EXCEPT !.anchor = DayOf(clock), !.sent = 0]
    BY <1>3 DEF Rolled
  <2>. QED
    BY <1>1, <1>3, <2>1 DEF Account
<1>. QED
  BY <1>2, <1>3

LEMMA SenderKinds ==
  ASSUME SendersTyped, NEW s \in Senders
  PROVE  /\ send[s].at \in {"nothing", "send", "record", "save"}
         /\ send[s].at # "save" => send[s] \in [at : {"nothing", "send", "record"}]
         /\ send[s].at = "save" => send[s] \in [at : {"save"}, snapshot : Account]
                                   /\ send[s].snapshot \in Account
BY DEF SendersTyped

\* The step of one sender, who is at k afterwards.
Moves(s, k) ==
  /\ DOMAIN send' = DOMAIN send
  /\ send'[s].at = k /\ \A r \in Senders \ {s} : send'[r] = send[r]

LEMMA MovesCount ==
  ASSUME SendersTyped, NEW s \in Senders, NEW k, Moves(s, k)
  PROVE  /\ k \in {"send", "record"} => Admitted' = Admitted \cup {s}
         /\ k \notin {"send", "record"} => Admitted' = Admitted \ {s}
         /\ k = "record" => Uncounted' = Uncounted \cup {s}
         /\ k # "record" => Uncounted' = Uncounted \ {s}
BY DEF Moves, Admitted, Uncounted

LEMMA CountsAreSound ==
  /\ IsFiniteSet(Admitted) /\ IsFiniteSet(Uncounted)
  /\ Cardinality(Admitted) \in Nat /\ Cardinality(Uncounted) \in Nat
  /\ Cardinality(Uncounted) <= Cardinality(Admitted)
  /\ Cardinality(Senders) \in Nat \ {0} /\ Cardinality(Admitted) <= Cardinality(Senders)
<1>1. IsFiniteSet(Senders) /\ Senders # {}
  BY PacingAssumption
<1>2. Admitted \subseteq Senders /\ Uncounted \subseteq Admitted
  BY DEF Admitted, Uncounted
<1>3. IsFiniteSet(Admitted) /\ Cardinality(Admitted) <= Cardinality(Senders)
  BY <1>1, <1>2, FS_Subset
<1>4. IsFiniteSet(Uncounted) /\ Cardinality(Uncounted) <= Cardinality(Admitted)
  BY <1>2, <1>3, FS_Subset
<1>5. Cardinality(Senders) # 0
  BY <1>1, FS_EmptySet
<1>. QED
  BY <1>1, <1>3, <1>4, <1>5, FS_CardinalityType

LEMMA PacingInitInv ==
  ASSUME PacingInit
  PROVE  PacingInv
<1>1. DayOf(0) \in Nat /\ clock = 0 /\ start = 0 /\ 0 \in 0 .. MaxClock
  BY DayType, PacingAssumption DEF PacingInit
<1>2. Fresh \in Account /\ Fresh.anchor = DayOf(0)
  BY <1>1, PacingAssumption DEF Fresh, Account
<1>3. PacingTypeOK
  BY <1>1, <1>2, PacingAssumption DEF PacingInit, PacingTypeOK, Account
<1>4. SendersTyped
  BY DEF PacingInit, SendersTyped, Resting
<1>5. AnchorsAreBehind
  BY <1>1, <1>2 DEF PacingInit, AnchorsAreBehind, Resting
<1>6. Quiet
  BY <1>1 DEF PacingInit, Quiet, Admitted, Resting
<1>. QED
  BY <1>3, <1>4, <1>5, <1>6 DEF PacingInv

\* A step between ticks that counts nothing and admits nobody keeps the bound.
LEMMA CountsKept ==
  ASSUME PacingInv, UNCHANGED <<clock, start, today>>,
         Rolled'.sent = Rolled.sent, Admitted' = Admitted, Uncounted' = Uncounted
  PROVE  Quiet' \/ Bounded'
<1>1. QuotaNow' = QuotaNow /\ DayOf(start)' = DayOf(start) /\ DayOf(clock)' = DayOf(clock)
  BY DEF QuotaNow, DayOf
<1>. QED
  BY <1>1 DEF PacingInv, Quiet, Bounded

LEMMA AllowSendStep ==
  ASSUME PacingInv, NEW s \in Senders, NEW unknown \in BOOLEAN, AllowSend(s, unknown),
         UNCHANGED throttle
  PROVE  PacingInv'
<1>0. PacingTypeOK /\ SendersTyped /\ AnchorsAreBehind
  BY DEF PacingInv
<1>1. /\ send[s].at = "nothing" /\ mem' = Rolled /\ Rolled.sent < QuotaNow
      /\ send' = [send EXCEPT ![s].at = "send"]
      /\ UNCHANGED <<clock, start, row, today, throttle>>
  BY DEF AllowSend
<1>2. /\ send[s] \in [at : {"nothing", "send", "record"}]
      /\ [send[s] EXCEPT !.at = "send"] \in [at : {"nothing", "send", "record"}]
      /\ [send[s] EXCEPT !.at = "send"].at = "send"
  BY <1>0, <1>1, SenderKinds
<1>3. send' = [send EXCEPT ![s] = [send[s] EXCEPT !.at = "send"]]
  BY <1>1
<1>4. SendersTyped' /\ Moves(s, "send")
  BY <1>0, <1>2, <1>3 DEF SendersTyped, Moves
<1>5. PacingTypeOK'
  BY <1>0, <1>1, RolledFields DEF PacingTypeOK, Account
<1>6. DayOf(clock)' = DayOf(clock)
  BY <1>1 DEF DayOf
<1>7. AnchorsAreBehind'
  BY <1>0, <1>1, <1>4, <1>6, RolledFields, ClockTypes DEF AnchorsAreBehind, Moves
<1>8. Rolled'.sent = Rolled.sent /\ QuotaNow' = QuotaNow
  <2>1. mem'.anchor = DayOf(clock)' /\ mem'.sent = Rolled.sent
    BY <1>0, <1>1, <1>6, RolledFields
  <2>. QED
    BY <1>1, <2>1 DEF Rolled, QuotaNow, DayOf
<1>9. /\ Admitted' = Admitted \cup {s} /\ s \notin Admitted
      /\ Uncounted' = Uncounted
  BY <1>0, <1>1, <1>4, MovesCount DEF Admitted, Uncounted
<1>10. QuotaNow \in Nat /\ Rolled.sent \in Nat
  BY <1>0, QuotaType, RolledFields, AccountFields
<1>11. ~Quiet
  <2>1. QuotaNow # 0
    BY <1>1, <1>10
  <2>. QED
    BY <1>0, <2>1, NoQuotaYet DEF Quiet
<1>12. Cardinality(Admitted') = Cardinality(Admitted) + 1
       /\ Cardinality(Admitted') <= Cardinality(Senders)
  <2>1. IsFiniteSet(Senders) /\ Admitted' \subseteq Senders
    BY PacingAssumption DEF Admitted
  <2>. QED
    BY <1>9, <2>1, CountsAreSound, FS_AddElement, FS_Subset
<1>13. Bounded'
  <2>1. today <= Rolled.sent + Cardinality(Uncounted)
    BY <1>11 DEF PacingInv, Bounded
  <2>2. Rolled.sent + Cardinality(Admitted')
          <= Larger(QuotaNow, 1) - 1 + Cardinality(Senders)
    BY <1>1, <1>10, <1>12, CountsAreSound DEF Larger
  <2>. QED
    BY <1>1, <1>8, <1>9, <2>1, <2>2 DEF Bounded
<1>. QED
  BY <1>4, <1>5, <1>7, <1>13 DEF PacingInv

LEMMA SendOutStep ==
  ASSUME PacingInv, NEW s \in Senders, SendOut(s), UNCHANGED throttle
  PROVE  PacingInv'
<1>0. PacingTypeOK /\ SendersTyped /\ AnchorsAreBehind
  BY DEF PacingInv
<1>1. /\ send[s].at = "send" /\ UNCHANGED <<clock, start, mem, row, throttle>>
      /\ \/ today' = today + 1 /\ send' = [send EXCEPT ![s].at = "record"]
         \/ today' = today /\ send' = [send EXCEPT ![s] = Resting]
  BY DEF SendOut
<1>2. /\ send[s] \in [at : {"nothing", "send", "record"}]
      /\ [send[s] EXCEPT !.at = "record"] \in [at : {"nothing", "send", "record"}]
      /\ [send[s] EXCEPT !.at = "record"].at = "record"
      /\ Resting \in [at : {"nothing", "send", "record"}] /\ Resting.at = "nothing"
  BY <1>0, <1>1, SenderKinds DEF Resting
<1>3. s \in Admitted /\ s \notin Uncounted
  BY <1>1 DEF Admitted, Uncounted
<1>4. Bounded
  BY <1>3 DEF PacingInv, Quiet
<1>5. /\ DayOf(clock)' = DayOf(clock) /\ QuotaNow' = QuotaNow /\ Rolled' = Rolled
  BY <1>1 DEF DayOf, QuotaNow, Rolled
<1>6. today \in Nat /\ Rolled.sent \in Nat /\ QuotaNow \in Nat
  BY <1>0, AccountsTyped, RolledFields, AccountFields, QuotaType
<1>7. PacingTypeOK'
  <2>1. today' \in Nat
    BY <1>1, <1>6
  <2>. QED
    BY <1>0, <1>1, <2>1 DEF PacingTypeOK
<1>8. CASE today' = today + 1 /\ send' = [send EXCEPT ![s].at = "record"]
  <2>1. send' = [send EXCEPT ![s] = [send[s] EXCEPT !.at = "record"]]
    BY <1>8
  <2>2. SendersTyped' /\ Moves(s, "record")
    BY <1>0, <1>2, <2>1 DEF SendersTyped, Moves
  <2>3. Admitted' = Admitted /\ Uncounted' = Uncounted \cup {s}
    BY <1>0, <1>3, <2>2, MovesCount
  <2>4. Cardinality(Uncounted') = Cardinality(Uncounted) + 1
    BY <1>3, <2>3, CountsAreSound, FS_AddElement
  <2>5. Bounded'
    BY <1>4, <1>5, <1>6, <1>8, <2>3, <2>4, CountsAreSound DEF Bounded
  <2>6. AnchorsAreBehind'
    BY <1>0, <1>1, <1>5, <2>2 DEF AnchorsAreBehind, Moves
  <2>. QED
    BY <1>7, <2>2, <2>5, <2>6 DEF PacingInv
<1>9. CASE today' = today /\ send' = [send EXCEPT ![s] = Resting]
  <2>2. SendersTyped' /\ Moves(s, "nothing")
    BY <1>0, <1>2, <1>9 DEF SendersTyped, Moves
  <2>3. Admitted' = Admitted \ {s} /\ Uncounted' = Uncounted
    BY <1>0, <1>3, <2>2, MovesCount
  <2>4. Cardinality(Admitted') = Cardinality(Admitted) - 1
    BY <1>3, <2>3, CountsAreSound, FS_RemoveElement
  <2>5. Larger(QuotaNow, 1) \in Nat
    BY <1>6 DEF Larger
  <2>6. Bounded'
    BY <1>4, <1>5, <1>6, <1>9, <2>3, <2>4, <2>5, CountsAreSound DEF Bounded
  <2>7. AnchorsAreBehind'
    BY <1>0, <1>1, <1>5, <2>2 DEF AnchorsAreBehind, Moves
  <2>. QED
    BY <1>7, <2>2, <2>6, <2>7 DEF PacingInv
<1>. QED
  BY <1>1, <1>8, <1>9

\* What every change of the Warmup does, given the account it writes.
LEMMA ChangeStep ==
  ASSUME PacingTypeOK, SendersTyped, AnchorsAreBehind,
         NEW s \in Senders, NEW m \in Account, m.anchor <= DayOf(clock),
         Changes(s, m), UNCHANGED throttle
  PROVE  /\ PacingTypeOK' /\ SendersTyped' /\ AnchorsAreBehind' /\ Moves(s, "save")
         /\ mem' = m /\ DayOf(clock)' = DayOf(clock) /\ QuotaNow' = QuotaNow
<1>1. /\ mem' = m /\ UNCHANGED <<clock, start, row, today, throttle>>
      /\ send' = [send EXCEPT ![s] = [at |-> "save", snapshot |-> m]]
  BY DEF Changes
<1>2. PICK x : x = [at |-> "save", snapshot |-> m]
  OBVIOUS
<1>3. x \in [at : {"save"}, snapshot : Account] /\ x.at = "save" /\ x.snapshot = m
  BY <1>2
<1>4. send' = [send EXCEPT ![s] = x]
  BY <1>1, <1>2
<1>5. SendersTyped' /\ Moves(s, "save") /\ send'[s] = x
  BY <1>3, <1>4 DEF SendersTyped, Moves
<1>6. DayOf(clock)' = DayOf(clock) /\ QuotaNow' = QuotaNow
  BY <1>1 DEF DayOf, QuotaNow
<1>7. PacingTypeOK'
  BY <1>1 DEF PacingTypeOK, Account
<1>8. AnchorsAreBehind'
  BY <1>1, <1>3, <1>5, <1>6 DEF AnchorsAreBehind, Moves
<1>. QED
  BY <1>1, <1>5, <1>6, <1>7, <1>8

LEMMA RecordSentStep ==
  ASSUME PacingInv, NEW s \in Senders, RecordSent(s), UNCHANGED throttle
  PROVE  PacingInv'
<1>0. PacingTypeOK /\ SendersTyped /\ AnchorsAreBehind
  BY DEF PacingInv
<1>1. send[s].at = "record" /\ Changes(s, SentOne)
  BY DEF RecordSent
<1>2. PICK r \in Account : r = Rolled
  BY <1>0, RolledFields
<1>3. r.anchor = DayOf(clock) /\ r.sent \in Nat /\ DayOf(clock) \in Nat
  BY <1>0, <1>2, RolledFields, AccountFields, ClockTypes
<1>4. SentOne = [r EXCEPT !.sent = r.sent + 1]
  BY <1>2 DEF SentOne
<1>5. SentOne \in Account /\ SentOne.anchor = DayOf(clock) /\ SentOne.sent = r.sent + 1
  BY <1>3, <1>4, AccountFields
<1>6. /\ PacingTypeOK' /\ SendersTyped' /\ AnchorsAreBehind' /\ Moves(s, "save")
      /\ mem' = SentOne /\ DayOf(clock)' = DayOf(clock) /\ QuotaNow' = QuotaNow
  BY <1>0, <1>1, <1>3, <1>5, ChangeStep
<1>7. Rolled' = mem'
  BY <1>5, <1>6 DEF Rolled, DayOf
<1>8. s \in Admitted /\ s \in Uncounted
  BY <1>1 DEF Admitted, Uncounted
<1>9. Admitted' = Admitted \ {s} /\ Uncounted' = Uncounted \ {s}
  BY <1>0, <1>6, MovesCount
<1>10. /\ Cardinality(Admitted') = Cardinality(Admitted) - 1
       /\ Cardinality(Uncounted') = Cardinality(Uncounted) - 1
  BY <1>8, <1>9, CountsAreSound, FS_RemoveElement
<1>11. Bounded
  BY <1>8 DEF PacingInv, Quiet
<1>12. Larger(QuotaNow, 1) \in Nat /\ today \in Nat /\ today' = today
  BY <1>0, <1>1, AccountsTyped, QuotaType DEF Larger, Changes
<1>13. Bounded'
  <2>1. Rolled'.sent = Rolled.sent + 1 /\ Rolled.sent \in Nat
    BY <1>2, <1>3, <1>5, <1>6, <1>7
  <2>. QED
    BY <1>6, <1>10, <1>11, <1>12, <2>1, CountsAreSound DEF Bounded
<1>. QED
  BY <1>6, <1>13 DEF PacingInv

\* A timelock and a penalty leave the count and its day alone.
LEMMA NothingCounted ==
  ASSUME PacingInv, NEW s \in Senders, send[s].at = "nothing", UNCHANGED throttle,
         NEW m \in Account, m.sent = mem.sent, m.anchor = mem.anchor, Changes(s, m)
  PROVE  PacingInv'
<1>0. PacingTypeOK /\ SendersTyped /\ AnchorsAreBehind
  BY DEF PacingInv
<1>1. m.anchor <= DayOf(clock)
  BY <1>0 DEF AnchorsAreBehind
<1>2. /\ PacingTypeOK' /\ SendersTyped' /\ AnchorsAreBehind' /\ Moves(s, "save")
      /\ mem' = m /\ DayOf(clock)' = DayOf(clock)
  BY <1>0, <1>1, ChangeStep
<1>3. Rolled'.sent = Rolled.sent
  <2>1. Rolled'.sent = IF mem'.anchor = DayOf(clock)' THEN mem'.sent ELSE 0
    <3>1. (PacingTypeOK /\ AnchorsAreBehind
             => Rolled.sent = IF mem.anchor = DayOf(clock) THEN mem.sent ELSE 0)'
      BY RolledFields, PTL
    <3>. QED
      BY <1>2, <3>1
  <2>. QED
    BY <1>0, <1>2, <2>1, RolledFields
<1>4. Admitted' = Admitted /\ Uncounted' = Uncounted
  <2>1. s \notin Admitted /\ s \notin Uncounted
    BY DEF Admitted, Uncounted
  <2>. QED
    BY <1>0, <1>2, <2>1, MovesCount
<1>5. UNCHANGED <<clock, start, today>>
  BY DEF Changes
<1>. QED
  BY <1>2, <1>3, <1>4, <1>5, CountsKept DEF PacingInv

LEMMA TriggerTimelockStep ==
  ASSUME PacingInv, NEW s \in Senders, TriggerTimelock(s), UNCHANGED throttle
  PROVE  PacingInv'
<1>1. mem \in Account /\ clock + LockTicks \in Nat
  BY AccountsTyped, ClockTypes, PacingAssumption DEF PacingInv
<1>2. \A v \in Nat : TimeLocked = [mem EXCEPT !.until = v]
        => TimeLocked \in Account /\ TimeLocked.sent = mem.sent /\ TimeLocked.anchor = mem.anchor
  BY <1>1, AccountFields
<1>3. \E v \in Nat : TimeLocked = [mem EXCEPT !.until = v]
  <2>1. mem.until \in Nat
    BY <1>1, AccountFields
  <2>2. PICK v : v = IF clock + LockTicks > mem.until THEN clock + LockTicks ELSE mem.until
    OBVIOUS
  <2>3. v \in Nat
    BY <1>1, <2>1, <2>2
  <2>4. TimeLocked = [mem EXCEPT !.until = v]
    BY <2>2 DEF TimeLocked
  <2>. QED
    BY <2>3, <2>4
<1>. QED
  BY <1>2, <1>3, NothingCounted DEF TriggerTimelock

LEMMA PenalizeStep ==
  ASSUME PacingInv, NEW s \in Senders, Penalize(s), UNCHANGED throttle
  PROVE  PacingInv'
<1>1. mem \in Account /\ mem.health \in 0 .. MaxHealth /\ mem.health > 0
  BY AccountsTyped, AccountFields DEF PacingInv, Penalize
<1>2. mem.health - 1 \in 0 .. MaxHealth
  BY <1>1, PacingAssumption
<1>3. PICK m : m = [mem EXCEPT !.health = mem.health - 1]
  OBVIOUS
<1>4. m \in Account /\ m.sent = mem.sent /\ m.anchor = mem.anchor
  BY <1>1, <1>2, <1>3, AccountFields
<1>5. send[s].at = "nothing" /\ Changes(s, m)
  BY <1>3 DEF Penalize
<1>. QED
  BY <1>4, <1>5, NothingCounted

\* The write of the row, or its failure.
LEMMA SaveStep ==
  ASSUME PacingInv, NEW s \in Senders, SaveWarmupState(s) \/ SaveFails(s),
         UNCHANGED throttle
  PROVE  PacingInv'
<1>0. PacingTypeOK /\ SendersTyped /\ AnchorsAreBehind
  BY DEF PacingInv
<1>1. /\ send[s].at = "save" /\ send' = [send EXCEPT ![s] = Resting]
      /\ UNCHANGED <<clock, start, mem, today, throttle>>
      /\ row' = row \/ row' = send[s].snapshot
  BY DEF SaveWarmupState, SaveFails
<1>2. Resting \in [at : {"nothing", "send", "record"}] /\ Resting.at = "nothing"
  BY DEF Resting
<1>3. SendersTyped' /\ Moves(s, "nothing")
  BY <1>0, <1>1, <1>2 DEF SendersTyped, Moves
<1>4. row' \in Account /\ row'.anchor <= DayOf(clock)
  BY <1>0, <1>1, SenderKinds, AccountsTyped DEF AnchorsAreBehind
<1>5. PacingTypeOK'
  BY <1>0, <1>1, <1>4 DEF PacingTypeOK, Account
<1>6. DayOf(clock)' = DayOf(clock) /\ Rolled' = Rolled
  BY <1>1 DEF DayOf, Rolled
<1>7. AnchorsAreBehind'
  BY <1>0, <1>1, <1>3, <1>4, <1>6 DEF AnchorsAreBehind, Moves
<1>8. Admitted' = Admitted /\ Uncounted' = Uncounted
  <2>1. s \notin Admitted /\ s \notin Uncounted
    BY <1>1 DEF Admitted, Uncounted
  <2>. QED
    BY <1>0, <1>3, <2>1, MovesCount
<1>. QED
  BY <1>1, <1>3, <1>5, <1>6, <1>7, <1>8, CountsKept DEF PacingInv

\* The next process admits nobody on the day it starts.
LEMMA RestartStep ==
  ASSUME PacingInv, Restart, UNCHANGED throttle
  PROVE  PacingInv'
<1>0. PacingTypeOK /\ SendersTyped /\ AnchorsAreBehind
  BY DEF PacingInv
<1>1. row \in Account /\ row.health \in 0 .. MaxHealth /\ MaxHealth \in 0 .. MaxHealth
  BY <1>0, AccountsTyped, AccountFields, PacingAssumption
<1>2. PICK h : h = IF row.health > 0 THEN row.health ELSE MaxHealth
  OBVIOUS
<1>3. h \in 0 .. MaxHealth /\ mem' = [row EXCEPT !.health = h]
  BY <1>1, <1>2 DEF Restart
<1>4. mem' \in Account /\ mem'.anchor = row.anchor
  BY <1>1, <1>3, AccountFields
<1>5. PacingTypeOK'
  BY <1>0, <1>4 DEF PacingTypeOK, Account, Restart
<1>6. SendersTyped' /\ \A s \in Senders : send'[s].at = "nothing"
  BY DEF Restart, Resting, SendersTyped
<1>7. DayOf(clock)' = DayOf(clock) /\ DayOf(start)' = DayOf(clock)
  BY DEF Restart, DayOf
<1>8. AnchorsAreBehind'
  BY <1>0, <1>4, <1>6, <1>7, ClockTypes DEF AnchorsAreBehind, Restart
<1>9. Quiet'
  BY <1>6, <1>7 DEF Quiet, Admitted
<1>. QED
  BY <1>5, <1>6, <1>8, <1>9 DEF PacingInv

\* The quota never shrinks within a day, and a new day starts with no count.
LEMMA TickStep ==
  ASSUME PacingInv, WarmupTick, UNCHANGED throttle
  PROVE  PacingInv'
<1>0. PacingTypeOK /\ SendersTyped /\ AnchorsAreBehind
  BY DEF PacingInv
<1>1. /\ clock \in Nat /\ start \in Nat /\ clock < MaxClock /\ clock' = clock + 1
      /\ UNCHANGED <<start, mem, row, send, throttle>>
      /\ today' = IF DayOf(clock') = DayOf(clock) THEN today ELSE 0
  BY <1>0, ClockTypes DEF WarmupTick
<1>2. DayOf(clock') \in Nat /\ DayOf(clock) \in Nat /\ DayOf(clock) <= DayOf(clock')
  BY <1>1, DayType, DayGrows
<1>3. mem \in Account /\ row \in Account /\ today \in Nat /\ today' \in Nat
  BY <1>0, <1>1, AccountsTyped
<1>4. PacingTypeOK'
  BY <1>0, <1>1, <1>3, SmallNats DEF PacingTypeOK
<1>5. SendersTyped' /\ Admitted' = Admitted /\ Uncounted' = Uncounted
  BY <1>0, <1>1 DEF SendersTyped, Admitted, Uncounted
<1>6. AnchorsAreBehind'
  <2>1. start' <= clock'
    BY <1>0, <1>1 DEF AnchorsAreBehind
  <2>2. mem'.anchor <= DayOf(clock') /\ row'.anchor <= DayOf(clock')
    BY <1>0, <1>1, <1>2, <1>3, AccountFields DEF AnchorsAreBehind
  <2>3. ASSUME NEW s \in Senders, send[s].at = "save"
        PROVE  send[s].snapshot.anchor <= DayOf(clock')
    <3>1. send[s].snapshot.anchor \in Nat
      BY <1>0, <2>3, SenderKinds, AccountFields
    <3>. QED
      BY <1>0, <1>2, <2>3, <3>1 DEF AnchorsAreBehind
  <2>. QED
    BY <1>1, <2>1, <2>2, <2>3 DEF AnchorsAreBehind, DayOf
<1>7. QuotaNow \in Nat /\ QuotaNow' \in Nat /\ QuotaNow <= QuotaNow'
  BY <1>0, <1>1, QuotaType, QuotaGrows
<1>8. Larger(QuotaNow, 1) <= Larger(QuotaNow', 1) /\ Larger(QuotaNow, 1) \in Nat
      /\ Larger(QuotaNow', 1) \in Nat \ {0}
  BY <1>7 DEF Larger
<1>9. CASE DayOf(clock') = DayOf(clock)
  <2>1. Rolled' = Rolled /\ today' = today
    BY <1>1, <1>9 DEF Rolled, DayOf
  <2>2. Rolled.sent \in Nat
    BY <1>0, RolledFields, AccountFields
  <2>3. Quiet => Quiet'
    BY <1>1, <1>5, <1>9 DEF Quiet, DayOf
  <2>4. Bounded => Bounded'
    <3>1. ASSUME Rolled.sent + Cardinality(Admitted)
                   <= Larger(QuotaNow, 1) - 1 + Cardinality(Senders)
          PROVE  Rolled.sent + Cardinality(Admitted)
                   <= Larger(QuotaNow', 1) - 1 + Cardinality(Senders)
      BY <1>8, <2>2, <3>1, CountsAreSound
    <3>. QED
      BY <1>5, <2>1, <3>1 DEF Bounded, Larger
  <2>. QED
    BY <1>4, <1>5, <1>6, <2>3, <2>4 DEF PacingInv
<1>10. CASE DayOf(clock') # DayOf(clock)
  <2>1. mem.anchor # DayOf(clock')
    BY <1>0, <1>2, <1>3, <1>10, AccountFields DEF AnchorsAreBehind
  <2>2. Rolled'.sent = 0
    BY <1>1, <1>3, <2>1 DEF Rolled, DayOf, Account
  <2>3. today' = 0
    BY <1>1, <1>10
  <2>4. /\ 0 + Cardinality(Admitted) <= Larger(QuotaNow', 1) - 1 + Cardinality(Senders)
        /\ 0 <= 0 + Cardinality(Uncounted)
    BY <1>8, CountsAreSound
  <2>5. Bounded'
    BY <1>5, <2>2, <2>3, <2>4 DEF Bounded, Larger
  <2>. QED
    BY <1>4, <1>5, <1>6, <2>5 DEF PacingInv
<1>. QED
  BY <1>9, <1>10

\* The throttle waits for some time that is not before now.
LEMMA ThrottleTypes ==
  ASSUME PacingTypeOK
  PROVE  /\ clock \in Nat /\ throttle.backoff \in 0 .. MaxBackoff /\ throttle.last \in Nat \cup {-1}
         /\ throttle = [backoff |-> throttle.backoff, last |-> throttle.last]
BY SmallNats DEF PacingTypeOK

LEMMA BackoffType ==
  ASSUME PacingTypeOK, NEW refused \in BOOLEAN
  PROVE  Backoff(refused) \in 0 .. MaxBackoff
<1>1. PICK b \in 0 .. MaxBackoff : b = throttle.backoff
  BY ThrottleTypes
<1>2. MinInterval \in Nat /\ MaxBackoff \in Nat /\ MinInterval <= MaxBackoff
  BY PacingAssumption
<1>3. Smaller(2 * b, MaxBackoff) \in 0 .. MaxBackoff
  BY <1>2 DEF Smaller
<1>4. Backoff(refused) \in {0, MinInterval, Smaller(2 * b, MaxBackoff)}
  BY <1>1 DEF Backoff
<1>. QED
  BY <1>2, <1>3, <1>4

\* However far in the future the last reconnection is, the next one is at least
\* base later.
LEMMA WaitSpaces ==
  ASSUME PacingTypeOK, NEW base \in Nat
  PROVE  /\ clock + Wait(base) \in Nat
         /\ throttle.last >= 0 => clock + Wait(base) >= throttle.last + base
<1>1. PICK l \in Nat \cup {-1} : l = throttle.last
  BY ThrottleTypes
<1>2. PICK k \in Nat : k = clock
  BY ThrottleTypes
<1>. QED
  BY <1>1, <1>2 DEF Wait, Larger

LEMMA ThrottleStep ==
  ASSUME PacingInv, ThrottleNext \/ UNCHANGED throttle, UNCHANGED <<clock, warmupVars>>
  PROVE  PacingInv'
<1>0. PacingTypeOK
  BY DEF PacingInv
<1>1. throttle' \in [backoff : 0 .. MaxBackoff, last : Nat \cup {-1}]
  <2>1. CASE throttle' = throttle
    BY <1>0, <2>1 DEF PacingTypeOK
  <2>2. ASSUME NEW refused \in BOOLEAN, NextReconnect(refused)
        PROVE  throttle' \in [backoff : 0 .. MaxBackoff, last : Nat \cup {-1}]
    <3>1. PICK b : b = Backoff(refused)
      OBVIOUS
    <3>2. b \in 0 .. MaxBackoff /\ Larger(MinInterval, b) \in Nat
      BY <1>0, <3>1, BackoffType, PacingAssumption DEF Larger
    <3>3. clock + Wait(Larger(MinInterval, b)) \in Nat
      BY <1>0, <3>2, WaitSpaces
    <3>4. throttle' = [backoff |-> b, last |-> clock + Wait(Larger(MinInterval, b))]
      BY <2>2, <3>1 DEF NextReconnect
    <3>. QED
      BY <3>2, <3>3, <3>4
  <2>3. CASE ResetThrottle \/ Restarted
    <3>1. 0 \in 0 .. MaxBackoff /\ -1 \in Nat \cup {-1}
      BY PacingAssumption
    <3>2. throttle.last \in Nat \cup {-1}
      BY <1>0, ThrottleTypes
    <3>3. ResetThrottle => throttle' = [backoff |-> 0, last |-> throttle.last]
      BY <1>0, ThrottleTypes DEF ResetThrottle
    <3>4. Restarted => throttle' = [backoff |-> 0, last |-> -1]
      BY DEF Restarted
    <3>. QED
      BY <2>3, <3>1, <3>2, <3>3, <3>4
  <2>4. ~ThrottleTick
    BY <1>0, ThrottleTypes DEF ThrottleTick
  <2>. QED
    BY <2>1, <2>2, <2>3, <2>4 DEF ThrottleNext
<1>2. PacingTypeOK'
  BY <1>0, <1>1 DEF PacingTypeOK, warmupVars
<1>3. /\ SendersTyped' /\ AnchorsAreBehind'
      /\ Admitted' = Admitted /\ Uncounted' = Uncounted /\ Rolled' = Rolled
  BY DEF PacingInv, SendersTyped, AnchorsAreBehind, Admitted, Uncounted, Rolled,
     DayOf, warmupVars
<1>. QED
  BY <1>2, <1>3, CountsKept DEF PacingInv, warmupVars

LEMMA PacingNextInv ==
  ASSUME PacingInv, [PacingNext]_PacingVars
  PROVE  PacingInv'
<1>1. CASE WarmupNext /\ UNCHANGED throttle
  <2>1. ASSUME NEW s \in Senders, NEW unknown \in BOOLEAN, AllowSend(s, unknown)
        PROVE  PacingInv'
    BY <1>1, <2>1, AllowSendStep
  <2>2. ASSUME NEW s \in Senders,
               \/ SendOut(s) \/ RecordSent(s) \/ TriggerTimelock(s) \/ Penalize(s)
               \/ SaveWarmupState(s) \/ SaveFails(s)
        PROVE  PacingInv'
    BY <1>1, <2>2, SendOutStep, RecordSentStep, TriggerTimelockStep, PenalizeStep, SaveStep
  <2>3. CASE WarmupTick \/ Restart
    BY <1>1, <2>3, TickStep, RestartStep
  <2>. QED
    BY <1>1, <2>1, <2>2, <2>3 DEF WarmupNext
<1>2. CASE ThrottleNext /\ UNCHANGED <<clock, warmupVars>>
  BY <1>2, ThrottleStep
<1>3. CASE UNCHANGED PacingVars
  BY <1>3, ThrottleStep DEF PacingVars
<1>. QED
  BY <1>1, <1>2, <1>3 DEF PacingNext

\* The inductive invariant of the warm-up and the throttle holds in every state.
THEOREM PacingInvariant == PacingSpec => []PacingInv
BY PacingInitInv, PacingNextInv, PTL DEF PacingSpec

\* The accounts, in memory and in the row, and the throttle stay within their types.
THEOREM PacingTypeCorrect == PacingSpec => []PacingTypeOK
<1>1. PacingInv => PacingTypeOK
  BY DEF PacingInv
<1>. QED
  BY <1>1, PacingInvariant, PTL

\* However many senders pass AllowSend before one of them is counted, and
\* whatever counts a crash loses, no message goes out beyond the quota of the
\* day and one for every other sender.
THEOREM QuotasHold == PacingSpec => QuotaHolds
<1>1. ASSUME PacingInv, [PacingNext]_PacingVars, today' > today
      PROVE  today' <= Larger(QuotaNow, 1) + Cardinality(Senders) - 1
  <2>0. PacingTypeOK /\ SendersTyped /\ AnchorsAreBehind /\ today \in Nat
    BY <1>1, AccountsTyped DEF PacingInv
  <2>1. PICK s \in Senders : SendOut(s)
    <3>1. ~WarmupTick
      BY <1>1, <2>0 DEF WarmupTick
    <3>2. ~(UNCHANGED PacingVars) /\ ~(UNCHANGED <<clock, warmupVars>>)
      BY <1>1, <2>0 DEF PacingVars, warmupVars
    <3>3. WarmupNext
      BY <1>1, <3>2 DEF PacingNext
    <3>. QED
      BY <1>1, <2>0, <3>1, <3>3 DEF WarmupNext, AllowSend, RecordSent, TriggerTimelock,
         Penalize, Changes, SaveWarmupState, SaveFails, Restart
  <2>2. send[s].at = "send" /\ today' = today + 1
    BY <1>1, <2>0, <2>1 DEF SendOut
  <2>3. s \in Admitted /\ s \notin Uncounted
    BY <2>2 DEF Admitted, Uncounted
  <2>4. Bounded
    BY <1>1, <2>3 DEF PacingInv, Quiet
  <2>5. Cardinality(Uncounted) + 1 <= Cardinality(Admitted)
    <3>1. Uncounted \cup {s} \subseteq Admitted
      BY <2>3 DEF Admitted, Uncounted
    <3>2. Cardinality(Uncounted \cup {s}) = Cardinality(Uncounted) + 1
      BY <2>3, CountsAreSound, FS_AddElement
    <3>. QED
      BY <3>1, <3>2, CountsAreSound, FS_Subset
  <2>6. Rolled.sent \in Nat /\ Larger(QuotaNow, 1) \in Nat
    BY <2>0, RolledFields, AccountFields, QuotaType DEF Larger
  <2>. QED
    BY <2>0, <2>2, <2>4, <2>5, <2>6, CountsAreSound DEF Bounded
<1>2. PacingInv /\ [PacingNext]_PacingVars
        => [today' > today =>
              today' <= Larger(QuotaNow, 1) + Cardinality(Senders) - 1]_<<clock, warmupVars>>
  BY <1>1
<1>. QED
  BY <1>2, PacingInvariant, PTL DEF PacingSpec, QuotaHolds

\* The instants at which the throttle allows a reconnection are MinInterval
\* apart, also when they are asked for while an earlier one is still to come.
THEOREM ReconnectionsAreSpaced == PacingSpec => ReconnectsAreSpaced
<1>1. ASSUME PacingInv, [PacingNext]_PacingVars,
             throttle.last >= 0, throttle'.last >= 0, throttle'.last # throttle.last
      PROVE  throttle'.last >= throttle.last + MinInterval
  <2>0. PacingTypeOK
    BY <1>1 DEF PacingInv
  <2>1. throttle' # throttle
    BY <1>1
  <2>2. ThrottleNext
    BY <1>1, <2>1 DEF PacingNext, PacingVars
  <2>3. ~ResetThrottle
    BY <1>1, <2>0, ThrottleTypes DEF ResetThrottle
  <2>4. ~Restarted
    BY <1>1 DEF Restarted
  <2>5. PICK refused \in BOOLEAN : NextReconnect(refused)
    BY <2>1, <2>2, <2>3, <2>4 DEF ThrottleNext, ThrottleTick
  <2>6. PICK b : b = Larger(MinInterval, Backoff(refused))
    OBVIOUS
  <2>7. b \in Nat /\ b >= MinInterval
    BY <2>0, <2>6, BackoffType, PacingAssumption DEF Larger
  <2>8. throttle'.last = clock + Wait(b)
    BY <2>5, <2>6 DEF NextReconnect
  <2>9. clock + Wait(b) >= throttle.last + b
    BY <1>1, <2>0, <2>7, WaitSpaces
  <2>10. clock + Wait(b) \in Nat /\ throttle.last \in Nat
    BY <1>1, <2>0, <2>7, WaitSpaces, ThrottleTypes
  <2>. QED
    BY <2>7, <2>8, <2>9, <2>10, PacingAssumption
<1>2. PacingInv /\ [PacingNext]_PacingVars
        => [throttle.last >= 0 /\ throttle'.last >= 0 /\ throttle'.last # throttle.last
              => throttle'.last >= throttle.last + MinInterval]_throttle
  BY <1>1
<1>. QED
  BY <1>2, PacingInvariant, PTL DEF PacingSpec, ReconnectsAreSpaced
=============================================================================
