-------------------------- MODULE WhatsmeowManager --------------------------
(***************************************************************************)
(* adapter/provider/whatsmeow: the Manager, which keeps one client per     *)
(* tenant in a table of bounded size, the Dispatcher of each client, the   *)
(* EventProcessor its loops call and the Adapter that sends; with the      *)
(* cache of senders in front of it (adapter/sender/memory).                *)
(*                                                                         *)
(* Every critical section is one action, except two that block with a lock *)
(* held: an eviction waits for the victim's loops under m.mu, and a miss   *)
(* of the cache of senders calls the factory under its own lock.  The      *)
(* socket and what it delivers belong to the library (external).           *)
(***************************************************************************)
EXTENDS Integers, Sequences, SequencesExt, FiniteSets

CONSTANTS
  Tenants,
  Callers,           \* goroutines that use the manager
  MaxActiveTenants,
  MaxClients,        \* bound: clients ever created
  MaxEvents,         \* bound: events the sockets ever deliver
  EventBuffer,       \* eventBuffer
  Factory,           \* the factory each operation passes, see NewClient
  Banned             \* tenants whose account state says banned_at: nothing
                     \* in src writes it

None == 0
Clients == 1 .. MaxClients

ASSUME ManagerAssumption ==
  /\ None \notin Tenants /\ None \notin Callers /\ Banned \subseteq Tenants
  /\ MaxActiveTenants \in Nat \ {0} /\ MaxClients \in Nat
  /\ EventBuffer \in Nat \ {0} /\ MaxEvents \in Nat
  /\ Factory \in [{"send", "qr"} -> {"real", "stub"}]

VARIABLES
  clients,   \* m.clients: the client of each tenant, or None
  order,     \* m.order: the least recently used tenant first
  lock,      \* who holds m.mu across a wait, or None
  client,    \* every client created, with its Adapter and its Dispatcher
  caller,    \* what each goroutine is at
  cached,    \* sender of each tenant in the cache of senders, or None
  regLock,   \* who holds the lock of that cache while a factory runs
  born,      \* number of clients created
  heard      \* number of events delivered

vars == <<clients, order, lock, client, caller, cached, regLock, born, heard>>

Events == {"connected", "disconnected", "logged_out", "message"}

\* kind and socket of the client, connected flag of the adapter, loop and
\* buffer of the dispatcher, and the event its handler is at.  "closed" is a
\* socket after Disconnect: the library opens it no more by itself.
Client ==
  [tenant : Tenants, kind : {"real", "stub"}, sock : {"up", "down", "closed"},
   connected : BOOLEAN, loop : {"new", "running", "cancelled", "ended"},
   queue : Seq(Events), at : Events \cup {"select"}]
Unborn == [kind |-> "unborn"]

Steps == {"look", "build", "insert", "evict", "stop", "use", "sent"}
Busy == [op : {"send", "qr", "reset", "shutdown"}, at : Steps,
          tenant : Tenants \cup {None}, has : Clients \cup {None}, stop : SUBSET Clients]
Idle == [at |-> "idle"]

TypeOK ==
  /\ clients \in [Tenants -> Clients \cup {None}]
  /\ order \in Seq(Tenants)
  /\ lock \in Callers \cup {None} /\ regLock \in Callers \cup {None}
  /\ client \in [Clients -> Client \cup {Unborn}]
  /\ caller \in [Callers -> Busy \cup {Idle}]
  /\ cached \in [Tenants -> Clients \cup {None}]
  /\ born \in 0 .. MaxClients /\ heard \in 0 .. MaxEvents

Init ==
  /\ clients = [t \in Tenants |-> None] /\ order = <<>>
  /\ lock = None /\ regLock = None
  /\ client = [a \in Clients |-> Unborn]
  /\ caller = [c \in Callers |-> Idle]
  /\ cached = [t \in Tenants |-> None]
  /\ born = 0 /\ heard = 0

-----------------------------------------------------------------------------
(* Helpers.                                                                *)

Exists(a) == client[a] # Unborn
Table == {t \in Tenants : clients[t] # None}

\* touchLRU.
Touched(t) == IF t \in ToSet(order) THEN Append(RemoveFirst(order, t), t) ELSE order
Goes(c, at) == [caller EXCEPT ![c].at = at]
Starts(c, op, t, at) ==
  [caller EXCEPT ![c] =
     [op |-> op, at |-> at, tenant |-> t, has |-> None, stop |-> {}]]

\* Neither factory waits for the socket: the stub never opens one, and the
\* real client is connected by the library later, or not at all.
NewClient(t, kind) ==
  [tenant |-> t, kind |-> kind, sock |-> "down", connected |-> FALSE,
   loop |-> "new", queue |-> <<>>, at |-> "select"]

\* Stop of a dispatcher: cancel if it was ever started, and wait for the loops.
Cancelled(cl) == IF cl.loop = "running" THEN [cl EXCEPT !.loop = "cancelled"]
                                         ELSE cl
\* Mutant: nobody waits for the loops.
LoopsEndedAnyway(cl) == TRUE

LoopsEnded(cl) == cl.loop \in {"new", "ended"}
\* Mutant: the client that lost the race, or was evicted, is only forgotten.
ClosedNever(cl) == cl

Closed(cl) == [cl EXCEPT !.sock = "closed"]

\* What the call ends with: a sender is cached, and then used; a QR code is
\* read from the client.
Handed(c, a) ==
  /\ caller' = [caller EXCEPT ![c].at = "use", ![c].has = a]
  /\ IF caller[c].op = "send"
       THEN cached' = [cached EXCEPT ![caller[c].tenant] = a] /\ regLock' = None
       ELSE UNCHANGED <<cached, regLock>>

-----------------------------------------------------------------------------
(* The cache of senders: Registry.Get, and the TTL of its entries.         *)

Hit(c, t) ==
  /\ caller[c] = Idle /\ cached[t] # None
  /\ caller' = [Starts(c, "send", t, "use") EXCEPT ![c].has = cached[t]]
  /\ UNCHANGED <<clients, order, lock, client, cached, regLock, born,
                 heard>>

Miss(c, t) ==
  /\ caller[c] = Idle /\ cached[t] = None /\ regLock = None
  /\ regLock' = c
  /\ caller' = Starts(c, "send", t, "look")
  /\ UNCHANGED <<clients, order, lock, client, cached, born, heard>>

Expire(t) ==
  /\ cached[t] # None
  /\ cached' = [cached EXCEPT ![t] = None]
  /\ UNCHANGED <<clients, order, lock, client, caller, regLock, born,
                 heard>>

-----------------------------------------------------------------------------
(* The manager.                                                            *)

CurrentQR(c, t) ==
  /\ caller[c] = Idle
  /\ caller' = Starts(c, "qr", t, "look")
  /\ UNCHANGED <<clients, order, lock, client, cached, regLock, born,
                 heard>>

\* The first critical section of GetOrCreate.
Lookup(c) ==
  /\ caller[c].at = "look" /\ lock = None
  /\ LET t == caller[c].tenant IN
     IF clients[t] # None
       THEN order' = Touched(t) /\ Handed(c, clients[t])
       ELSE /\ caller' = Goes(c, "build")
            /\ UNCHANGED <<order, cached, regLock>>
  /\ UNCHANGED <<clients, lock, client, born, heard>>

\* The factory runs without the lock.
Create(c) ==
  /\ caller[c].at = "build" /\ born < MaxClients
  /\ client' = [client EXCEPT ![born + 1] =
                  NewClient(caller[c].tenant, Factory[caller[c].op])]
  /\ caller' = [caller EXCEPT ![c].at = "insert", ![c].has = born + 1]
  /\ born' = born + 1
  /\ UNCHANGED <<clients, order, lock, cached, regLock, heard>>

CreateFails(c) ==
  /\ caller[c].at = "build"
  /\ caller' = [caller EXCEPT ![c] = Idle]
  /\ regLock' = IF caller[c].op = "send" THEN None ELSE regLock
  /\ UNCHANGED <<clients, order, lock, client, cached, born, heard>>

\* The second critical section: another call may have created the client of
\* the tenant, and the table may be full.
Insert(c) ==
  /\ caller[c].at = "insert" /\ lock = None
  /\ LET t == caller[c].tenant
         a == caller[c].has IN
     \/ /\ clients[t] # None
        /\ client' = [client EXCEPT ![a] = Closed(@)]
        /\ order' = Touched(t)
        /\ Handed(c, clients[t])
        /\ UNCHANGED <<clients, lock>>
     \/ /\ clients[t] = None /\ Cardinality(Table) < MaxActiveTenants
        /\ clients' = [clients EXCEPT ![t] = a]
        /\ order' = Append(order, t)
        /\ Handed(c, a)
        /\ UNCHANGED <<lock, client>>
     \/ /\ clients[t] = None /\ Cardinality(Table) >= MaxActiveTenants
        /\ lock' = c
        /\ order' = Tail(order)
        /\ caller' = [caller EXCEPT ![c].at = "evict",
                                    ![c].stop = {clients[Head(order)]}]
        /\ client' = [client EXCEPT ![clients[Head(order)]] = Cancelled(@)]
        /\ UNCHANGED <<clients, cached, regLock>>
  /\ UNCHANGED <<born, heard>>

\* evictLRU, with m.mu held until the loops of the victim have ended.
Evict(c) ==
  /\ caller[c].at = "evict"
  /\ \E v \in caller[c].stop :
       /\ LoopsEnded(client[v])
       /\ client' = [client EXCEPT ![v] = Closed(@)]
       /\ clients' = [clients EXCEPT ![client[v].tenant] = None,
                                     ![caller[c].tenant] = caller[c].has]
  /\ order' = Append(order, caller[c].tenant)
  /\ lock' = None
  /\ Handed(c, caller[c].has)
  /\ UNCHANGED <<born, heard>>

\* Disconnect of the tenant reset: out of the table first, stopped later.
Disconnect(c, t) ==
  /\ caller[c] = Idle /\ lock = None /\ clients[t] # None
  /\ clients' = [clients EXCEPT ![t] = None]
  /\ order' = RemoveFirst(order, t)
  /\ caller' = [Starts(c, "reset", t, "stop") EXCEPT ![c].stop = {clients[t]}]
  /\ client' = [client EXCEPT ![clients[t]] = Cancelled(@)]
  /\ UNCHANGED <<lock, cached, regLock, born, heard>>

\* DisconnectAll copies the entries and leaves them in the table.
DisconnectAll(c) ==
  /\ caller[c] = Idle /\ lock = None /\ Table # {}
  /\ \A d \in Callers : caller[d] # Idle => caller[d].op # "shutdown"
  /\ caller' = [Starts(c, "shutdown", None, "stop") EXCEPT
                 ![c].stop = {clients[t] : t \in Table}]
  /\ UNCHANGED <<clients, order, lock, client, cached, regLock, born,
                 heard>>

\* One client after the other: Stop, wait for its loops, Disconnect.
Stop(c, a) ==
  /\ caller[c].at = "stop" /\ caller[c].has = None /\ a \in caller[c].stop
  /\ caller' = [caller EXCEPT ![c].has = a]
  /\ client' = [client EXCEPT ![a] = Cancelled(@)]
  /\ UNCHANGED <<clients, order, lock, cached, regLock, born, heard>>

Stopped(c) ==
  /\ caller[c].at = "stop" /\ caller[c].has # None
  /\ LET a == caller[c].has IN
     /\ LoopsEnded(client[a])
     /\ client' = [client EXCEPT ![a] = Closed(@)]
     /\ caller' = IF caller[c].stop = {a} THEN [caller EXCEPT ![c] = Idle]
                  ELSE [caller EXCEPT ![c].has = None, ![c].stop = @ \ {a}]
  /\ UNCHANGED <<clients, order, lock, cached, regLock, born, heard>>

\* readQR: a connected or paired client has no code to wait for; the context
\* ends any other wait.
ReadQR(c) ==
  /\ caller[c].at = "use" /\ caller[c].op = "qr"
  /\ caller' = [caller EXCEPT ![c] = Idle]
  /\ UNCHANGED <<clients, order, lock, client, cached, regLock, born,
                 heard>>

-----------------------------------------------------------------------------
(* The dispatcher and the events.                                          *)

Start(a) ==
  /\ Exists(a) /\ clients[client[a].tenant] = a /\ client[a].loop = "new"
  /\ client' = [client EXCEPT ![a].loop = "running"]
  /\ UNCHANGED <<clients, order, lock, caller, cached, regLock, born,
                 heard>>

\* HandleRaw: queued, or dropped when the buffer is full; nothing listens
\* before Start.
Heard(a, e, sock) ==
  LET room == client[a].loop # "new" /\ Len(client[a].queue) < EventBuffer IN
  /\ heard < MaxEvents /\ heard' = heard + 1
  /\ client' = [client EXCEPT ![a].sock = sock,
                  ![a].queue = IF room THEN Append(@, e) ELSE @]
  /\ UNCHANGED <<clients, order, lock, caller, cached, regLock, born>>

\* The socket of a real client (external).
Deliver(a) ==
  /\ Exists(a) /\ client[a].kind = "real"
  /\ \/ client[a].sock = "down" /\ Heard(a, "connected", "up")
     \/ client[a].sock = "up" /\ Heard(a, "disconnected", "down")
     \/ client[a].sock = "up" /\ Heard(a, "logged_out", "down")
     \/ client[a].sock = "up" /\ Heard(a, "message", "up")

\* One turn of loopEvents; a cancelled loop may still take an event, when both
\* cases of its select are ready.
Take(a) ==
  /\ Exists(a) /\ client[a].loop \in {"running", "cancelled"}
  /\ client[a].at = "select" /\ client[a].queue # <<>>
  /\ client' = [client EXCEPT ![a].at = Head(client[a].queue),
                              ![a].queue = Tail(@)]
  /\ UNCHANGED <<clients, order, lock, caller, cached, regLock, born,
                 heard>>

\* ProcessEvent: what an event does to the flag of the adapter.  What it
\* publishes goes to the bus (Bus!Publish), with an error only logged; a panic
\* of the handler is recovered per event.
Flag(e, flag) ==
  CASE e = "connected" -> TRUE
    [] e \in {"disconnected", "logged_out"} -> FALSE
    [] OTHER -> flag

ProcessEvent(a) ==
  /\ Exists(a) /\ client[a].at # "select"
  /\ client' = [client EXCEPT ![a].connected = Flag(client[a].at, @),
                              ![a].at = "select"]
  /\ UNCHANGED <<clients, order, lock, caller, cached, regLock, born,
                 heard>>

LoopEnds(a) ==
  /\ Exists(a) /\ client[a].loop = "cancelled" /\ client[a].at = "select"
  /\ client' = [client EXCEPT ![a].loop = "ended"]
  /\ UNCHANGED <<clients, order, lock, caller, cached, regLock, born,
                 heard>>

-----------------------------------------------------------------------------
(* Adapter.Send on whatever adapter the caller holds.                      *)

\* What a request asks for: a message of some type, or an action, which may
\* need the id of a message.
Messages == {"text", "image", "audio", "video", "document", "sticker"}
OnTarget == {"reaction", "edit", "revoke", "mark_read"}
Actions == OnTarget \cup {"typing", "presence"}
Requests == [asks : Messages, target : {FALSE}]
              \cup [asks : OnTarget, target : BOOLEAN]
              \cup [asks : {"typing", "presence", "unknown"}, target : {FALSE}]

\* LoadState of the account; one that cannot be read is not banned.
IsBanned(t) == t \in Banned

SendMessage(a, r) ==
  /\ r.asks \in Messages
  /\ client[a].connected
  /\ ~IsBanned(client[a].tenant)

DoAction(a, r) ==
  /\ r.asks \in Actions
  /\ client[a].connected
  /\ r.asks \in OnTarget => r.target

\* Every method of the real client asks its own socket first; the upload and
\* the send of the library that follow may fail.  The stub asks nothing.
Up(a)          == client[a].sock = "up"
RealMessages(a) == IF Up(a) THEN Messages ELSE {}
RealActions(a)  == IF Up(a) THEN Actions ELSE {}
StubSends      == Messages \cup Actions
Answers(a) == IF client[a].kind = "real" THEN RealMessages(a) \cup RealActions(a)
                                         ELSE StubSends

Send(c) ==
  /\ caller[c].at = "use" /\ caller[c].op = "send"
  /\ LET a == caller[c].has
         sends == {r \in Requests : /\ SendMessage(a, r) \/ DoAction(a, r)
                                 /\ r.asks \in Answers(a)} IN
     caller' \in {Goes(c, "sent") : r \in sends} \cup {[caller EXCEPT ![c] = Idle]}
  /\ UNCHANGED <<clients, order, lock, client, cached, regLock, born, heard>>

Sent(c) ==
  /\ caller[c].at = "sent"
  /\ caller' = [caller EXCEPT ![c] = Idle]
  /\ UNCHANGED <<clients, order, lock, client, cached, regLock, born,
                 heard>>

-----------------------------------------------------------------------------
Calls(c) ==
  \/ \E t \in Tenants : \/ Hit(c, t) \/ Miss(c, t) \/ CurrentQR(c, t)
                        \/ Disconnect(c, t)
  \/ DisconnectAll(c)
Steps1(c) ==
  \/ Lookup(c) \/ Create(c) \/ CreateFails(c) \/ Insert(c) \/ Evict(c)
  \/ \E a \in Clients : Stop(c, a)
  \/ Stopped(c) \/ ReadQR(c) \/ Send(c) \/ Sent(c)
Loop(a) == Take(a) \/ ProcessEvent(a) \/ LoopEnds(a)

Next ==
  \/ \E c \in Callers : Calls(c) \/ Steps1(c)
  \/ \E a \in Clients : Start(a) \/ Deliver(a) \/ Loop(a)
  \/ \E t \in Tenants : Expire(t)

Spec == Init /\ [][Next]_vars

-----------------------------------------------------------------------------
(* Properties.                                                             *)

InTable(a) == Exists(a) /\ clients[client[a].tenant] = a

\* Two calls that create the client of one tenant, an eviction and a reset never
\* lose a client with its socket open: it is in the table, or the call that has
\* it is about to insert, discard or stop it.
NoOrphanSocket ==
  \A a \in Clients : Exists(a) /\ client[a].sock = "up" =>
    \/ InTable(a)
    \/ \E c \in Callers : \/ caller[c].at \in {"insert", "evict"} /\ caller[c].has = a
                          \/ caller[c].at = "stop" /\ a \in caller[c].stop

\* A client that was evicted or reset stays silent, whoever still holds it or has
\* it in the cache of senders: no event of it is handled any more, and no send
\* is acknowledged through it.
Gone(a) == Exists(a) /\ ~InTable(a) /\ client[a].sock = "closed"
EvictedIsSilent ==
  [][\A a \in Clients : Gone(a) =>
       /\ client'[a].at = "select" /\ client'[a].connected = client[a].connected
       /\ \A c \in Callers : caller[c].at = "use" /\ caller[c].has = a
                               => caller'[c].at # "sent"]_vars
=============================================================================
