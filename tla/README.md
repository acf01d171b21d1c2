# mez-go in TLA+

A verification development for mez-go, the omnichannel messaging server in
`src/`: one Go process that receives webhooks of WhatsApp, Messenger, Instagram
and Telegram, stores messages in PostgreSQL, routes conversations to agents and
sends messages through a transactional outbox. TLC model-checks the modules on
small instances, and TLAPS proves every safety result of theirs for every value of the
constants. Source references below are relative to `src/`.

## 1. The system and its parts

`cmd/server/wire.go` builds everything in one process: pools and repositories,
the bus, the outbox relay, the inbound reconciler, the whatsmeow manager and the
HTTP server; `main` boots the lifecycle runner, launches the background
goroutines and shuts down on a signal. `rotate-kek` and `setup` are commands of the
same binary, that is, processes that share the database with it.

| Part | State it keeps | Operations | Hard behaviour | What makes it correct |
|---|---|---|---|---|
| Outbox and relay (`internal/usecase/outbox/relay.go`, `internal/usecase/messaging/send.go`, `postgres/outbox.go`) | table `outbound_events`, table `messages`, the one-slot `notifyCh`, the batch in memory | `Send`, `SendAction`, `Ingest`, `Notify`, `Run`/`drain`/`process`, `Enqueue` ... `MarkDLQ` | a crash between provider and `MarkSent`, answers lost after a commit, two processes during a deploy, signals that coalesce | an acknowledged message is queued; sent means delivered; dead means exhausted; duplicates only from faults; every row settles |
| API and providers, by what they carry (`internal/transport/http/api/handlers.go`, `middleware/bearer.go`, `provider/*`) | none of their own; the payload of a row | routes of messages and actions, capabilities, `OutboundRequest`, `doAction` | what is lost between a request, its row and the call of an adapter | what is accepted can be done; what is delivered was asked for |
| Lifecycle runner (`pkg/lifecycle/runner.go`, `wireRunner` in `wire.go`) | `startedSet`, `shutdownStarted`, `shutdown`, a WaitGroup | `AddPhase`, `Boot`, `Shutdown`, `Run`, `Wait` | a Start that fails half way, two Shutdowns at a time, Stops that fail | whatever was attempted is stopped, once, in reverse order; goroutines end |
| Event bus (`internal/adapter/broker/bus.go`) | one buffered channel, handlers and consumer per topic, `drainCh` | `Publish*`, `Subscribe*`, `Drain` | publishers against Drain, full buffers, panicking handlers, the random choice of `select` | nothing runs after Drain; buffered events reach every handler; Drain ends |
| Inbound path (`internal/adapter/webhook/*`, `internal/usecase/messaging/ingest.go`, `internal/usecase/reconcile/reconciler.go`, `postgres/inbound_events.go`) | table `messages`, requests in flight, the reconciler's batch, the bus | secrets, signature, payload, `Ingest`, `ReconcileAll`, `Run` | retries and redeliveries, a crash between commit and publish, transactions that fail, stale batches, several messages in a POST | stored before acknowledged; what is stored is routed once, in the end; what is given up is known |
| Routing (`internal/usecase/routing/router.go`, `internal/usecase/messaging/list.go`, `internal/usecase/inbox/inbox.go`, `internal/core/domain`) | conversations, agents' loads, overflow chain | `Assign`, `Unassign`, `Resolve`, `AutoAssign` of the router; `AssignConversation`, `ResolveConversation` of `ListService` | concurrent read-modify-write, with and without a transaction, capacity, circles of queues | loads leave the assigned conversations only by lost updates and by the writer that counts none; capacity passed by a bounded number; nobody overlooked; resolved is terminal |
| WebSocket hub (`internal/transport/websocket/`) | subscribers per tenant, `closed`, a reader and a writer per connection | origin check, `Subscribe`, `Broadcast`, `Close`, `Shutdown` | a connection that is upgraded during Shutdown, either end of it closing first | nobody is left behind; both goroutines of a connection end |
| Whatsmeow provider (`provider/whatsmeow/`) | LRU table of clients, event queues, reconnect window, send quota | `GetOrCreate`, `Get`, `evictLRU`, `Reset`, dispatcher, adapter, warm-up, throttle | creation outside the lock, eviction of a client in use, quota checked before it is counted | no socket without an owner; an evicted client is silent; quota passed by a bounded number |
| Login and sessions (`internal/usecase/auth/`, `adapter/cache/memory/session.go`, rate limit) | failure windows, sessions, OIDC states | local and OIDC login, `Resolve`, logout, reaper | check, verification and count are three steps; deletions decided on stale reads | guesses are bounded; logged out is gone; a live session is kept |
| Admin access (`internal/transport/adminweb/`, `internal/core/admin/`, `internal/usecase/admin/`) | users, roles, bindings, the cache of principals | setup, invite, status, permissions, `Session`, `RequireScope` | a principal is cached and nothing invalidates it | a revocation takes effect in bounded time |
| Credentials and keys (`internal/usecase/secrets/`, `pkg/crypto`) | wrapped data keys, the cache of them | `SetCredentials`, `Resolve`, `Delete`, `RotateKEK` | a rotation that dies half way and is run again, a writer during it | every stored credential opens under the key of its row |
| Backup (`internal/usecase/backup/`) | jobs in memory, the export pipe, tables, objects | export, restore, reset | an error racing with the end of a stream, jobs that overlap | a job that reports success did all of it; no goroutine stays blocked |
| Settings cache and sender registry (`internal/usecase/settings/`, `internal/adapter/sender/memory/`) | TTL caches | get, set, delete, watch; `Get` and the factories | a fill that races with a write, a clock read before the lock | staleness bounded by the TTL and one request |

How they interact: a webhook handler calls `Ingest`, which commits one
transaction (message, outbox row) and then publishes on the in-memory bus; the
bus may lose the event, the database is the durable copy, and the reconciler
sweeps it. API calls write the outbox and signal the relay; the relay asks the
sender registry for a sender, which resolves a credential through the keyring,
calls the provider, writes the outcome back, and announces dead messages on the
bus. The runner starts and stops all of it. The hazards these interactions bring,
each at its line, are listed in `PROJECT.json`.

## 2. Modules

| Module | Models | Abstracts to |
|---|---|---|
| `DurableQueue` | what the outbox promises: append-only entries, settled once, sent only after a delivery | |
| `OutboxRelay` | the outbound path, statement by statement | `DurableQueue` |
| `ChannelRequests` | the outbound path by its data: API, capabilities, row, request, adapter | |
| `LifecycleRunner` | `Boot`, `Shutdown`, `Run`, `Wait` | |
| `Bus` | publish, consume, drain, for any topics | |
| `WebSocketHub` | origin check, connections, broadcast, shutdown | |
| `DurableInbox` | what the inbound path promises: stored before acknowledged, never lost, routed once | |
| `InboundPipeline` | provider, webhook handler, `Ingest`, bus and reconcilers, with `Bus` instantiated for the inbound topic | `DurableInbox` |
| `WebhookPayloads` | secrets, signature, and what becomes of the messages of one POST | |
| `ConversationRouting` | the router's transactions over conversations and loads, the choice of an agent, and the API's `ListService` beside them | |
| `WhatsmeowManager` | the table of clients, their dispatchers, the adapter and the cached senders | |
| `WhatsmeowPacing` | warm-up quota with its row, reconnect throttle | |
| `LoginSessions` | lockout, limiter, local and OIDC login, session store | |
| `AdminAccess` | setup, users, roles, cached principals, scopes | |
| `KeyRotation` | credentials, data keys, cache, the `rotate-kek` process | |
| `SettingsCache` | settings service, its watcher and restarts | |
| `SenderRegistry` | the cache of senders | |
| `BackupJobs` | export, restore and reset with the store of jobs | |
| `MC*` | instances for TLC | |
| `SumTheorems` | lemmas on sums over a finite set | |
| `OutboxRelayProofs`, `InboundProofs`, `ConversationRoutingProofs`, `WhatsmeowProofs`, `AdminWebProofs` | theorems about the modules their names say | |
| `ProcessProofs` | theorems about `LifecycleRunner`, `Bus`, `WebSocketHub` | |
| `OperationsProofs` | theorems about `KeyRotation`, `BackupJobs`, `ChannelRequests`, `SettingsCache`, `SenderRegistry` | |

**OutboxRelay.** `rows` is `outbound_events` in `created_at` order, `stored` the
ids in `messages`; `call[m]` is how far the API call or ingest that produces `m`
is; `pc`, `batch`, `full` and `cur` are the locals of `drain`; `signal` is
`notifyCh`. Every SQL statement is one action because the code runs each one
autocommitted on the pool; the transaction of `Ingest` is one action. A row's
marks go by `message_id`, so one UPDATE may touch several rows (`SetStatus`).
`StatementFails` is a statement that reports an error: without effect, or, with
`AckLoss`, with its effect and only the answer lost. A provider call succeeds,
fails, or times out after the provider accepted (`SendFails`). `Crash` forgets
the process and the calls it serves; `Stop` is the orderly exit.

**ChannelRequests.** What `OutboxRelay` leaves out: `What[a]` is a request of a
client, `answer` what the API says, `row` the payload `Enqueue` writes, `given` the
`OutboundRequest` that `process` builds from what `ClaimNext` reads, `outcome` what
the adapter of the channel makes of it. The bearer token is checked against
`clock`, in seconds, with the leeway of the code. Tables of capabilities, of types
and of actions are transcribed adapter by adapter.

**LifecycleRunner.** `boot` and `bi` are the loop of `Boot`, `marked` is
`startedSet`, `begun` and `ended` are `shutdownStarted` and `shutdown`; `spc` and
`si` are the loop of each of the two possible calls of `Shutdown` (by a failing
Boot and by the signal). A Start or Stop that fails may leave its phase running
or not. `overlap` is a history variable: Shutdown was called from outside while
Boot was between its first phase and its end. `runWithGracefulShutdown` listens to
the signal only after Boot, so the server never sets it; the runner's own
contract does not exclude it.

**Bus.** A publish is two steps, the look at `drainCh` and the non-blocking send.
A consumer is the `select` loop: `Receive`, one `CallHandler` per handler,
`Handled`, and on drain `SeeDrain`, `Discard` and `Leave`. The five topics are
five copies of the same Go code and one parameter here.

**WebSocketHub.** `handler[s]` is `ServeHTTP` with its read pump, `writer[s]` the
goroutine of the write pump, `members` the subscribers of the hub. `Subscribe`
looks at `Hub.closed` twice, the second time under the lock; `Broadcast` and
`Shutdown` copy the members and go on without it (`copy`, `closing`).

**InboundPipeline.** A request goes through `ingest`, `publish`, `offer` and
`answer`. `Ingest` commits and goes on, or fails and the handler answers 200 all
the same. `rows` is `messages`; the reconciler is `Select`, `Assign`/`AssignFails`,
`MarkRouted`, `FinishBatch`; in production `AssignFn` is a no-op because no ACD is
wired (`wire.go`), and `Unassignable` says for which events it would fail.

**WebhookPayloads.** One delivery of a provider from the read of its body to the
answer: `env` are the secrets the process was started with, `wire[p]` how far the
delivery is, `asks` the tenant and channel it was resolved to. `ToInboundEvent` is
the first message of the payload; a delivery that gets no 2xx is due again.

**ConversationRouting.** `conv` is the table `conversations`, `load` the
`current_load` of the agents, `tx[w]` the transaction of a request: what it read
and what it is about to write. `Begin` is `RunInTenantTx` with its `Get`, a plain
SELECT; `Upsert` waits for the row and locks it, and `Commit` shows conversation
and loads to everybody. `IncLoad` adds to the committed value under a lock, so its
steps are part of the commit. `PickAgent` is the set of the agent chosen, `Chain`
the overflow of queues. `ListAssign` and `ListResolve` are what the API's routes call
(`api/handlers.go:408,441`): `ListService` reads the conversation, and `Put` writes it
back in a statement of its own, without a transaction (`TxRunner: nil`,
`wire.go:430`) and without counting a load. `strays` is a history counter: writes over a
version that the writer had not read, and moves by `Put`. The module has the ACD
wired, although `wire.go` builds the router without; `AgentRepo` and `QueueRepo` have no
implementation and follow `core/port/acd.go`. A conversation's queue is its
external id, as in `convQueueID`.

**WhatsmeowManager.** `clients` and `order` are the fields of `Manager`, `client[a]`
every client ever made with its adapter (`connected`) and its dispatcher (`at`, the
queue), `caller[c]` a goroutine that sends, asks for a QR code, resets a tenant or
shuts all of them down. A critical section is one action; `lock` and `regLock` are held
across steps only where the code blocks with a lock held: an eviction that waits
for the victim's loops, a factory under the lock of the sender registry.

**WhatsmeowPacing.** `mem` is the `Warmup`, `row` its copy in
`whatsapp_account_state`; `AllowSend`, the send and `RecordSent` are three steps of a
sender, and `SaveRow` writes a snapshot after the lock is released. `throttle` is
the `ReconnectThrottle`.

**LoginSessions, AdminAccess.** A login is limiter, `IsLockedOut`, password or
callback, `RecordFailure` or a new session: each store locks per call, so each call
is an action. `ConfirmPassword` is the same login behind the reset of a tenant, which
passes no limiter. A session is read, checked and saved again by `Resolve`; `raced` are
the sessions a logout deleted between the two. In `AdminAccess` a request goes
through `Session`, the hydrator (`ListByUser`, one `GetByID` per role, the cache),
`RequireScope` and its handler; `who.read` counts the ticks since the bindings
were read.

**KeyRotation.** A row is `[kek, dek, enc]`: the key its data key is wrapped under,
the data key, and the one its credential is encrypted with. `rot` is the command:
it takes a snapshot, then unwraps, rewraps and writes row by row, may die between
any two steps, and may be run again. `raced` are the rows whose write came after a
`SetCredentials` it had not seen. A reader either has a transaction of its tenant
(`GetRow`) or is refused (`GetOutsideTx`).

**SettingsCache, SenderRegistry.** Values and credentials are numbered as they are
stored, `replaced` and `revoked` say when each ceased to be the current one, and
`served` and `handed` how long ago that was for what was given out last. `Get` of
the settings fills the cache after its query without the lock; `Get` of the
registry reads the clock before both locks and runs the factory under the second.

**BackupJobs.** `jobs[j]` has the kind, the status and the locals of a job; an export
has the position of its serializer, what is in the pipe and whether the pipe is
broken. `db`, `objects` and `manifests` survive a crash, `jobs` does not.

## 3. Runs

Parts that share no variable are checked in one run: an instance module `MC*`
extends them all, a variable `moves` picks the part a behaviour moves, and the
others stay as they began, so that states add up and are not multiplied.

| Run | Instance | Shows |
|---|---|---|
| `outbox_pair` | two processes, one call each, batch of 1, two attempts, one fault with `AckLoss` | an acknowledged Send has its row, no row is dead early, and the outbox implements `DurableQueue` (1.9 million states) |
| `outbox_live` | one process, a routable and an unroutable message, batch of 2, three faults | every delivery beyond the first is paid for by a fault; what is announced on `dlq` is dead; the one-slot signal loses nothing; the routable row settles |
| `outbox_unroutable` (violation) | one unroutable row, no fault | `UnroutableDies` fails: that error path never compares attempts with `MaxAttempts` |
| `outbound_content` (violation) | the instance of `operations` | `DeliveredIsAsked` fails: the payload of a row has ids only, and the relay rebuilds the request from it |
| `process_shutdown` | a runner of four phases and two goroutines; a bus with room for one event, a publisher and two handlers; a hub with two connections and eight kinds of clients | what was attempted is stopped, later phases first; nothing runs after Drain, buffered events reach every handler, Drain ends; nobody is served after the hub's Shutdown and an ended connection is forgotten |
| `lifecycle_wired` (violation) | the five kinds of phases `wireRunner` registers | `StopOnlyIsStopped` fails: phases without a Start are never marked, so their Stop is never called |
| `inbound` | the pipeline with two requests at a time or with two reconcilers, two events of which one may fail and cannot be assigned, one fault; five deliveries under three sets of secrets | nothing is marked routed that was not assigned; the path implements `DurableInbox`; what is stored, and what a retrying provider posts, is routed; a delivery ends with its first message stored |
| `inbound_ack_lost` (violation) | the same | `AckedIsStored` fails: the handler answers 200 after a failed transaction |
| `routing_tx` | two conversations, two agents with room for one each, one of whom comes and goes, two requests, two queues that overflow into one another | loads drift from the assignments by one at most for each lost update and each move of the API; resolved is terminal unless written over unread; capacity is passed by one at most; the circle overlooks nobody (3.3 million states) |
| `whatsmeow_clients` | two tenants, a table for one, two callers, two clients, two events; a ramp of two days, two senders, five ticks | no socket without an owner; a client that was evicted stays silent; the quota is passed by one at most; reconnections keep their distance (1.4 million states) |
| `admin_web` | two emails, two requests, two sessions, two failures to lock; two users, two roles, two requests | guesses are bounded; a logout holds; a live session is kept; a revocation takes effect within the TTL and two requests (2.6 million states) |
| `operations` | two credentials of a tenant, three data keys, two rotations; two clients of one setting, three values; a backup, a restore or reset, two tables, one row; two callers of a sender, three credentials; four requests of the API around the end of a token | stored credentials survive rotations, and resolving a sound row, in a transaction of its tenant, fails for the KEK only; settings and senders are stale for a bounded time; a job that is done did its work and leaves no goroutine behind; what the API accepts the adapter can do (1.0 million states) |

Bounds. `MaxFaults` bounds crashes, failed statements, timeouts and retries that
overlap; one fault is enough for each single race, and three in `outbox_live`
let a crash, a lost statement and a timeout combine. `AttemptCap` saturates the
attempts column at `MaxAttempts`, which is all a comparison can tell. Batches of
1 and 2 give full, partial and stale batches. Two processes, two reconcilers, two
requests, two callers give every pairwise interleaving; the proofs take over
where the instance ends. `MaxStrays` of 1 allows one lost update or one move by the
API, for loads drift without end from there; the proof of `DriftIsPaidFor` has any number.
`MaxClients` of 2 in a table for one makes every creation evict;
`MaxClock`, `MaxNow` and `LastTick` of 5 let a lifetime of 2 begin, end and begin
again, and `LoginSessions` and `AdminAccess`, which count down, need no bound of the
clock. `MaxDeks` of 3 allows a credential to be set before, during and after a
rotation, and `MaxRuns` of 2 a rotation that died and its second run. `born`,
`heard`, `MaxValues`, `MaxIssued`, `Rows` bound what is created. Deadlock is checked in
every outbox, inbound and routing run; the other parts come to rest at their
bounds or by design, so theirs say `CHECK_DEADLOCK FALSE`. Symmetry is only used
where no liveness is checked and the sets are only compared.

Fairness. `OutboxRelay!Fairness` and `InboundPipeline!ServerFairness` say that
the Go scheduler runs every goroutine that can move, that the ticker keeps firing
and that a process that is down is started again by whoever supervises it (the
code cannot promise that; every liveness property assumes it).
`LifecycleRunner!FairSpec` adds that a Start and a Stop return, since each gets a
context with a timeout, and that a goroutine obeys its Stop. `BusFairSpec` has
strong fairness only for the `drainCh` branch of a consumer's `select`: Go picks
among ready branches at random, so a flood of events cannot hide it for ever.
`HubFairSpec` schedules the two goroutines of a connection and lets their
deadlines pass, which `SetReadDeadline` and the writer's context see to.
`RetrySpec` adds a provider that retries until it sees a 2xx; strong fairness
because the server may be down at any single attempt. The MC modules state the
same conjuncts for the part that moves. No fairness is given to failures,
publishers, broadcasts, clients or expiring contexts.

## 4. Proofs

Every safety invariant, action property and refinement that a passing run checks
is also a theorem, for every value of the constants. The assumptions on constants
are the named `ASSUME`s of the modules, and TLC evaluates each of them in a run.
They say what the code's configuration guarantees: a TTL that is not zero, finite
sets of messages, agents and queues, a list of tables without repetition
(`BackupAssumption`), a payload whose messages are a finite list
(`PayloadAssumption`), and a warm-up ramp that starts at zero, never falls and stays
below the steady quota (`PacingAssumption`). Three theorems need more than the
specification that is checked, and say so in their statement: `AnnouncementsAreTrue`
(one relay), `DuplicatesArePaidFor` (finite sets, so that there is a sum) and
`OfflineRotationIsComplete` (nothing is set while the command works).

`OutboxRelayProofs`: any number of processes, messages, rows, faults.
- `TypeCorrect`, from `TypeInv`: types plus `CursorInv` (batches and cursors point
  at existing rows), needed because every statement dereferences them.
- `SentRowsWereDelivered`, `DeadRowsWereExhausted` and `RelaysKeepTheirWord`, from
  `MarksInv`. The marks alone are not inductive: a relay at `MarkSent` must know
  that its message was delivered (`ConfirmedInv`), one at `MarkDLQ` that failures
  were counted (`ExhaustedInv`). `RowsEvolve` (rows are appended, keep their
  message, attempts do not shrink) carries both past the steps of other relays.
- `AckedSendsAreQueued`, with `RowsEvolve` for rows that never disappear.
- `OutboxIsDurableQueue`: every statement maps to a step of `DurableQueue` on one
  message or to a stutter, using `MarksInv` for `Confirm` and `Deliver`.
- `AnnouncementsAreTrue`, for one process and statements that have no effect when
  they fail (`OneRelay`); the run `outbox_live` has the same two limits. `SingleInv` is
  the reason: a message has one row, a call that has still to insert has none, and
  only its relay changes a row.
- `AnnouncementsAreSettled` is what remains without these limits: whatever is announced
  has its failures counted and a row that no relay claims again. A relay at
  `PublishDLQ` has buried its message (`BuriedInv`), and what is buried stays so,
  because no statement writes `pending` (`DeadStays`, `SentStays`). A false announcement
  is therefore one of a message that was also marked sent, never of a forgotten one.
- `NoSignalIsLost`, from `SignalInv`: to a row without an attempt some relay still
  comes (`ComesTo`), by a signal, a claim to be made, the batch in its hands, or the
  claim after a full batch. That a claim which leaves a pending row behind is full
  needs the rank of a row among the pending ones.
- `DuplicatesArePaidFor`, for any finite number of processes, with or without
  `AckLoss`. A process may deliver a row that is pending or in its batch, so a
  message is worth its deliveries, plus the pairs of a row and a process that may
  still deliver it, plus one for each process while its call may still insert (`Worth`).
  What all messages are worth beyond one delivery by each process is at most the
  faults, at the price of one delivery by each process (`FaultsPay`): a delivery moves
  one from the second term to the first, an insert one for each process from the third
  to the second, no other step of one process gives another more to deliver
  (`OnlyRevives`), and only a fault adds. With the single process of the design that
  is one duplicate for each fault, which `outbox_live` checks.

`SumTheorems`: sums over a finite set. The fold of the library is a recursive
function on subsets; its equations (`SumsExist`, `TotalIs`) come from an induction on
sizes, done with sets of numbers (`LeastNumber`, `AllNumbers`) because the library's
induction theorems take an operator.

`ConversationRoutingProofs`: any conversations, agents, queues, requests.
- `RoutingTypeCorrect` and `ResolveIsTerminal`, from `RoutingInv`: what a
  transaction is about to write fits what it read (`TxsOK`), so a commit over the
  version that was read cannot reopen or move a resolved conversation.
- `DriftsArePaidFor`: with `RoutingInv`, the invariant is inductive. A write moves one
  conversation, so what an agent holds changes by one at most (`HeldMoves`). A commit
  over the version that was read moves it out of exactly the slot that it gives back
  and into the one it takes (`CommitCounts`); over another version, the load and what is
  held still end up one apart at most, and a stray pays for it (`OneStray`). `Put` and
  `Ingest` change what is held and no load (`DriftWrite`).
- `OvershootsAreBounded`, from `CapacityInv`: the load of an agent plus the requests
  about to take one of his slots (`Pending`) stays within his capacity plus all
  requests but one. A choice is made below the capacity, and every step after it
  moves one from the second term to the first.
- `NobodyIsOverlooked` needs types only; the work is about operators. A strategy
  chooses among the eligible agents whenever there is one (`SelectChooses`: the
  least busy exists, round robin reaches every index), and the hops of a
  conversation pass every queue that the overflow leads to when these are no more
  than `MaxOverflowHops`, circles included (`PassedIsReachable`, `ReachableIsPassed`).

`InboundProofs`: any events, requests, reconcilers and posts.
- `PipeTypeCorrect`, `RoutedWereAssigned` and `PipelineIsInbox`, from `PipeInv`. An event
  has one row (`OneRow`), so that a mark cannot hit another; the message a reconciler
  holds is one, exists, and was assigned before it is marked (`HeldWasAssigned`);
  a request past `Ingest` carries a stored event unless the transaction failed
  (`BehindIngest`), which makes a 2xx true. Each step is then one `Store`, `Route` or
  `Ack` of `DurableInbox`, or a stutter. The part of `InboundPipeline!TypeOK` about the
  bus is that of the instance of `Bus`, typed by `BusTypeCorrect`.
- `FirstsAreNotForgotten`, from `HookInv`: the first message of a payload was tried
  before the answer goes out (`FirstIsTried`).

`ProcessProofs`: the runner, the bus and the hub.
- `StopsOnce`, from `OnceInv`: at most one call of Shutdown is at work
  (`OneAtWork`), and it has not stopped anything at or below its position
  (`FreshBelow`).
- `AttemptedPhasesAreStopped` and `LaterPhasesStopFirst`, from `OrderInv`, which adds
  `SeenAbove`: unless a call cut into Boot, everything marked above the position
  of the call at work has been stopped, and Boot is out of the way.
- `BusTypeCorrect`, with channels within their capacity; `DrainedBusIsQuiet`,
  inductive with "a consumer that is gone holds no event" (`EmptyHanded`).
- `NobodyIsLeftServed`, from `HubInv`. It adds that a closed hub has no members
  (`ClosedIsEmpty`), and that a reader is known to the hub, about to be closed by
  Shutdown, or closed (`ReaderIsKnown`): the second look of `Subscribe`, under the
  lock, is what keeps it. `RunnerTypeCorrect` and `HubTypeCorrect` are the types.

`WhatsmeowProofs`: any tenants, callers, clients, senders, days.
- `NoSocketIsOrphaned`, from `ManagerInv`. The socket of a client can open in the table,
  in the hands of a call that is about to insert or to stop it, or nowhere
  (`OpenIsOwned`); for that, a client in hand is known to one call only and its loops
  were never started (`HeldIsFresh`), the list of the least recently used is the table
  without the victim (`OrderIsTable`), and the lock is held by whoever evicts (`LockIsHeld`).
- `EvictedClientsAreSilent`: from `ManagerInv`, step by step, for a client whose loop has
  ended handles nothing and is never started again (`ClientsAreFine`).
- `TableStaysBounded`: calls that found no client create theirs without the lock, and
  still no more than `MaxActiveTenants` tenants are in the table. That an eviction ends
  with as many as it began with needs `ManagerInv`: nobody takes the victim out of the
  table, or puts the tenant in, while the loops of the victim end.
- `QuotasHold`, from `PacingInv`: on the first day of a process nothing passes
  (`Quiet`), because the ramp starts at zero, and that is what makes up for counts
  lost in a crash; later, what is counted plus what is admitted and not counted stays
  below the quota plus the senders (`Bounded`), as long as no account is of a later day
  (`AnchorsAreBehind`). `ReconnectionsAreSpaced` follows from the types.

`AdminWebProofs`: any emails, requests, sessions, users, roles.
- `LogoutsHold` and `LiveSessionsAreKept`, from `SessionInv`. Whoever holds a session
  holds the `ExpiresAt` of the store (`OneExpiry`), the store keeps an entry as long as
  its session lives (`KeptLongEnough`), a request deletes only what is over
  (`DeletesTheOver`), and nobody who could save it again holds a session that a logout
  deleted, except in the race that `raced` records (`LoggedOutForGood`).
- `GuessesBounded`: the failures of a window plus the requests between `IsLockedOut` and
  `RecordFailure` (`Trying`) do not exceed the limit plus the other requests. With
  `SessionInv` that is inductive: to pass `IsLockedOut` takes fewer failures than lock,
  and to record one moves one from the second term to the first.
- `RevocationsTakeEffect`, from `AccessInv`: what is in the cache was read less than one
  request before it was cached (`CacheIsFresh`), and a request read the bindings
  itself or found them cached when it began (`Fresh`).

`OperationsProofs`: keys, backup, requests of the API, settings, senders.
- `CredentialsAlwaysSurvive` and `OnlyTheKekFails`, from `KeyInv`: a credential is
  encrypted with the data key of its row, in the table, in a transaction that waits
  for its COMMIT (`PendingIsSound`) and in the hands of a reader that met no race
  (`ReadIsSound`). The second is about a reader in a transaction of its tenant: whoever
  has none never has a row.
- `OfflineRotationIsComplete`: the plan calls `rotate-kek` an offline operation
  (`docs/fase7/PLAN.md:56`), and `OfflineSpec` takes it at its word as far as it must: no
  `CommitSet` while the command is at work; deletes, reads and restarts of the server
  go on. Then a run, other than a dry one, that reports no error leaves every row under
  the new key. What has left the list is rewrapped or reported (`RewrappedSoFar`).
  Without that restriction it is false: a credential set behind the rotation stays
  under the old key, unreported.
- `ExportsAreSnapshots`, `SerializersAreReleased` and `ResetsForget`, from `BackupInv`. An
  export: the tables before the position of the serializer are in the file as the
  snapshot has them (`FileFollows`), a job that goes on found the pipe closed without
  an error (`Checked`), a serializer that has no reader left knows it
  (`SerializerEnds`). A reset: of the rows it found in the tables it has passed, those
  that are not back by a restore are gone or about to be (`ResetProgress`); that no
  traffic brings a row back needs all rows to be known (`AllWasBorn`).
- `AcceptedActionsAreSupported`: the tables of the five adapters agree with the
  capabilities (`TablesAgree`), and an accepted action has its capability.
- `StalenessIsBounded` and `OldTokensAreBounded`, from `SettingsInv` and `RegistryInv`. Both
  rest on the same argument: what a call has in hand was current when the call
  began (`ReadWasCurrent`, `ResolvedWasGood`), hence what is cached was current when its
  lifetime began, or one call before (`CachedWasCurrent`, `CachedWasGood`). A write can
  only replace a value now, which is later than all those instants.

Checked by TLC only: the liveness properties, since fairness is beyond the prover:
`RoutableSettles`, `StoredIsRouted`, `PostedIsRouted`, `GoroutinesDrain`,
`BufferedIsHandled`, `DrainEnds`, `EndedIsForgotten`; and the four counterexamples of the
runs that expect a violation.

## 5. Observations without a run of their own

Outbox and API.
- The locks of `SELECT ... FOR UPDATE SKIP LOCKED` in `ClaimNext`
  (`postgres/outbox.go:140`) and `SelectUnroutedMessages`
  (`postgres/inbound_events.go:38`) end with the autocommitted statement, so two
  relays or two reconcilers do hold the same rows. `outbox_pair` and `inbound`
  contain that interleaving and show what survives it; each of two relays may deliver
  the message once without a fault, and `DuplicatesArePaidFor` says that this is all.
- `Send` writes the message and its row in two statements without a transaction
  (`send.go:101`; the comments at 6 and 100 and README:232 say one): a crash between
  them leaves a message that is never sent. With `AckLoss` a message may have two
  rows, one exhausted and one sent; the DLQ event then goes out for a message
  that was sent. `AnnouncedIsDead` is checked without `AckLoss`, and
  `AnnouncementsAreSettled` says what holds with it.
- Beyond `outbound_content`: `Send` checks no capability and accepts types an adapter
  cannot build; reactions on Messenger and `mark_read` on Instagram do nothing and
  report success; `parseChatID` refuses the negative ids of Telegram groups;
  `SendAction` logs a failed enqueue and answers "queued"; no route leads to
  `mark_read`, `typing` and `presence`.
- `port.ResolveMessage` and the state machine of a message in the domain have no
  user; `StatusConsumer` has no publisher.

Inbound path.
- A redelivered event is deduplicated as a message and still inserts another outbox
  row (`ingest.go:153`, against the comment at 89-90); it also resets its
  conversation (`ingest.go:130`).
- The id of a `changes` entry is made of sender, time and text and collides for equal
  texts; postbacks and edits are ignored; an app configured for two tenants always
  goes to the first; `hub.challenge` is not answered.
- `ReconcileAll` selects again after a full batch even if all of it failed: as many
  unassignable messages as `BatchSize` starve the others. `drain` of the relay is
  alike (`relay.go:147`). `outbox_live` and `inbound` have one such message and a
  batch of 2.

Routing and tables.
- `router.go:8-10` speaks of `FOR UPDATE`, but `ConversationRepo.Get`
  (`postgres/repository.go:197`) takes no lock: of two requests that read the same
  conversation the second to commit undoes the first, or reopens what it resolved,
  and both count their slots. `ListService` has the same race without a transaction, and
  an agent that it assigns or a conversation that it resolves counts for nothing. These
  are the steps that `strays` counts: `DriftIsPaidFor` says what each of them costs, and
  `ResolvedIsTerminal` that nothing else reopens.
- Under row-level security (`migrations/0001:213-216`) a statement outside
  `RunInTenantTx` finds no `mez.tenant_id`, so with the role `mez_app` these two routes of
  the API fail; the model lets them succeed, as they do for a role that the policy does
  not bind. The service of the inbox has no caller in the server, and the router
  is called by the reconciler only, where it does nothing without the ACD.
- `adjustLoad` locks the old agent before the new one: opposite moves of two
  conversations wait for each other until PostgreSQL aborts one, which is a
  `Rollback`. `setConvQueueID` keeps nothing, so the default queue is never used.
- The `ON CONFLICT` targets of `postgres/repository.go` (lines 152, 218, 255) match no
  unique index of `migrations/0001`; the models take the statements as the Go code
  writes them, with the deduplication they intend. `RunAsPlatform` does not hand its
  transaction to the function it calls; `HistoryRepo.InsertMany` opens one without
  `mez.tenant_id`.

Runner, bus, hub.
- Shutdown called from outside in the middle of Boot (never by this server) can
  pass a phase that Boot starts right after; hence `~overlap` in two properties. A
  publisher that looked at `drainCh` before Drain may send after the consumers have
  left; the event stays in the buffer, uncounted.
- The hub has no caller in the server. A broadcast that meets a channel closed after
  its copy panics and the rest of the copy gets nothing (`hub.go:97-114`); the
  writer's context ends every connection after five minutes.

Whatsmeow.
- The factory of `boot.go:137-139` passes a stub client for sends too, so the one that
  `SetClientFactory` installs is never used; `RealSends` takes the case it was meant for.
- No caller starts a Dispatcher in production, so every send of `wa_web` ends in
  `ErrNotConnected`; warm-up, throttle and breaker have no caller either. A snapshot
  of the warm-up may overwrite a newer row; `DisconnectAll` keeps clients that are
  dead.
- The factory of the sender registry, a query, runs under the write lock: a slow one
  delays `Get` for every tenant and channel.

Login and admin.
- The password that confirms a reset goes through `LoginLocal` (`wire.go:402,426`), past
  the limiter of logins but not past the lockout, and leaves a session that nobody
  asked for; a login whose `UpdateLastLogin` fails has already cleared the failures.
- `/setup` opens again when no administrator is active (`handlers_setup.go:19-29`
  against 175-182); the setup command creates an administrator without a role;
  nothing ends the sessions of a user who is deactivated.
- No hydrator is wired (`wire.go:392`), so `RequireScope` denies everybody;
  `Evaluate` takes the permission of one binding and the scope of another.

Keys, settings, backup.
- `Get` of the credentials refuses a caller without a transaction of the tenant
  (`credentials_repo.go:50-57`), and neither the factories of `boot.go` nor the relay opens
  one: as the server is wired every resolve is refused, whatever the KEK.
- The UPDATE of a rotated row commits on its own while the transaction around it, with
  the audit line, may still fail (`credentials_repo.go:192-200`): a row may be
  rewrapped and reported as an error.
- A panic of `runExport` (`export.go:141-145`) would mark the job failed and leave the
  reading end of the pipe open, with the serializer blocked; `NoStuckSerializer` is about
  exports that do not panic.
- A rerun of `rotate-kek` reports every row it rotated before as an error and exits
  with 1, against README:473-474; it does not rotate `system_settings`, which are
  sealed under the same key. The cached data key is never used to decrypt. Without
  `SetCredentials` in production and with `InvalidateFn` nil in the command, a running
  server keeps the old KEK until it is restarted.
- `setWithDescription` reads the cache without the lock, which Go may answer with a
  fatal error (`Reboot` has it); the watcher is cancelled when the wiring returns
  (`wire.go:218-230`).
- A failed upload is forgotten and the job is done, with a manifest without a file
  (`export.go:286-306`; `lost` records it); a reset deletes the tenant's backups, so
  that "export, reset, restore" (README:859) has nothing to restore; backups that
  hold rows of `channel_credentials` or `whatsapp_session_keys` are refused; a commit
  whose answer is lost leaves a job failed that did its work.

## 6. Not modelled

- Status consumer: nothing publishes its events. Circuit breaker, media transfer,
  profiles, menus and the handover of threads: no caller. History and pairing of
  whatsmeow: the library's work.
- Row-level security and tenants in SQL: each model is one tenant or names it.
- Listings and other routes that only read.
- In the admin web, creating roles and tenants and binding roles later: statements
  without a guard. Templates, OpenAPI types: generated.
- Configuration, probes, logging, metrics, media conversion, the network client and
  S3: pure functions and I/O, outcomes of a step where a model needs them. Argon2,
  AES and the OIDC library are taken at their word.

## 7. Plan

Done: every part of section 1, and a theorem for every safety property, action
property and refinement that a passing run checks.

What would add most from here:
1. A lower bound next to `NoSignalIsLost` that survives faults: what a poll owes the rows
   that a lost signal left behind, as an invariant of the relay between two ticks.
2. A composition of inbound path and outbox over one table of messages, once the
   payload of a row carries what the relay needs.
3. The breaker, the status consumer and the hub's wiring, when the server uses them.
