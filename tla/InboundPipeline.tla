--------------------------- MODULE InboundPipeline ---------------------------
(***************************************************************************)
(* The inbound path: a provider posts an event until it gets a 2xx, the    *)
(* webhook handlers (adapter/webhook) have it ingested in one transaction  *)
(* (usecase/messaging/ingest.go) and published on the bus (Bus.tla), and   *)
(* the reconciler (usecase/reconcile) routes whatever is stored.           *)
(***************************************************************************)
EXTENDS Integers, Sequences, FiniteSets

CONSTANTS
  Events,        \* messages of the providers, by provider_msg_id
  Requests,      \* requests the server handles at the same time
  Workers,       \* processes with a reconciler
  Main,          \* the one that serves the requests
  Unassignable,  \* events for which AssignFn always fails
  BatchSize,     \* Config.BatchSize of the reconciler
  Buffer,        \* capacity of the inbound topic
  Failing,       \* events whose transaction of Ingest may fail
  MaxFaults      \* bound: crashes, failures and retries that overlap

ASSUME InboundAssumption ==
  /\ Main \in Workers
  /\ Unassignable \subseteq Events /\ Failing \subseteq Events
  /\ BatchSize \in Nat \ {0} /\ Buffer \in Nat \ {0} /\ MaxFaults \in Nat

Topic == "inbound"
Consumer == "routing"

VARIABLES
  rows,      \* the inbound messages stored, in created_at order
  queued,    \* rows of outbound_events written for each event
  prov,      \* what the provider knows of each event
  at,        \* where the handling of each request is
  evt,       \* the event it carries, in a set
  chan, pub, subs, cons, cur, todo, done, drained, drain,  \* the bus
  pc,        \* where each reconciler is
  batch,     \* messages it has selected and not assigned yet
  full,      \* did that selection return BatchSize messages?
  held,      \* the message it has assigned and not marked, in a set
  assigned,  \* events for which AssignFn has succeeded
  faults     \* faults so far

store   == <<rows, queued>>
request == <<at, evt>>
bus     == <<chan, pub, subs, cons, cur, todo, done, drained, drain>>
worker  == <<pc, batch, full, held>>
vars    == <<rows, queued, prov, at, evt, chan, pub, subs, cons, cur, todo, done,
             drained, drain, pc, batch, full, held, assigned, faults>>

\* The bus before its shutdown, with the consumer of wireServices subscribed.
B == INSTANCE Bus WITH
       Topics <- {Topic}, TopicOf <- [e \in Events |-> Topic],
       Capacity <- [t \in {Topic} |-> Buffer], Publishers <- Requests,
       Handlers <- {Consumer}, Drainers <- {}

TypeOK ==
  /\ rows \in Seq([evt : Events, status : {"received", "routed"}])
  /\ queued \in [Events -> Nat]
  /\ prov \in [Events -> {"new", "waiting", "acked"}]
  /\ at \in [Requests -> {"idle", "ingest", "publish", "offer", "answer"}]
  /\ evt \in [Requests -> SUBSET Events]
  /\ pc \in [Workers -> {"down", "wait", "select", "next", "mark"}]
  /\ batch \in [Workers -> SUBSET Nat]
  /\ full \in [Workers -> BOOLEAN]
  /\ held \in [Workers -> SUBSET Nat]
  /\ assigned \in SUBSET Events
  /\ faults \in 0 .. MaxFaults
  /\ B!BusTypeOK

Init ==
  /\ rows = <<>>
  /\ queued = [e \in Events |-> 0]
  /\ prov = [e \in Events |-> "new"]
  /\ at = [r \in Requests |-> "idle"] /\ evt = [r \in Requests |-> {}]
  /\ chan = [t \in {Topic} |-> <<>>] /\ pub = [r \in Requests |-> {}]
  /\ cons = [t \in {Topic} |-> "select"] /\ cur = [t \in {Topic} |-> {}]
  /\ todo = [t \in {Topic} |-> <<>>] /\ done = [e \in Events |-> {}]
  /\ subs = [t \in {Topic} |-> <<Consumer>>] /\ drained = FALSE /\ drain = <<>>
  /\ pc = [w \in Workers |-> "down"] /\ batch = [w \in Workers |-> {}]
  /\ full = [w \in Workers |-> FALSE] /\ held = [w \in Workers |-> {}]
  /\ assigned = {} /\ faults = 0

Fault == faults < MaxFaults /\ faults' = faults + 1

Stored(e) == \E k \in DOMAIN rows : rows[k].evt = e
Serving == pc[Main] # "down"

-----------------------------------------------------------------------------
(* A provider and the request r that carries one of its events. *)

Goto(r, l) == at' = [at EXCEPT ![r] = l]

\* The provider posts e, again if it got no 2xx; a retry that overtakes a
\* request still at work, or comes after the 2xx, is a fault.
Post(e, r) ==
  /\ Serving /\ at[r] = "idle"
  /\ IF prov[e] = "acked" \/ \E q \in Requests : e \in evt[q]
     THEN Fault ELSE UNCHANGED faults
  /\ prov' = [prov EXCEPT ![e] = IF @ = "new" THEN "waiting" ELSE @]
  /\ Goto(r, "ingest")
  /\ evt' = [evt EXCEPT ![r] = {e}]
  /\ UNCHANGED <<store, bus, worker, assigned>>

\* The handler answers with an error before Ingest (no secret, no channel), or
\* the client is gone and the transaction with it.
Refuse(r) ==
  /\ at[r] = "ingest" /\ Fault
  /\ Goto(r, "idle") /\ evt' = [evt EXCEPT ![r] = {}]
  /\ UNCHANGED <<store, prov, bus, worker, assigned>>

\* Mutant: the upsert of the message resets its status.
StoreMessageAgain(e) ==
  rows' = IF Stored(e)
          THEN [k \in DOMAIN rows |->
                  IF rows[k].evt = e THEN [rows[k] EXCEPT !.status = "received"] ELSE rows[k]]
          ELSE Append(rows, [evt |-> e, status |-> "received"])

\* messageRepo.Insert: ON CONFLICT (tenant_id, provider_msg_id) DO NOTHING.
StoreMessage(e) ==
  rows' = IF Stored(e) THEN rows ELSE Append(rows, [evt |-> e, status |-> "received"])

\* The transaction of Ingest: contact, conversation and message are upserted,
\* the outbox row is inserted under a fresh message id, each time.
Tx(e) == StoreMessage(e) /\ queued' = [queued EXCEPT ![e] = @ + 1]

\* Mutant: the handler answers first and ingests in the background.
IngestInBackground(r) ==
  /\ at[r] = "ingest"
  /\ \E e \in evt[r] :
       \/ Tx(e) /\ Goto(r, "publish") /\ UNCHANGED <<prov, faults>>
       \/ /\ prov' = [prov EXCEPT ![e] = "acked"]
          /\ UNCHANGED <<store, at, faults>>
  /\ UNCHANGED <<evt, bus, worker, assigned>>

\* Ingest commits, or fails (after a commit whose answer was lost, perhaps) and
\* the handler answers 200 all the same.
Ingest(r) ==
  /\ at[r] = "ingest"
  /\ \E e \in evt[r] :
       \/ Tx(e) /\ Goto(r, "publish") /\ UNCHANGED faults
       \/ /\ e \in Failing /\ Fault
          /\ Tx(e) \/ UNCHANGED store
          /\ Goto(r, "answer")
  /\ UNCHANGED <<evt, prov, bus, worker, assigned>>

\* Ingest: bus.PublishInbound, in its two steps.
BeginPublish(r) ==
  /\ at[r] = "publish"
  /\ \E e \in evt[r] : B!FindOpen(r, e)
  /\ Goto(r, "offer")
  /\ UNCHANGED <<store, prov, evt, worker, assigned, faults>>

EndPublish(r) ==
  /\ at[r] = "offer"
  /\ B!Offer(r)
  /\ Goto(r, "answer")
  /\ UNCHANGED <<store, prov, evt, worker, assigned, faults>>

\* 200, unless the answer is lost.
Answer(r) ==
  /\ at[r] = "answer"
  /\ \/ /\ prov' = [e \in Events |-> IF e \in evt[r] THEN "acked" ELSE prov[e]]
        /\ UNCHANGED faults
     \/ Fault /\ UNCHANGED prov
  /\ Goto(r, "idle") /\ evt' = [evt EXCEPT ![r] = {}]
  /\ UNCHANGED <<store, bus, worker, assigned>>

Handle(r) == Ingest(r) \/ BeginPublish(r) \/ EndPublish(r) \/ Answer(r)

\* The consumer of the topic, whose handler of this phase only logs.
Consume ==
  /\ B!ConsumerStep(Topic)
  /\ UNCHANGED <<store, prov, request, worker, assigned, faults>>

-----------------------------------------------------------------------------
(* The reconciler of w. *)

Jump(w, l) == pc' = [pc EXCEPT ![w] = l]

Received(k) == rows[k].status = "received"

\* SELECT ... WHERE status = 'received' ORDER BY created_at LIMIT BatchSize.
Unrouted ==
  LET recv == {k \in DOMAIN rows : Received(k)}
  IN  {k \in recv : Cardinality({j \in recv : j < k}) < BatchSize}

\* Run: the first sweep.
Boot(w) ==
  /\ pc[w] = "down" /\ Jump(w, "select")
  /\ UNCHANGED <<store, prov, request, bus, batch, full, held, assigned, faults>>

\* Mutant: the sweep waits for a notification of the bus, not for a ticker.
TickOnNotification(w) ==
  /\ pc[w] = "wait" /\ chan[Topic] # <<>> /\ Jump(w, "select")
  /\ UNCHANGED <<store, prov, request, bus, batch, full, held, assigned, faults>>

\* Run: case <-ticker.C.
Tick(w) ==
  /\ pc[w] = "wait" /\ Jump(w, "select")
  /\ UNCHANGED <<store, prov, request, bus, batch, full, held, assigned, faults>>

\* ReconcileAll: SelectUnroutedMessages.
Select(w) ==
  /\ pc[w] = "select"
  /\ batch' = [batch EXCEPT ![w] = Unrouted]
  /\ full' = [full EXCEPT ![w] = Cardinality(Unrouted) = BatchSize]
  /\ Jump(w, IF Unrouted = {} THEN "wait" ELSE "next")
  /\ UNCHANGED <<store, prov, request, bus, held, assigned, faults>>

\* ReconcileAll: the query fails; Run logs it and waits.
SelectFails(w) ==
  /\ pc[w] = "select" /\ Fault /\ Jump(w, "wait")
  /\ UNCHANGED <<store, prov, request, bus, batch, full, held, assigned>>

\* ReconcileAll: the next message of the batch.
Take(w, k) ==
  /\ pc[w] = "next" /\ k \in batch[w] /\ \A j \in batch[w] : k <= j
  /\ batch' = [batch EXCEPT ![w] = @ \ {k}]
  /\ UNCHANGED <<store, prov, request, bus, full>>

\* AssignFn succeeds (in production it does nothing: no ACD is wired).
Assign(w) ==
  \E k \in batch[w] :
    /\ Take(w, k) /\ rows[k].evt \notin Unassignable
    /\ assigned' = assigned \cup {rows[k].evt}
    /\ held' = [held EXCEPT ![w] = {k}] /\ Jump(w, "mark")
    /\ UNCHANGED faults

\* Mutant: no continue after the error, the message is marked.
AssignFailsThrough(w) ==
  \E k \in batch[w] :
    /\ Take(w, k)
    /\ rows[k].evt \in Unassignable \/ Fault
    /\ rows[k].evt \in Unassignable => UNCHANGED faults
    /\ held' = [held EXCEPT ![w] = {k}] /\ Jump(w, "mark")
    /\ UNCHANGED assigned

\* AssignFn fails, for ever or for once: the message is left for later.
AssignFails(w) ==
  \E k \in batch[w] :
    /\ Take(w, k)
    /\ IF rows[k].evt \in Unassignable THEN UNCHANGED faults ELSE Fault
    /\ UNCHANGED <<assigned, held, pc>>

\* ReconcileAll: UPDATE ... SET status = 'routed' WHERE id AND 'received'; an
\* error leaves the message for later.
MarkRouted(w) ==
  /\ pc[w] = "mark"
  /\ \/ /\ rows' = [k \in DOMAIN rows |->
                      IF k \in held[w] /\ Received(k)
                      THEN [rows[k] EXCEPT !.status = "routed"] ELSE rows[k]]
        /\ UNCHANGED faults
     \/ Fault /\ UNCHANGED rows
  /\ held' = [held EXCEPT ![w] = {}] /\ Jump(w, "next")
  /\ UNCHANGED <<queued, prov, request, bus, batch, full, assigned>>

\* ReconcileAll: a full batch is followed by another selection.
FinishBatch(w) ==
  /\ pc[w] = "next" /\ batch[w] = {}
  /\ Jump(w, IF full[w] THEN "select" ELSE "wait")
  /\ full' = [full EXCEPT ![w] = FALSE]
  /\ UNCHANGED <<store, prov, request, bus, batch, held, assigned, faults>>

Reconcile(w) == \/ Select(w) \/ SelectFails(w) \/ Assign(w) \/ AssignFails(w)
                \/ MarkRouted(w) \/ FinishBatch(w)

\* Memory of the process of w is gone; with Main, the requests and the bus.
Forget(w) ==
  /\ Jump(w, "down")
  /\ batch' = [batch EXCEPT ![w] = {}] /\ full' = [full EXCEPT ![w] = FALSE]
  /\ held' = [held EXCEPT ![w] = {}]
  /\ IF w = Main
     THEN /\ at' = [r \in Requests |-> "idle"] /\ evt' = [r \in Requests |-> {}]
          /\ chan' = [t \in {Topic} |-> <<>>] /\ pub' = [r \in Requests |-> {}]
          /\ cons' = [t \in {Topic} |-> "select"] /\ cur' = [t \in {Topic} |-> {}]
          /\ todo' = [t \in {Topic} |-> <<>>] /\ UNCHANGED <<subs, done, drained, drain>>
     ELSE UNCHANGED <<request, bus>>
  /\ UNCHANGED <<store, prov, assigned>>

\* The process leaves after its shutdown, which lets the requests finish.
Stop(w) ==
  /\ pc[w] = "wait" /\ (w = Main => \A r \in Requests : at[r] = "idle")
  /\ Forget(w) /\ UNCHANGED faults

Crash(w) == pc[w] # "down" /\ Fault /\ Forget(w)

Next ==
  \/ \E r \in Requests : Handle(r) \/ Refuse(r) \/ \E e \in Events : Post(e, r)
  \/ Consume
  \/ \E w \in Workers : Boot(w) \/ Tick(w) \/ Reconcile(w) \/ Stop(w) \/ Crash(w)

Spec == Init /\ [][Next]_vars

\* The process is restarted when it is down, its goroutines are scheduled, the
\* ticker keeps firing.
ServerFairness ==
  /\ \A r \in Requests : WF_vars(Handle(r))
  /\ WF_vars(Consume)
  /\ \A w \in Workers : WF_vars(Boot(w)) /\ WF_vars(Tick(w)) /\ WF_vars(Reconcile(w))

FairSpec == Spec /\ ServerFairness

\* The provider posts an event again until it gets a 2xx; the server is up long
\* enough for a retry to find it.
Retry(e) == \E r \in Requests : prov[e] = "waiting" /\ Post(e, r)

RetrySpec == FairSpec /\ \A e \in Events : SF_vars(Retry(e))

-----------------------------------------------------------------------------
(* Properties. *)

\* Every event answered with 2xx is in the table of messages (README section
\* 6: persist-before-2xx; ADR 0002).
AckedIsStored == \A e \in Events : prov[e] = "acked" => Stored(e)

\* A message is routed only if AssignFn succeeded for it, whichever reconciler
\* marks it, and however stale its batch is (reconciler.go ReconcileAll).
RoutedWasAssigned ==
  \A k \in DOMAIN rows : rows[k].status = "routed" => rows[k].evt \in assigned

\* A stored message that can be assigned is routed in the end, across crashes,
\* dropped or lost notifications and errors (README section 6: no persisted
\* message is left an orphan).
StoredIsRouted ==
  \A e \in Events \ Unassignable :
    (\E k \in DOMAIN rows : rows[k].evt = e /\ Received(k))
      ~> (\E k \in DOMAIN rows : rows[k].evt = e /\ ~Received(k))

\* With a provider that retries, what it posts is routed in the end, if its
\* transaction does not fail and it can be assigned (README section 6).
PostedIsRouted ==
  \A e \in Events \ (Failing \cup Unassignable) :
    (prov[e] # "new") ~> (\E k \in DOMAIN rows : rows[k].evt = e /\ ~Received(k))

-----------------------------------------------------------------------------
(* The inbound path is a durable inbox of the events whose transaction does   *)
(* not fail.                                                                 *)

StateOf(e) ==
  IF \E k \in DOMAIN rows : rows[k].evt = e /\ Received(k) THEN "received"
  ELSE IF Stored(e) THEN "routed" ELSE "absent"

Inbox == INSTANCE DurableInbox WITH
           Events <- Events \ Failing,
           state <- [e \in Events \ Failing |-> StateOf(e)],
           acked <- {e \in Events \ Failing : prov[e] = "acked"}

\* An event is stored before it is acknowledged, stays stored and is routed
\* once, under retries, redeliveries, crashes and failures of other events
\* (README section 6, ADR 0002).
ImplementsInbox == Inbox!ISpec
=============================================================================
