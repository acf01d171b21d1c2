----------------------------- MODULE OutboxRelay -----------------------------
(***************************************************************************)
(* The outbound path: the API calls and the ingest that fill the table     *)
(* outbound_events (usecase/messaging, postgres/outbox.go) and the relay   *)
(* goroutine that drains it (usecase/outbox/relay.go).  Every SQL          *)
(* statement, provider call and channel operation is a step of its own; a  *)
(* process may die between any two of them.                                *)
(***************************************************************************)
EXTENDS Integers, Sequences, FiniteSets, FiniteSetsExt

CONSTANTS
  Messages,     \* message ids, each produced by one call
  Procs,        \* server processes; each runs one relay (production: one)
  Host,         \* the process that serves the call of a message
  Entry,        \* which operation enqueues a message
  Unroutable,   \* messages whose channel has no sender in the registry
  BatchSize,    \* Config.BatchSize
  MaxAttempts,  \* Config.MaxAttempts
  AttemptCap,   \* bound: the attempts column saturates here
  MaxFaults,    \* bound: crashes, failed statements and timeouts
  AckLoss       \* may a statement that reports an error have taken effect?

EntryKind == {"send", "action", "ingest"}

ASSUME ConstantsAssumption ==
  /\ Host \in [Messages -> Procs]
  /\ Entry \in [Messages -> EntryKind]
  /\ Unroutable \subseteq Messages
  /\ BatchSize \in Nat \ {0}
  /\ MaxAttempts \in Nat \ {0}
  /\ AttemptCap \in Nat /\ AttemptCap >= MaxAttempts
  /\ MaxFaults \in Nat
  /\ AckLoss \in BOOLEAN

VARIABLES
  rows,       \* outbound_events, in created_at order
  stored,     \* ids present in the table messages
  call,       \* progress of the call that produces each message
  delivered,  \* how often the provider accepted each message
  dlqEvents,  \* messages announced on the bus topic dlq
  pc,         \* where each relay is
  batch,      \* rows claimed by the running drain and not processed yet
  full,       \* did that claim return BatchSize rows?
  cur,        \* row being processed, 0 when there is none
  signal,     \* notifyCh holds a signal
  faults      \* faults so far

tables    == <<rows, stored, delivered, dlqEvents>>
relayVars == <<pc, batch, full, cur, signal>>
vars      == <<rows, stored, call, delivered, dlqEvents, pc, batch, full, cur,
               signal, faults>>

Status    == {"pending", "sent", "dlq"}
InFlight  == {"persisted", "fallback", "notify"}
CallState == {"none", "acked", "error", "lost"} \cup InFlight
Busy      == {"sent", "unroutable", "failed", "attempts", "dlq", "publish"}
PC        == {"down", "wait", "drain", "next"} \cup Busy
Row       == [msg : Messages, status : Status, attempts : 0 .. AttemptCap]

TypeOK ==
  /\ rows \in Seq(Row)
  /\ stored \in SUBSET Messages
  /\ call \in [Messages -> CallState]
  /\ delivered \in [Messages -> Nat]
  /\ dlqEvents \in SUBSET Messages
  /\ pc \in [Procs -> PC]
  /\ batch \in [Procs -> SUBSET Nat]
  /\ full \in [Procs -> BOOLEAN]
  /\ cur \in [Procs -> Nat]
  /\ signal \in [Procs -> BOOLEAN]
  /\ faults \in 0 .. MaxFaults

Init ==
  /\ rows = <<>> /\ stored = {} /\ dlqEvents = {}
  /\ call = [m \in Messages |-> "none"]
  /\ delivered = [m \in Messages |-> 0]
  /\ pc = [p \in Procs |-> "down"]
  /\ batch = [p \in Procs |-> {}]
  /\ full = [p \in Procs |-> FALSE]
  /\ cur = [p \in Procs |-> 0]
  /\ signal = [p \in Procs |-> FALSE]
  /\ faults = 0

\* One more fault of the environment, within the bound.
Fault == faults < MaxFaults /\ faults' = faults + 1

-----------------------------------------------------------------------------
(* The table outbound_events. *)

Pending(k) == rows[k].status = "pending"

NewRow(m) == [msg |-> m, status |-> "pending", attempts |-> 0]

\* INSERT INTO outbound_events: a fresh row, never a conflict.
InsertRow(m) == rows' = Append(rows, NewRow(m))

\* Mutant: the UPDATE without its condition on the status.
SetAnyStatus(m, from, s) ==
  rows' = [k \in DOMAIN rows |->
             IF rows[k].msg = m THEN [rows[k] EXCEPT !.status = s] ELSE rows[k]]

\* UPDATE ... SET status = s WHERE message_id = m AND status IN from.
SetStatus(m, from, s) ==
  rows' = [k \in DOMAIN rows |->
             IF rows[k].msg = m /\ rows[k].status \in from
             THEN [rows[k] EXCEPT !.status = s] ELSE rows[k]]

Incremented(n) == IF n < AttemptCap THEN n + 1 ELSE n

\* UPDATE ... SET attempts = attempts + 1 WHERE message_id = m AND pending.
BumpAttempts(m) ==
  rows' = [k \in DOMAIN rows |->
             IF rows[k].msg = m /\ Pending(k)
             THEN [rows[k] EXCEPT !.attempts = Incremented(@)] ELSE rows[k]]

\* A statement that returned an error: not applied, or applied and the
\* answer lost.
StatementFails(Effect) ==
  /\ Fault
  /\ (AckLoss /\ Effect) \/ UNCHANGED rows

\* Mutant: the SELECT without its condition on the status.
ClaimableAll ==
  {k \in DOMAIN rows : Cardinality({j \in DOMAIN rows : j < k}) < BatchSize}

\* SELECT ... WHERE status = 'pending' ORDER BY created_at LIMIT BatchSize.
\* The locks of FOR UPDATE SKIP LOCKED end with the statement.
Claimable ==
  LET pend == {k \in DOMAIN rows : Pending(k)}
  IN  {k \in pend : Cardinality({j \in pend : j < k}) < BatchSize}

-----------------------------------------------------------------------------
(* The calls that enqueue. *)

Serving(m) == pc[Host[m]] # "down"

GoTo(m, s) == call' = [call EXCEPT ![m] = s]

\* SenderService.Send: messageRepo.Insert.  ON CONFLICT DO NOTHING may store
\* nothing (every outbound message has the provider_msg_id ''), and an error is
\* tolerated.
PersistMessage(m) ==
  /\ Entry[m] = "send" /\ call[m] = "none" /\ Serving(m)
  /\ stored' \in {stored, stored \cup {m}}
  /\ GoTo(m, "persisted")
  /\ UNCHANGED <<rows, delivered, dlqEvents, relayVars, faults>>

\* Mutant: Send logs the error as SendAction does, without a fallback.
EnqueueLogged(m) ==
  /\ \/ Entry[m] = "send" /\ call[m] = "persisted"
     \/ Entry[m] = "action" /\ call[m] = "none"
  /\ Serving(m)
  /\ (InsertRow(m) /\ UNCHANGED faults) \/ StatementFails(InsertRow(m))
  /\ GoTo(m, "notify")
  /\ UNCHANGED <<stored, delivered, dlqEvents, relayVars>>

\* Send and SendAction: outbox.Enqueue.  Send falls back to outbox.Insert on
\* an error; SendAction logs it and goes on.
Enqueue(m) ==
  /\ \/ Entry[m] = "send" /\ call[m] = "persisted"
     \/ Entry[m] = "action" /\ call[m] = "none"
  /\ Serving(m)
  /\ \/ InsertRow(m) /\ GoTo(m, "notify") /\ UNCHANGED faults
     \/ /\ StatementFails(InsertRow(m))
        /\ GoTo(m, IF Entry[m] = "send" THEN "fallback" ELSE "notify")
  /\ UNCHANGED <<stored, delivered, dlqEvents, relayVars>>

\* Send: the fallback outbox.Insert; its error is returned to the caller.
InsertFallback(m) ==
  /\ call[m] = "fallback" /\ Serving(m)
  /\ \/ InsertRow(m) /\ GoTo(m, "notify") /\ UNCHANGED faults
     \/ StatementFails(InsertRow(m)) /\ GoTo(m, "error")
  /\ UNCHANGED <<stored, delivered, dlqEvents, relayVars>>

\* Mutant: notifyCh without a buffer, so a busy relay misses the signal.
NotifyUnbuffered(m) ==
  /\ call[m] = "notify" /\ Serving(m)
  /\ signal' = [signal EXCEPT ![Host[m]] = pc[Host[m]] = "wait"]
  /\ GoTo(m, "acked")
  /\ UNCHANGED <<tables, pc, batch, full, cur, faults>>

\* Relay.Notify: non-blocking send on a channel of capacity 1; then the call
\* answers.
Notify(m) ==
  /\ call[m] = "notify" /\ Serving(m)
  /\ signal' = [signal EXCEPT ![Host[m]] = TRUE]
  /\ GoTo(m, "acked")
  /\ UNCHANGED <<tables, pc, batch, full, cur, faults>>

\* Ingestor.Ingest: message and outbox row in one transaction, no signal.
Ingest(m) ==
  /\ Entry[m] = "ingest" /\ call[m] = "none" /\ Serving(m)
  /\ \/ /\ stored' = stored \cup {m} /\ InsertRow(m) /\ GoTo(m, "acked")
        /\ UNCHANGED faults
     \/ Fault /\ GoTo(m, "error") /\ UNCHANGED <<stored, rows>>
  /\ UNCHANGED <<delivered, dlqEvents, relayVars>>

CallStep(m) == \/ PersistMessage(m) \/ Enqueue(m) \/ InsertFallback(m)
               \/ Notify(m) \/ Ingest(m)

-----------------------------------------------------------------------------
(* The relay of process p. *)

Jump(p, l) == pc' = [pc EXCEPT ![p] = l]

\* The message being processed is done: on to the next one of the batch.
Continue(p) == Jump(p, "next") /\ cur' = [cur EXCEPT ![p] = 0]

\* Run: the first drain of a process that starts.
Boot(p) ==
  /\ pc[p] = "down" /\ Jump(p, "drain")
  /\ UNCHANGED <<tables, call, batch, full, cur, signal, faults>>

\* Run: case <-notifyCh.
Wake(p) ==
  /\ pc[p] = "wait" /\ signal[p]
  /\ signal' = [signal EXCEPT ![p] = FALSE]
  /\ Jump(p, "drain")
  /\ UNCHANGED <<tables, call, batch, full, cur, faults>>

\* Mutant: no poll without a signal.
TickOnSignal(p) ==
  /\ pc[p] = "wait" /\ signal[p] /\ Jump(p, "drain")
  /\ UNCHANGED <<tables, call, batch, full, cur, signal, faults>>

\* Run: case <-ticker.C, the poll.
Tick(p) ==
  /\ pc[p] = "wait" /\ Jump(p, "drain")
  /\ UNCHANGED <<tables, call, batch, full, cur, signal, faults>>

\* Run: case <-stopCh or <-ctx.Done, with the HTTP server drained before.
Stop(p) ==
  /\ pc[p] = "wait"
  /\ \A m \in Messages : Host[m] = p => call[m] \notin InFlight
  /\ Jump(p, "down")
  /\ signal' = [signal EXCEPT ![p] = FALSE]
  /\ UNCHANGED <<tables, call, batch, full, cur, faults>>

\* drain: ClaimNext.
Claim(p) ==
  /\ pc[p] = "drain"
  /\ batch' = [batch EXCEPT ![p] = Claimable]
  /\ full' = [full EXCEPT ![p] = Cardinality(Claimable) = BatchSize]
  /\ Jump(p, IF Claimable = {} THEN "wait" ELSE "next")
  /\ UNCHANGED <<tables, call, cur, signal, faults>>

\* drain: ClaimNext failed; Run logs it and waits.
ClaimFails(p) ==
  /\ pc[p] = "drain" /\ Fault /\ Jump(p, "wait")
  /\ UNCHANGED <<tables, call, batch, full, cur, signal>>

\* process: take the oldest claimed row k and leave at label l.
Process(p, k, l) ==
  /\ pc[p] = "next" /\ k \in batch[p] /\ \A j \in batch[p] : k <= j
  /\ batch' = [batch EXCEPT ![p] = @ \ {k}]
  /\ cur' = [cur EXCEPT ![p] = k]
  /\ Jump(p, l)
  /\ UNCHANGED <<rows, stored, dlqEvents, call, full, signal>>

Accepted(m) == delivered' = [delivered EXCEPT ![m] = @ + 1]

\* process: registry.Get fails, for ever or for once.
NoSender(p) ==
  \E k \in batch[p] :
    /\ Process(p, k, "unroutable")
    /\ \/ rows[k].msg \in Unroutable /\ UNCHANGED faults
       \/ rows[k].msg \notin Unroutable /\ Fault
    /\ UNCHANGED delivered

\* process: sender.Send succeeds.
SendOK(p) ==
  \E k \in batch[p] :
    /\ rows[k].msg \notin Unroutable
    /\ Process(p, k, "sent") /\ Accepted(rows[k].msg) /\ UNCHANGED faults

\* process: sender.Send returns an error; after a timeout the provider may
\* have accepted the message all the same.
SendFails(p) ==
  \E k \in batch[p] :
    /\ rows[k].msg \notin Unroutable
    /\ Process(p, k, "failed")
    /\ \/ UNCHANGED <<delivered, faults>>
       \/ Accepted(rows[k].msg) /\ Fault

\* process: MarkSent; its error is only logged.
MarkSent(p) ==
  /\ pc[p] = "sent"
  /\ \/ SetStatus(rows[cur[p]].msg, {"pending"}, "sent") /\ UNCHANGED faults
     \/ Fault /\ UNCHANGED rows
  /\ Continue(p)
  /\ UNCHANGED <<stored, delivered, dlqEvents, call, batch, full, signal>>

\* markFailed: MarkFailed; its error is only logged.
RecordFailure(p) ==
  /\ \/ BumpAttempts(rows[cur[p]].msg) /\ UNCHANGED faults
     \/ Fault /\ UNCHANGED rows
  /\ UNCHANGED <<stored, delivered, dlqEvents, call, batch, full, signal>>

\* process, registry error: markFailed and return; attempts are not compared.
MarkUnroutable(p) ==
  /\ pc[p] = "unroutable" /\ RecordFailure(p) /\ Continue(p)

\* handleSendError: markFailed.
MarkFailed(p) ==
  /\ pc[p] = "failed" /\ RecordFailure(p) /\ Jump(p, "attempts") /\ UNCHANGED cur

\* Mutant: the limit is reached one attempt early.
GetAttemptsEarly(p) ==
  /\ pc[p] = "attempts"
  /\ \E j \in DOMAIN rows :
       /\ rows[j].msg = rows[cur[p]].msg
       /\ IF rows[j].attempts >= MaxAttempts - 1
          THEN Jump(p, "dlq") /\ UNCHANGED cur
          ELSE Continue(p)
  /\ UNCHANGED <<tables, call, batch, full, signal, faults>>

\* handleSendError: GetAttempts reads some row of the message.
GetAttempts(p) ==
  /\ pc[p] = "attempts"
  /\ \/ /\ UNCHANGED faults
        /\ \E j \in DOMAIN rows :
             /\ rows[j].msg = rows[cur[p]].msg
             /\ IF rows[j].attempts >= MaxAttempts
                THEN Jump(p, "dlq") /\ UNCHANGED cur
                ELSE Continue(p)
     \/ Fault /\ Continue(p)
  /\ UNCHANGED <<tables, call, batch, full, signal>>

\* Mutant: the event is published although MarkDLQ failed.
MarkDLQUnchecked(p) ==
  /\ pc[p] = "dlq"
  /\ LET Dead == SetStatus(rows[cur[p]].msg, {"pending", "dlq"}, "dlq")
     IN  (Dead /\ UNCHANGED faults) \/ StatementFails(Dead)
  /\ Jump(p, "publish")
  /\ UNCHANGED <<stored, delivered, dlqEvents, call, batch, full, cur, signal>>

\* handleSendError: MarkDLQ; on an error nothing is published.
MarkDLQ(p) ==
  /\ pc[p] = "dlq"
  /\ LET Dead == SetStatus(rows[cur[p]].msg, {"pending", "dlq"}, "dlq")
     IN  \/ Dead /\ Jump(p, "publish") /\ UNCHANGED <<cur, faults>>
         \/ StatementFails(Dead) /\ Continue(p)
  /\ UNCHANGED <<stored, delivered, dlqEvents, call, batch, full, signal>>

\* handleSendError: Bus.PublishDLQ, which drops when the topic is full.
PublishDLQ(p) ==
  /\ pc[p] = "publish"
  /\ dlqEvents' \in {dlqEvents, dlqEvents \cup {rows[cur[p]].msg}}
  /\ Continue(p)
  /\ UNCHANGED <<rows, stored, delivered, call, batch, full, signal, faults>>

\* drain: the batch is processed; a full batch is followed by another claim.
FinishBatch(p) ==
  /\ pc[p] = "next" /\ batch[p] = {}
  /\ Jump(p, IF full[p] THEN "drain" ELSE "wait")
  /\ full' = [full EXCEPT ![p] = FALSE]
  /\ UNCHANGED <<tables, call, batch, cur, signal, faults>>

RelayStep(p) ==
  \/ Claim(p) \/ ClaimFails(p) \/ NoSender(p) \/ SendOK(p) \/ SendFails(p)
  \/ MarkSent(p) \/ MarkUnroutable(p) \/ MarkFailed(p) \/ GetAttempts(p)
  \/ MarkDLQ(p) \/ PublishDLQ(p) \/ FinishBatch(p)

\* The process dies: the tables stay, memory and the calls it served go.
Crash(p) ==
  /\ pc[p] # "down" /\ Fault
  /\ Jump(p, "down")
  /\ batch' = [batch EXCEPT ![p] = {}]
  /\ full' = [full EXCEPT ![p] = FALSE]
  /\ cur' = [cur EXCEPT ![p] = 0]
  /\ signal' = [signal EXCEPT ![p] = FALSE]
  /\ call' = [m \in Messages |->
                IF Host[m] = p /\ call[m] \in InFlight THEN "lost" ELSE call[m]]
  /\ UNCHANGED tables

Next ==
  \/ \E m \in Messages : CallStep(m)
  \/ \E p \in Procs :
       Boot(p) \/ Wake(p) \/ Tick(p) \/ Stop(p) \/ RelayStep(p) \/ Crash(p)

\* Safety needs no fairness.
Spec == Init /\ [][Next]_vars

\* The process is restarted when it is down, its goroutines are scheduled and
\* the ticker keeps firing.
Fairness ==
  /\ \A m \in Messages : WF_vars(CallStep(m))
  /\ \A p \in Procs : WF_vars(Boot(p)) /\ WF_vars(RelayStep(p)) /\ WF_vars(Tick(p))

FairSpec == Spec /\ Fairness

-----------------------------------------------------------------------------
(* Properties. *)

HasRow(m) == \E k \in DOMAIN rows : rows[k].msg = m
Unsettled(m) == \E k \in DOMAIN rows : rows[k].msg = m /\ Pending(k)

\* A Send that is about to answer, or has answered, without an error left a
\* row behind, whatever failed on the way (send.go: Enqueue, fallback Insert).
AckedSendIsQueued ==
  \A m \in Messages :
    Entry[m] = "send" /\ call[m] \in {"notify", "acked"} => HasRow(m)

\* A row is marked sent only after the provider accepted its message, even
\* though rows are marked by message id and several relays or duplicate rows
\* may be at work (relay.go process, outbox.go MarkSent).
SentWasDelivered ==
  \A k \in DOMAIN rows : rows[k].status = "sent" => delivered[rows[k].msg] > 0

\* A message is dead only if MaxAttempts failures were recorded on one of its
\* rows; MarkDLQ reaches every row of the message (relay.go handleSendError).
DeadExhausted ==
  \A k \in DOMAIN rows : rows[k].status = "dlq" =>
    \E j \in DOMAIN rows :
      rows[j].msg = rows[k].msg /\ rows[j].attempts >= MaxAttempts

\* While a failed statement has no effect (AckLoss = FALSE), a message announced
\* on the dlq topic is dead in the table: "0 rows affected" of
\* MarkDLQ means that it was dead already (outbox.go:253).
AnnouncedIsDead ==
  \A m \in dlqEvents : \E k \in DOMAIN rows :
    rows[k].msg = m /\ rows[k].status = "dlq"

\* Every process may deliver a message once, before one of them marks it; each
\* delivery beyond these is paid for by a fault: a crash or a lost statement
\* between Send and MarkSent, a timeout, or an insert whose answer was lost, which
\* leaves another row for every process (relay.go drain and process, send.go).
Extra == [m \in Messages |-> IF delivered[m] > Cardinality(Procs)
                             THEN delivered[m] - Cardinality(Procs) ELSE 0]
DuplicatesAreFaults ==
  MapThenSumSet(LAMBDA m : Extra[m], Messages) <= Cardinality(Procs) * faults

\* A queued message whose channel has a sender is settled in the end: sent,
\* or dead after MaxAttempts, across crashes and failed statements (README
\* section 6: the poll drains the row at boot and periodically).
RoutableSettles ==
  \A m \in Messages \ Unroutable : Unsettled(m) ~> ~Unsettled(m)

\* A message whose channel has no sender ends in the DLQ (relay.go:165-167:
\* "MaxAttempts vai move-lo para DLQ").
UnroutableDies ==
  \A m \in Unroutable : Unsettled(m) ~> ~Unsettled(m)

\* While nothing fails, a relay that waits has no Send to make a first attempt
\* at, unless a signal waits for it too: Notify may drop a signal only when one
\* is there (relay.go Notify, Run, drain).
NoLostSignal ==
  faults = 0 => \A m \in Messages :
    (Entry[m] = "send" /\ call[m] = "acked" /\ pc[Host[m]] = "wait" /\ ~signal[Host[m]])
      => \A k \in DOMAIN rows :
           rows[k].msg = m => ~Pending(k) \/ rows[k].attempts > 0

\* What makes the marks right between two statements of a relay: it works on
\* rows that exist, it confirms a message the provider has accepted, it buries
\* a message whose failures were counted (relay.go process, handleSendError).
Exhausted(m) == \E j \in DOMAIN rows :
                  rows[j].msg = m /\ rows[j].attempts >= MaxAttempts

CursorInv == \A p \in Procs :
  /\ batch[p] \subseteq DOMAIN rows
  /\ pc[p] \in Busy => cur[p] \in DOMAIN rows
ConfirmedInv == \A p \in Procs :
  pc[p] = "sent" => delivered[rows[cur[p]].msg] > 0
ExhaustedInv == \A p \in Procs :
  pc[p] = "dlq" => Exhausted(rows[cur[p]].msg)

RelayInv == CursorInv /\ ConfirmedInv /\ ExhaustedInv

-----------------------------------------------------------------------------
(* The outbox is a durable queue: entries are the rows without attempts. *)

StateOf == [s \in Status |-> CASE s = "pending" -> "queued"
                               [] s = "sent"    -> "sent"
                               [] s = "dlq"     -> "dead"]

Entries == [k \in DOMAIN rows |-> [msg |-> rows[k].msg, state |-> StateOf[rows[k].status]]]

Queue == INSTANCE DurableQueue WITH entries <- Entries, deliveries <- delivered

\* Settled rows never reopen, sent needs a delivery, deliveries are of queued
\* messages: the relay and the calls implement the durable queue.
ImplementsQueue == Queue!QSpec
=============================================================================
