---------------------------- MODULE InboundProofs ----------------------------
(***************************************************************************)
(* Proofs about the inbound path: InboundPipeline for any events, requests *)
(* and reconcilers, down to the durable inbox it implements, and           *)
(* WebhookPayloads, for any deliveries and secrets.                        *)
(***************************************************************************)
EXTENDS InboundPipeline, WebhookPayloads, SequenceTheorems, TLAPS

-----------------------------------------------------------------------------
(* InboundPipeline.                                                        *)

Message == [evt : Events, status : {"received", "routed"}]

\* The state of the requests and of the reconcilers; that of the bus is the
\* bus's own (ProcessProofs).
PipeTyped ==
  /\ rows \in Seq(Message)
  /\ prov \in [Events -> {"new", "waiting", "acked"}]
  /\ at \in [Requests -> {"idle", "ingest", "publish", "offer", "answer"}]
  /\ evt \in [Requests -> SUBSET Events]
  /\ pc \in [Workers -> {"down", "wait", "select", "next", "mark"}]
  /\ batch \in [Workers -> SUBSET Nat] /\ held \in [Workers -> SUBSET Nat]
  /\ full \in [Workers -> BOOLEAN]
  /\ queued \in [Events -> Nat]
  /\ assigned \in SUBSET Events /\ faults \in 0 .. MaxFaults

\* An event has one row: a retry stores no second one.
OneRow == \A j, k \in DOMAIN rows : rows[j].evt = rows[k].evt => j = k

\* What a reconciler selected, and the message it is about to mark, are still
\* there; that message is one, and was assigned.
BatchIsStored == \A w \in Workers : batch[w] \subseteq DOMAIN rows /\ held[w] \subseteq DOMAIN rows
OneHeld       == \A w \in Workers : \A j, k \in held[w] : j = k
HeldWasAssigned == \A w \in Workers : \A k \in held[w] : rows[k].evt \in assigned

\* A request carries one event, stored once it is past Ingest, unless the
\* transaction failed; only such a request is answered with 2xx.
OneEvent == \A r \in Requests : /\ at[r] = "idle" => evt[r] = {}
                                /\ \A x, y \in evt[r] : x = y
BehindIngest ==
  \A r \in Requests : at[r] \in {"publish", "offer", "answer"} =>
    \A e \in evt[r] \ Failing : Stored(e)
AckedWasStored == \A e \in Events \ Failing : prov[e] = "acked" => Stored(e)

StoreInv   == OneRow /\ RoutedWasAssigned
WorkerInv  == BatchIsStored /\ OneHeld /\ HeldWasAssigned
RequestInv == OneEvent /\ BehindIngest /\ AckedWasStored
PipeInv    == PipeTyped /\ StoreInv /\ WorkerInv /\ RequestInv


\* The rows stay where they are and what they are of.
Kept ==
  /\ DOMAIN rows \subseteq DOMAIN rows'
  /\ \A k \in DOMAIN rows : rows'[k].evt = rows[k].evt

LEMMA StoredStays ==
  ASSUME Kept, NEW e, Stored(e)
  PROVE  Stored(e)'
BY DEF Kept, Stored

LEMMA RowFacts ==
  ASSUME PipeTyped
  PROVE  /\ Len(rows) \in Nat /\ DOMAIN rows = 1 .. Len(rows)
         /\ \A k \in DOMAIN rows : rows[k] \in Message /\ rows[k].evt \in Events
<1>1. Len(rows) \in Nat /\ DOMAIN rows = 1 .. Len(rows)
  BY DEF PipeTyped
<1>2. \A k \in DOMAIN rows : rows[k] \in Message
  BY <1>1 DEF PipeTyped
<1>3. \A x \in Message : x.evt \in Events
  BY DEF Message
<1> QED BY <1>1, <1>2, <1>3

\* The transaction of Ingest adds a row in state "received" at the end, or none.
LEMMA TxFacts ==
  ASSUME PipeTyped, StoreInv, NEW e \in Events, Tx(e)
  PROVE  /\ rows' \in Seq(Message) /\ queued' \in [Events -> Nat]
         /\ Kept /\ OneRow' /\ Stored(e)'
         /\ \A k \in DOMAIN rows' :
              (k \in DOMAIN rows /\ rows'[k] = rows[k])
                \/ (rows'[k].evt = e /\ rows'[k].status = "received")
         /\ \A k \in DOMAIN rows : rows'[k] = rows[k]
         /\ Stored(e) => rows' = rows
<1>1. queued' \in [Events -> Nat]
  BY DEF Tx, PipeTyped
<1>2. CASE Stored(e)
  <2>1. rows' = rows
    BY <1>2 DEF Tx, StoreMessage
  <2> QED BY <1>1, <1>2, <2>1 DEF PipeTyped, StoreInv, OneRow, Kept, Stored
<1>3. CASE ~Stored(e)
  <2> DEFINE x == [evt |-> e, status |-> "received"]
  <2>1. rows' = Append(rows, x)
    BY <1>3 DEF Tx, StoreMessage
  <2>2. x \in Message /\ rows \in Seq(Message) /\ x.evt = e /\ x.status = "received"
    BY DEF Message, PipeTyped
  <2> HIDE DEF x
  <2>3. rows' \in Seq(Message)
    BY <2>1, <2>2
  <2>4. /\ Len(rows) \in Nat /\ DOMAIN rows = 1 .. Len(rows)
        /\ DOMAIN rows' = 1 .. Len(rows) + 1
        /\ \A k \in 1 .. Len(rows) : rows'[k] = rows[k]
        /\ rows'[Len(rows) + 1] = x
    BY <2>1, <2>2
  <2>5. \A k \in DOMAIN rows' : (k \in DOMAIN rows /\ rows'[k] = rows[k])
                                  \/ (k = Len(rows) + 1 /\ rows'[k] = x)
    BY <2>4
  <2>6. \A k \in DOMAIN rows : rows[k].evt # e
    BY <1>3 DEF Stored
  <2>7. OneRow'
    BY <2>2, <2>5, <2>6 DEF StoreInv, OneRow
  <2>8. Kept /\ Len(rows) + 1 \in DOMAIN rows'
    BY <2>4 DEF Kept
  <2>9. Stored(e)'
    BY <2>2, <2>4, <2>8 DEF Stored
  <2> QED BY <1>1, <1>3, <2>2, <2>3, <2>4, <2>5, <2>7, <2>8, <2>9
<1> QED BY <1>2, <1>3

\* The mark changes the status of one row at most, which was assigned.
LEMMA MarkFacts ==
  ASSUME PipeTyped, StoreInv, WorkerInv, NEW w \in Workers,
         rows' = [k \in DOMAIN rows |->
                    IF k \in held[w] /\ Received(k)
                    THEN [rows[k] EXCEPT !.status = "routed"] ELSE rows[k]]
  PROVE  /\ rows' \in Seq(Message) /\ DOMAIN rows' = DOMAIN rows /\ Kept /\ OneRow'
         /\ \A k \in DOMAIN rows :
              IF k \in held[w] /\ Received(k) THEN rows'[k].status = "routed"
              ELSE rows'[k] = rows[k]
<1>1. /\ Len(rows) \in Nat /\ DOMAIN rows = 1 .. Len(rows)
      /\ \A k \in DOMAIN rows : rows[k] \in Message
  BY RowFacts
<1>2. \A k \in DOMAIN rows : /\ [rows[k] EXCEPT !.status = "routed"] \in Message
                             /\ [rows[k] EXCEPT !.status = "routed"].evt = rows[k].evt
                             /\ [rows[k] EXCEPT !.status = "routed"].status = "routed"
  BY <1>1 DEF Message
<1>3. DOMAIN rows' = DOMAIN rows
  OBVIOUS
<1>4. \A k \in DOMAIN rows : /\ rows'[k] \in Message /\ rows'[k].evt = rows[k].evt
                             /\ IF k \in held[w] /\ Received(k) THEN rows'[k].status = "routed"
                                ELSE rows'[k] = rows[k]
  BY <1>1, <1>2
<1>5. rows' \in Seq(Message)
  <2>1. rows' \in [1 .. Len(rows) -> Message]
    BY <1>1, <1>3, <1>4
  <2> QED BY <1>1, <2>1
<1>6. Kept /\ OneRow'
  BY <1>3, <1>4 DEF Kept, StoreInv, OneRow
<1> QED BY <1>3, <1>4, <1>5, <1>6

\* A step of a request that leaves the reconcilers alone: the rows may get one
\* more, whose event is not routed yet.
LEMMA RequestStep ==
  ASSUME PipeInv, NEW r \in Requests,
         PipeTyped', Kept, OneRow',
         \A k \in DOMAIN rows' : (k \in DOMAIN rows /\ rows'[k] = rows[k])
                                   \/ rows'[k].status = "received",
         UNCHANGED <<worker, assigned>>,
         \A q \in Requests \ {r} : at'[q] = at[q] /\ evt'[q] = evt[q],
         at'[r] = "idle" => evt'[r] = {}, \A x, y \in evt'[r] : x = y,
         at'[r] \in {"publish", "offer", "answer"} =>
           \A e \in evt'[r] \ Failing : Stored(e)',
         \A e \in Events \ Failing : prov'[e] = "acked" => Stored(e)'
  PROVE  PipeInv'
<1>1. StoreInv' /\ WorkerInv'
  BY DEF worker, PipeInv, StoreInv, RoutedWasAssigned, WorkerInv, BatchIsStored, OneHeld,
         HeldWasAssigned, Kept
<1>2. OneEvent' /\ AckedWasStored'
  BY DEF PipeInv, RequestInv, OneEvent, AckedWasStored
<1>3. BehindIngest'
  <2>1. ASSUME NEW q \in Requests \ {r}, at'[q] \in {"publish", "offer", "answer"},
               NEW e \in evt'[q] \ Failing
        PROVE  Stored(e)'
    <3>1. Stored(e)
      BY <2>1 DEF PipeInv, RequestInv, BehindIngest
    <3> QED BY <3>1, StoredStays
  <2> QED BY <2>1 DEF BehindIngest
<1> QED BY <1>1, <1>2, <1>3 DEF PipeInv, RequestInv

\* The same where no row is stored.
LEMMA QuietRequest ==
  ASSUME PipeInv, NEW r \in Requests, PipeTyped', UNCHANGED <<rows, worker, assigned>>,
         \A q \in Requests \ {r} : at'[q] = at[q] /\ evt'[q] = evt[q],
         at'[r] = "idle" => evt'[r] = {}, \A x, y \in evt'[r] : x = y,
         at'[r] \in {"publish", "offer", "answer"} =>
           at[r] \in {"publish", "offer", "answer"} /\ evt'[r] = evt[r],
         \A e \in Events \ Failing : prov'[e] = "acked" =>
           prov[e] = "acked" \/ (at[r] = "answer" /\ e \in evt[r])
  PROVE  PipeInv'
<1>1. Kept /\ OneRow'
  BY DEF Kept, PipeInv, StoreInv, OneRow
<1>2. \A e : Stored(e) => Stored(e)'
  BY <1>1, StoredStays
<1>3. /\ \A e \in evt[r] \ Failing :
           at[r] \in {"publish", "offer", "answer"} => Stored(e)
      /\ \A e \in Events \ Failing : prov[e] = "acked" => Stored(e)
  BY DEF PipeInv, RequestInv, BehindIngest, AckedWasStored
<1> QED BY <1>1, <1>2, <1>3, RequestStep

\* The requests.
LEMMA RequestsKeep ==
  ASSUME InboundAssumption, PipeInv, NEW r \in Requests,
         (\E e \in Events : Post(e, r)) \/ Refuse(r) \/ Handle(r)
  PROVE  PipeInv'
<1>0. /\ PipeTyped /\ evt \in [Requests -> SUBSET Events]
      /\ at \in [Requests -> {"idle", "ingest", "publish", "offer", "answer"}]
      /\ \A x, y \in evt[r] : x = y
      /\ faults \in 0 .. MaxFaults /\ MaxFaults \in Nat
      /\ Fault => faults' \in 0 .. MaxFaults
      /\ prov \in [Events -> {"new", "waiting", "acked"}]
  BY DEF PipeInv, PipeTyped, RequestInv, OneEvent, InboundAssumption, Fault
<1>1. ASSUME NEW e \in Events, Post(e, r) PROVE PipeInv'
  <2>1. /\ at' = [at EXCEPT ![r] = "ingest"] /\ evt' = [evt EXCEPT ![r] = {e}]
        /\ prov' = [prov EXCEPT ![e] = IF @ = "new" THEN "waiting" ELSE @]
        /\ faults' \in 0 .. MaxFaults /\ UNCHANGED <<rows, queued, worker, assigned>>
    BY <1>0, <1>1 DEF Post, Goto, store
  <2>2. PipeTyped'
    BY <1>0, <2>1 DEF PipeTyped, worker
  <2>3. at'[r] = "ingest" /\ evt'[r] = {e}
        /\ \A q \in Requests \ {r} : at'[q] = at[q] /\ evt'[q] = evt[q]
    BY <1>0, <2>1
  <2>4. \A x \in Events \ Failing : prov'[x] = "acked" => prov[x] = "acked"
    BY <1>0, <2>1
  <2> QED BY <2>1, <2>2, <2>3, <2>4, QuietRequest
<1>2. CASE Refuse(r)
  <2>1. /\ at' = [at EXCEPT ![r] = "idle"] /\ evt' = [evt EXCEPT ![r] = {}]
        /\ faults' \in 0 .. MaxFaults /\ UNCHANGED <<rows, queued, prov, worker, assigned>>
    BY <1>0, <1>2 DEF Refuse, Goto, store
  <2>2. PipeTyped'
    BY <1>0, <2>1 DEF PipeTyped, worker
  <2> QED BY <1>0, <2>1, <2>2, QuietRequest
<1>3. CASE Ingest(r)
  <2>1. PICK e \in evt[r] :
          \/ Tx(e) /\ Goto(r, "publish") /\ UNCHANGED faults
          \/ e \in Failing /\ Fault /\ (Tx(e) \/ UNCHANGED store) /\ Goto(r, "answer")
    BY <1>3 DEF Ingest
  <2>2. e \in Events /\ evt[r] = {e} /\ UNCHANGED <<evt, prov, worker, assigned>>
    BY <1>0, <1>3 DEF Ingest
  <2>3. PICK l \in {"publish", "answer"} :
          /\ at' = [at EXCEPT ![r] = l] /\ faults' \in 0 .. MaxFaults
          /\ (Tx(e) \/ (e \in Failing /\ UNCHANGED store))
    BY <1>0, <2>1 DEF Goto
  <2>4. at'[r] = l /\ \A q \in Requests \ {r} : at'[q] = at[q]
    BY <1>0, <2>3
  <2>5. CASE Tx(e)
    <3>1. /\ rows' \in Seq(Message) /\ queued' \in [Events -> Nat]
          /\ Kept /\ OneRow' /\ Stored(e)'
          /\ \A k \in DOMAIN rows' : (k \in DOMAIN rows /\ rows'[k] = rows[k])
                                       \/ rows'[k].status = "received"
      BY <2>2, <2>5, TxFacts DEF PipeInv
    <3>2. PipeTyped'
      BY <1>0, <2>2, <2>3, <3>1 DEF PipeTyped, worker
    <3>3. \A x \in Events \ Failing : prov'[x] = "acked" => Stored(x)'
      BY <2>2, <3>1, StoredStays DEF PipeInv, RequestInv, AckedWasStored
    <3> QED BY <2>2, <2>4, <3>1, <3>2, <3>3, RequestStep
  <2>6. CASE e \in Failing /\ UNCHANGED store
    <3>1. PipeTyped' /\ UNCHANGED rows
      BY <1>0, <2>2, <2>3, <2>6 DEF PipeTyped, worker, store
    <3>2. Kept /\ OneRow'
      BY <3>1 DEF Kept, PipeInv, StoreInv, OneRow
    <3>3. \A x \in Events \ Failing : prov'[x] = "acked" => Stored(x)'
      BY <2>2, <3>2, StoredStays DEF PipeInv, RequestInv, AckedWasStored
    <3> QED BY <2>2, <2>4, <2>6, <3>1, <3>2, <3>3, RequestStep
  <2> QED BY <2>3, <2>5, <2>6
<1>4. CASE BeginPublish(r) \/ EndPublish(r)
  <2>1. PICK l \in {"offer", "answer"} :
          /\ at' = [at EXCEPT ![r] = l] /\ at[r] \in {"publish", "offer"}
          /\ UNCHANGED <<store, prov, evt, worker, assigned, faults>>
    BY <1>4 DEF BeginPublish, EndPublish, Goto
  <2>2. PipeTyped' /\ UNCHANGED rows
    BY <1>0, <2>1 DEF PipeTyped, worker, store
  <2> QED BY <1>0, <2>1, <2>2, QuietRequest
<1>5. CASE Answer(r)
  <2>1. /\ at[r] = "answer" /\ at' = [at EXCEPT ![r] = "idle"]
        /\ evt' = [evt EXCEPT ![r] = {}] /\ faults' \in 0 .. MaxFaults
        /\ UNCHANGED <<rows, queued, worker, assigned>>
        /\ \/ prov' = [e \in Events |-> IF e \in evt[r] THEN "acked" ELSE prov[e]]
           \/ UNCHANGED prov
    BY <1>0, <1>5 DEF Answer, Goto, store
  <2>2. PipeTyped'
    BY <1>0, <2>1 DEF PipeTyped, worker
  <2> QED BY <1>0, <2>1, <2>2, QuietRequest
<1> QED BY <1>1, <1>2, <1>3, <1>4, <1>5 DEF Handle

\* The reconcilers: the rows of a batch are stored, and the held one assigned.
LEMMA WorkersKeep ==
  ASSUME InboundAssumption, PipeInv, NEW w \in Workers,
         Boot(w) \/ Tick(w) \/ Reconcile(w)
  PROVE  PipeInv'
<1>0. /\ PipeTyped /\ StoreInv /\ WorkerInv /\ RequestInv
      /\ faults \in 0 .. MaxFaults /\ MaxFaults \in Nat
      /\ Fault => faults' \in 0 .. MaxFaults
      /\ pc \in [Workers -> {"down", "wait", "select", "next", "mark"}]
      /\ batch \in [Workers -> SUBSET Nat] /\ held \in [Workers -> SUBSET Nat]
      /\ full \in [Workers -> BOOLEAN]
  BY DEF PipeInv, PipeTyped, InboundAssumption, Fault
<1>1. DOMAIN rows \subseteq Nat /\ \A k \in DOMAIN rows : rows[k].evt \in Events
  BY <1>0, RowFacts
\* A step that marks nothing.
<1>2. ASSUME UNCHANGED <<rows, queued, prov, request>>, faults' \in 0 .. MaxFaults,
             pc' \in [Workers -> {"down", "wait", "select", "next", "mark"}],
             batch' \in [Workers -> SUBSET Nat], held' \in [Workers -> SUBSET Nat],
             full' \in [Workers -> BOOLEAN], assigned' \in SUBSET Events,
             assigned \subseteq assigned', WorkerInv'
      PROVE  PipeInv'
  <2>1. PipeTyped'
    BY <1>0, <1>2 DEF PipeTyped, request
  <2>2. StoreInv' /\ RequestInv'
    BY <1>0, <1>2 DEF StoreInv, OneRow, RoutedWasAssigned, RequestInv, OneEvent, BehindIngest,
                      AckedWasStored, Stored, request
  <2> QED BY <1>2, <2>1, <2>2 DEF PipeInv
<1>3. ASSUME NEW l \in {"select", "wait"}, Jump(w, l), faults' \in 0 .. MaxFaults,
             UNCHANGED <<store, prov, request, batch, held, assigned>>,
             full' \in [Workers -> BOOLEAN]
      PROVE  PipeInv'
  <2>1. WorkerInv'
    BY <1>0, <1>3 DEF WorkerInv, BatchIsStored, OneHeld, HeldWasAssigned, store
  <2> QED BY <1>0, <1>2, <1>3, <2>1 DEF Jump, store, PipeTyped
<1>4. CASE Boot(w) \/ Tick(w) \/ SelectFails(w)
  BY <1>0, <1>3, <1>4 DEF Boot, Tick, SelectFails
<1>5. CASE FinishBatch(w)
  <2>1. full' \in [Workers -> BOOLEAN]
    BY <1>0, <1>5 DEF FinishBatch
  <2>2. \E l \in {"select", "wait"} : Jump(w, l)
    BY <1>5 DEF FinishBatch
  <2>3. faults' \in 0 .. MaxFaults /\ UNCHANGED <<store, prov, request, batch, held, assigned>>
    BY <1>0, <1>5 DEF FinishBatch
  <2> QED BY <1>3, <2>1, <2>2, <2>3
<1>6. CASE Select(w)
  <2>1. Unrouted \subseteq DOMAIN rows
    BY DEF Unrouted
  <2>2. batch' = [batch EXCEPT ![w] = Unrouted] /\ batch' \in [Workers -> SUBSET Nat]
    BY <1>0, <1>1, <1>6, <2>1 DEF Select
  <2>3. full' \in [Workers -> BOOLEAN]
    <3>1. (Cardinality(Unrouted) = BatchSize) \in BOOLEAN
      OBVIOUS
    <3> QED BY <1>0, <1>6, <3>1 DEF Select
  <2>4. pc' \in [Workers -> {"down", "wait", "select", "next", "mark"}]
    BY <1>0, <1>6 DEF Select, Jump
  <2>5. UNCHANGED <<rows, queued, prov, request, held, assigned, faults>>
    BY <1>6 DEF Select, store
  <2>6. WorkerInv'
    BY <1>0, <2>1, <2>2, <2>5 DEF WorkerInv, BatchIsStored, OneHeld, HeldWasAssigned
  <2> QED BY <1>0, <1>2, <2>2, <2>3, <2>4, <2>5, <2>6 DEF PipeTyped
<1>7. ASSUME NEW k \in batch[w], Take(w, k), Jump(w, "mark"),
             held' = [held EXCEPT ![w] = {k}], assigned' = assigned \cup {rows[k].evt},
             UNCHANGED faults
      PROVE  PipeInv'
  <2>1. k \in DOMAIN rows /\ rows[k].evt \in Events
    BY <1>0, <1>1 DEF WorkerInv, BatchIsStored
  <2>2. /\ batch' = [batch EXCEPT ![w] = @ \ {k}]
        /\ UNCHANGED <<rows, queued, prov, request, full>>
    BY <1>7 DEF Take, store
  <2>3. WorkerInv'
    BY <1>0, <1>7, <2>1, <2>2 DEF WorkerInv, BatchIsStored, OneHeld, HeldWasAssigned
  <2>4. /\ batch' \in [Workers -> SUBSET Nat] /\ held' \in [Workers -> SUBSET Nat]
        /\ pc' \in [Workers -> {"down", "wait", "select", "next", "mark"}]
        /\ assigned' \in SUBSET Events
    BY <1>0, <1>1, <1>7, <2>1, <2>2 DEF Jump, PipeTyped
  <2> QED BY <1>0, <1>2, <1>7, <2>2, <2>3, <2>4
<1>8. CASE Assign(w)
  BY <1>7, <1>8 DEF Assign
<1>9. CASE AssignFails(w)
  <2>1. PICK k \in batch[w] : Take(w, k) /\ UNCHANGED <<assigned, held, pc>>
                              /\ faults' \in 0 .. MaxFaults
    BY <1>0, <1>9 DEF AssignFails
  <2>2. /\ batch' = [batch EXCEPT ![w] = @ \ {k}]
        /\ UNCHANGED <<rows, queued, prov, request, full>>
    BY <2>1 DEF Take, store
  <2>3. WorkerInv' /\ batch' \in [Workers -> SUBSET Nat]
    BY <1>0, <2>1, <2>2 DEF WorkerInv, BatchIsStored, OneHeld, HeldWasAssigned
  <2> QED BY <1>0, <1>2, <2>1, <2>2, <2>3 DEF PipeTyped
<1>10. CASE MarkRouted(w)
  <2>1. /\ held' = [held EXCEPT ![w] = {}]
        /\ pc' \in [Workers -> {"down", "wait", "select", "next", "mark"}]
        /\ held' \in [Workers -> SUBSET Nat] /\ faults' \in 0 .. MaxFaults
        /\ UNCHANGED <<queued, prov, request, batch, full, assigned>>
    BY <1>0, <1>10 DEF MarkRouted, Jump
  <2>2. CASE UNCHANGED rows
    <3>1. WorkerInv'
      BY <1>0, <2>1, <2>2 DEF WorkerInv, BatchIsStored, OneHeld, HeldWasAssigned
    <3> QED BY <1>0, <1>2, <2>1, <2>2, <3>1 DEF PipeTyped
  <2>3. CASE rows' = [k \in DOMAIN rows |->
                       IF k \in held[w] /\ Received(k)
                       THEN [rows[k] EXCEPT !.status = "routed"] ELSE rows[k]]
    <3>1. /\ rows' \in Seq(Message) /\ DOMAIN rows' = DOMAIN rows /\ Kept /\ OneRow'
          /\ \A k \in DOMAIN rows : k \in held[w] \/ rows'[k] = rows[k]
      BY <1>0, <2>3, MarkFacts
    <3>2. PipeTyped'
      BY <1>0, <2>1, <3>1 DEF PipeTyped, request
    <3>3. \A k \in DOMAIN rows : rows'[k].evt = rows[k].evt
      BY <3>1 DEF Kept
    <3>4. RoutedWasAssigned'
      BY <1>0, <2>1, <3>1, <3>3 DEF StoreInv, RoutedWasAssigned, WorkerInv, HeldWasAssigned
    <3>5. WorkerInv'
      BY <1>0, <2>1, <3>1, <3>3 DEF WorkerInv, BatchIsStored, OneHeld, HeldWasAssigned
    <3>6. RequestInv'
      <4>1. \A e : Stored(e) => Stored(e)'
        BY <3>1, StoredStays
      <4> QED BY <1>0, <2>1, <4>1 DEF RequestInv, OneEvent, BehindIngest, AckedWasStored, request
    <3> QED BY <3>1, <3>2, <3>4, <3>5, <3>6 DEF PipeInv, StoreInv
  <2> QED BY <1>10, <2>2, <2>3 DEF MarkRouted
<1> QED BY <1>4, <1>5, <1>6, <1>8, <1>9, <1>10 DEF Reconcile

\* A process that leaves: its batch, and the requests of the main one.
LEMMA ForgetKeeps ==
  ASSUME InboundAssumption, PipeInv, NEW w \in Workers, Stop(w) \/ Crash(w)
  PROVE  PipeInv'
<1>1. Forget(w) /\ faults' \in 0 .. MaxFaults
  BY DEF Stop, Crash, Fault, PipeInv, PipeTyped, InboundAssumption
<1>2. /\ pc' = [pc EXCEPT ![w] = "down"] /\ batch' = [batch EXCEPT ![w] = {}]
      /\ full' = [full EXCEPT ![w] = FALSE] /\ held' = [held EXCEPT ![w] = {}]
      /\ UNCHANGED <<rows, queued, prov, assigned>>
  BY <1>1 DEF Forget, Jump, store
<1>3. \/ UNCHANGED request
      \/ at' = [r \in Requests |-> "idle"] /\ evt' = [r \in Requests |-> {}]
  BY <1>1 DEF Forget
<1>4. PipeTyped'
  BY <1>1, <1>2, <1>3 DEF PipeInv, PipeTyped, request
<1>5. StoreInv' /\ WorkerInv'
  BY <1>2 DEF PipeInv, PipeTyped, StoreInv, OneRow, RoutedWasAssigned, WorkerInv,
              BatchIsStored, OneHeld, HeldWasAssigned
<1>6. RequestInv'
  BY <1>2, <1>3 DEF PipeInv, RequestInv, OneEvent, BehindIngest, AckedWasStored, Stored, request
<1> QED BY <1>4, <1>5, <1>6 DEF PipeInv

\* The inductive invariant of the pipeline, in three steps.
LEMMA PipeInvInit == InboundAssumption /\ Init => PipeInv
BY DEF InboundAssumption, Init, PipeInv, PipeTyped, StoreInv, OneRow, RoutedWasAssigned,
       WorkerInv, BatchIsStored, OneHeld, HeldWasAssigned, RequestInv, OneEvent, BehindIngest,
       AckedWasStored

LEMMA StutterKeepsPipeInv ==
  PipeInv /\ UNCHANGED <<store, prov, request, worker, assigned, faults>> => PipeInv'
BY DEF store, request, worker, PipeInv, PipeTyped, StoreInv, OneRow, RoutedWasAssigned,
       WorkerInv, BatchIsStored, OneHeld, HeldWasAssigned, RequestInv, OneEvent, BehindIngest,
       AckedWasStored, Stored

LEMMA NextKeepsPipeInv == InboundAssumption /\ PipeInv /\ [Next]_vars => PipeInv'
<1> SUFFICES ASSUME InboundAssumption, PipeInv, [Next]_vars PROVE PipeInv'
  OBVIOUS
<1>1. CASE Consume \/ UNCHANGED vars
  BY <1>1, StutterKeepsPipeInv DEF Consume, vars, store, request, worker
<1>2. ASSUME NEW w \in Workers, Boot(w) \/ Tick(w) \/ Reconcile(w) \/ Stop(w) \/ Crash(w)
      PROVE  PipeInv'
  BY <1>2, WorkersKeep, ForgetKeeps
<1> QED BY <1>1, <1>2, RequestsKeep DEF Next

LEMMA PipeInvHolds == Spec => []PipeInv
BY InboundAssumption, PipeInvInit, NextKeepsPipeInv, PTL DEF Spec

\* The requests, the stored messages and the reconcilers are in the states the
\* code knows; the bus's own state is typed by its own module.
THEOREM PipeTypeCorrect == Spec => []PipeTyped
BY PipeInvHolds, PTL DEF PipeInv

\* reconciler.go ReconcileAll: a message is never marked routed but after the
\* success of AssignFn for it, by whichever reconciler and in however old a batch,
\* across failures and crashes.
THEOREM RoutedWereAssigned == Spec => []RoutedWasAssigned
BY PipeInvHolds, PTL DEF PipeInv, StoreInv

-----------------------------------------------------------------------------
(* InboundPipeline implements DurableInbox.                                *)

\* What an inbox is made of: the events whose transaction does not fail, their
\* states, those that were answered with 2xx.
Safe   == Events \ Failing
States == [e \in Safe |-> StateOf(e)]
Acked  == {e \in Safe : prov[e] = "acked"}

\* The transaction stores an event that was absent, or changes no state.
LEMMA TxStores ==
  ASSUME PipeInv, NEW e \in Events, Tx(e)
  PROVE  \/ States' = States
         \/ e \in Safe /\ States[e] = "absent" /\ States' = [States EXCEPT ![e] = "received"]
<1>1. /\ Kept /\ Stored(e)' /\ (Stored(e) => rows' = rows)
      /\ \A k \in DOMAIN rows' : (k \in DOMAIN rows /\ rows'[k] = rows[k])
                                   \/ (rows'[k].evt = e /\ rows'[k].status = "received")
      /\ \A k \in DOMAIN rows : rows'[k] = rows[k]
  BY TxFacts DEF PipeInv
<1>2. CASE Stored(e)
  BY <1>1, <1>2 DEF States, StateOf, Stored, Received
<1>3. CASE ~Stored(e)
  <2>1. StateOf(e) = "absent"
    BY <1>3 DEF StateOf, Stored
  <2>2. StateOf(e)' = "received"
    BY <1>1, <1>3 DEF StateOf, Stored, Received
  <2>3. ASSUME NEW x \in Safe, x # e PROVE StateOf(x)' = StateOf(x)
    BY <1>1, <2>3 DEF StateOf, Stored, Received, Kept
  <2> QED BY <2>1, <2>2, <2>3 DEF States
<1> QED BY <1>2, <1>3

\* The mark of a reconciler routes an event that was received, or changes no
\* state: it is late, or the message of another sweep.
LEMMA MarkRoutes ==
  ASSUME PipeInv, NEW w \in Workers, MarkRouted(w)
  PROVE  \/ States' = States
         \/ \E e \in Safe : States[e] = "received" /\ States' = [States EXCEPT ![e] = "routed"]
<1>1. CASE UNCHANGED rows
  BY <1>1 DEF States, StateOf, Stored, Received
<1>2. CASE rows' = [k \in DOMAIN rows |->
                     IF k \in held[w] /\ Received(k)
                     THEN [rows[k] EXCEPT !.status = "routed"] ELSE rows[k]]
  <2>1. /\ DOMAIN rows' = DOMAIN rows /\ Kept
        /\ \A k \in DOMAIN rows :
             IF k \in held[w] /\ Received(k) THEN rows'[k].status = "routed"
             ELSE rows'[k] = rows[k]
    BY <1>2, MarkFacts DEF PipeInv
  <2>2. OneRow /\ held[w] \subseteq DOMAIN rows /\ \A j, k \in held[w] : j = k
    BY DEF PipeInv, StoreInv, WorkerInv, BatchIsStored, OneHeld
  <2>3. CASE \A k \in held[w] : ~Received(k)
    <3>1. \A k \in DOMAIN rows : rows'[k] = rows[k]
      BY <2>1, <2>3
    <3> QED BY <2>1, <3>1 DEF States, StateOf, Stored, Received
  <2>4. ASSUME NEW k \in held[w], Received(k)
        PROVE  \/ States' = States
               \/ \E e \in Safe : /\ States[e] = "received"
                                  /\ States' = [States EXCEPT ![e] = "routed"]
    <3>1. PICK e : e = rows[k].evt
      OBVIOUS
    <3>2. /\ k \in DOMAIN rows /\ rows'[k].evt = e /\ rows'[k].status = "routed"
          /\ \A j \in DOMAIN rows : j # k => rows'[j] = rows[j] /\ rows[j].evt # e
      BY <2>1, <2>2, <2>4, <3>1 DEF Kept, OneRow
    <3>3. StateOf(e) = "received"
      BY <2>4, <3>1, <3>2 DEF StateOf
    <3>4. StateOf(e)' = "routed"
      BY <2>1, <3>2 DEF StateOf, Stored, Received
    <3>5. ASSUME NEW x, x # e PROVE StateOf(x)' = StateOf(x)
      BY <2>1, <3>1, <3>2, <3>5 DEF StateOf, Stored, Received
    <3> QED BY <3>3, <3>4, <3>5 DEF States
  <2> QED BY <2>3, <2>4
<1> QED BY <1>1, <1>2 DEF MarkRouted

\* Every step of the pipeline is a step of the inbox, or none.
LEMMA NextImplementsInbox ==
  ASSUME PipeInv, [Next]_vars
  PROVE  [Inbox!INext]_(Inbox!ivars)
<1> SUFFICES Inbox!INext \/ (States' = States /\ Acked' = Acked)
  BY DEF Inbox!ivars, States, Acked, Safe
<1>1. ASSUME UNCHANGED <<rows, prov>> PROVE States' = States /\ Acked' = Acked
  BY <1>1 DEF States, Acked, StateOf, Stored, Received
<1>2. ASSUME UNCHANGED rows PROVE States' = States
  BY <1>2 DEF States, StateOf, Stored, Received
<1>3. ASSUME NEW e \in Events, NEW r \in Requests, Post(e, r)
      PROVE  States' = States /\ Acked' = Acked
  <2>1. \A x \in Events : prov'[x] = "acked" <=> prov[x] = "acked"
    BY <1>3 DEF Post, PipeInv, PipeTyped
  <2>2. UNCHANGED rows
    BY <1>3 DEF Post, store
  <2> QED BY <1>2, <2>1, <2>2 DEF Acked, Safe
<1>4. ASSUME NEW r \in Requests, Ingest(r)
      PROVE  Inbox!INext \/ (States' = States /\ Acked' = Acked)
  <2>1. PICK e \in evt[r] : Tx(e) \/ UNCHANGED store
    BY <1>4 DEF Ingest
  <2>2. e \in Events /\ UNCHANGED prov /\ Acked' = Acked
    BY <1>4 DEF Ingest, PipeInv, PipeTyped, Acked
  <2>3. CASE UNCHANGED store
    BY <1>1, <2>2, <2>3 DEF store
  <2>4. CASE Tx(e)
    <3>1. ASSUME e \in Safe, States[e] = "absent", States' = [States EXCEPT ![e] = "received"]
          PROVE  Inbox!INext
      <4>1. Inbox!Store(e)
        BY <2>2, <3>1 DEF Inbox!Store, States, Acked, Safe
      <4> QED BY <3>1, <4>1 DEF Inbox!INext, Safe
    <3> QED BY <2>2, <2>4, <3>1, TxStores
  <2> QED BY <2>1, <2>3, <2>4
<1>5. ASSUME NEW r \in Requests, Answer(r)
      PROVE  Inbox!INext \/ (States' = States /\ Acked' = Acked)
  <2>1. UNCHANGED rows /\ at[r] = "answer"
    BY <1>5 DEF Answer, store
  <2>2. CASE UNCHANGED prov
    BY <1>1, <2>1, <2>2
  <2>3. CASE prov' = [e \in Events |-> IF e \in evt[r] THEN "acked" ELSE prov[e]]
    <3>1. CASE evt[r] \cap Safe = {}
      <4>1. Acked' = Acked
        BY <2>3, <3>1 DEF Acked, Safe
      <4> QED BY <1>2, <2>1, <4>1
    <3>2. ASSUME NEW e \in evt[r] \cap Safe PROVE Inbox!INext
      <4>1. \A x \in evt[r] : x = e
        BY <3>2 DEF PipeInv, RequestInv, OneEvent
      <4>2. Acked' = Acked \cup {e}
        BY <2>3, <3>2, <4>1 DEF Acked, Safe
      <4>3. Stored(e)
        BY <2>1, <3>2 DEF PipeInv, RequestInv, BehindIngest, Safe
      <4>4. States[e] # "absent"
        BY <3>2, <4>3 DEF States, StateOf
      <4>5. States' = States
        BY <1>2, <2>1
      <4>6. Inbox!Ack(e)
        BY <3>2, <4>2, <4>4, <4>5 DEF Inbox!Ack, States, Acked, Safe
      <4> QED BY <3>2, <4>6 DEF Inbox!INext, Safe
    <3> QED BY <3>1, <3>2
  <2> QED BY <1>5, <2>2, <2>3 DEF Answer
<1>6. ASSUME NEW w \in Workers, MarkRouted(w)
      PROVE  Inbox!INext \/ (States' = States /\ Acked' = Acked)
  <2>1. Acked' = Acked
    BY <1>6 DEF MarkRouted, Acked
  <2>2. ASSUME NEW e \in Safe, States[e] = "received", States' = [States EXCEPT ![e] = "routed"]
        PROVE  Inbox!INext
    <3>1. Inbox!Route(e)
      BY <2>1, <2>2 DEF Inbox!Route, States, Acked, Safe
    <3> QED BY <3>1 DEF Inbox!INext, Safe
  <2> QED BY <1>6, <2>1, <2>2, MarkRoutes
<1>7. ASSUME NEW r \in Requests, Refuse(r) \/ BeginPublish(r) \/ EndPublish(r)
      PROVE  States' = States /\ Acked' = Acked
  BY <1>1, <1>7 DEF Refuse, BeginPublish, EndPublish, store
<1>8. ASSUME NEW w \in Workers, \/ Boot(w) \/ Tick(w) \/ Select(w) \/ SelectFails(w)
                                \/ Assign(w) \/ AssignFails(w) \/ FinishBatch(w)
                                \/ Stop(w) \/ Crash(w)
      PROVE  States' = States /\ Acked' = Acked
  BY <1>1, <1>8 DEF Boot, Tick, Select, SelectFails, Assign, AssignFails, Take, FinishBatch,
                    Stop, Crash, Forget, store
<1>9. CASE Consume \/ UNCHANGED vars
  BY <1>1, <1>9 DEF Consume, vars, store
<1> QED BY <1>3, <1>4, <1>5, <1>6, <1>7, <1>8, <1>9 DEF Next, Handle, Reconcile

\* README section 6, ADR 0002: whatever is retried, redelivered, lost or crashes,
\* the inbound path is an inbox: an event is acknowledged after it was stored,
\* never lost, and routed once; the exception is an event whose transaction fails.
THEOREM PipelineIsInbox == Spec => ImplementsInbox
<1>1. Init => Inbox!IInit
  BY DEF Init, Inbox!IInit, StateOf, Stored
<1>2. QED
  BY <1>1, PipeInvHolds, NextImplementsInbox, PTL DEF Spec, ImplementsInbox, Inbox!ISpec

-----------------------------------------------------------------------------
(* WebhookPayloads.                                                        *)

\* What is due of a delivery by its stage: the first message of its payload is
\* the one to ingest, and was tried when the answer goes out.
FirstIsTried ==
  \A p \in Posts :
    /\ wire[p] = "ingest" => ToInboundEvent(p) # {}
    /\ wire[p] \in {"answer", "done"} =>
         \A id \in ToInboundEvent(p) : EventOf(p, id) \in stored \cup failed

HookInv == /\ wire \in [Posts -> Stages]
           /\ asks = [p \in Posts |-> asks[p]]
           /\ FirstIsTried

\* The first message is the only one that ToInboundEvent has.
LEMMA FirstFacts ==
  ASSUME PayloadAssumption, NEW p \in Posts
  PROVE  /\ AllMessages(p) = <<>> => ToInboundEvent(p) = {}
         /\ AllMessages(p) # <<>> => ToInboundEvent(p) = {AllMessages(p)[1]}
         /\ \A k \in DOMAIN AllMessages(p) : k \in Nat \ {0} /\ AllMessages(p) # <<>>
<1>1. PICK s : s = AllMessages(p)
  OBVIOUS
<1>2. s \in Seq(ToSet(s))
  BY <1>1 DEF PayloadAssumption
<1>3. \A k \in DOMAIN s : k \in Nat \ {0} /\ s # <<>>
  BY <1>2
<1>4. s # <<>> => Head(s) = s[1]
  BY <1>2
<1> QED BY <1>1, <1>3, <1>4 DEF ToInboundEvent

LEMMA OneIsTried ==
  ASSUME PayloadAssumption, NEW p \in Posts
  PROVE  \A x, y \in ToInboundEvent(p) : x = y
BY FirstFacts DEF ToInboundEvent

\* One delivery goes on, the others stay as they are.
LEMMA DeliveryKeeps ==
  ASSUME HookInv, NEW p \in Posts, NEW s \in Stages, Stage(p, s),
         stored \cup failed \subseteq stored' \cup failed',
         \A q \in Posts \ {p} : asks'[q] = asks[q],
         asks' = [q \in Posts |-> asks'[q]],
         s = "ingest" => ToInboundEvent(p) # {},
         s \in {"answer", "done"} =>
           \A id \in ToInboundEvent(p) :
             [tenant |-> asks'[p].tenant, channel |-> asks'[p].channel, id |-> id]
               \in stored' \cup failed'
  PROVE  HookInv'
<1>1. /\ wire' \in [Posts -> Stages] /\ wire'[p] = s
      /\ \A q \in Posts \ {p} : wire'[q] = wire[q]
  BY DEF HookInv, Stage
<1>2. ASSUME NEW q \in Posts \ {p}
      PROVE  /\ wire'[q] = "ingest" => ToInboundEvent(q) # {}
             /\ wire'[q] \in {"answer", "done"} =>
                  \A id \in ToInboundEvent(q) : EventOf(q, id)' \in stored' \cup failed'
  BY <1>1 DEF HookInv, FirstIsTried, EventOf
<1>3. FirstIsTried'
  BY <1>1, <1>2 DEF FirstIsTried, EventOf
<1> QED BY <1>1, <1>3 DEF HookInv

LEMMA NextKeepsHookInv == PayloadAssumption /\ HookInv /\ [HookNext]_hookVars => HookInv'
<1> SUFFICES ASSUME PayloadAssumption, HookInv, [HookNext]_hookVars PROVE HookInv'
  OBVIOUS
<1>1. ASSUME NEW p \in Posts, PostDelivery(p) \/ RefuseDelivery(p) PROVE HookInv'
  <2>1. PICK s \in {"read", "due"} : Stage(p, s) /\ UNCHANGED <<asks, stored, failed>>
    BY <1>1 DEF PostDelivery, RefuseDelivery
  <2> QED BY <2>1, DeliveryKeeps DEF Stages, HookInv
<1>2. ASSUME NEW p \in Posts, TakeDelivery(p) PROVE HookInv'
  <2>1. PICK a : asks' = [asks EXCEPT ![p] = a]
    BY <1>2 DEF TakeDelivery
  <2>2. PICK s \in {"answer", "ingest"} :
          /\ Stage(p, s) /\ (s = "ingest" <=> ToInboundEvent(p) # {})
          /\ UNCHANGED <<stored, failed>>
    BY <1>2 DEF TakeDelivery
  <2>3. asks' = [q \in Posts |-> asks'[q]] /\ \A q \in Posts \ {p} : asks'[q] = asks[q]
    BY <2>1 DEF HookInv
  <2> QED BY <2>2, <2>3, DeliveryKeeps DEF Stages
<1>3. ASSUME NEW p \in Posts, IngestDelivery(p) PROVE HookInv'
  <2>1. Stage(p, "answer") /\ UNCHANGED asks
    BY <1>3 DEF IngestDelivery
  <2>2. PICK id \in ToInboundEvent(p) :
          /\ EventOf(p, id) \in stored' \cup failed'
          /\ stored \cup failed \subseteq stored' \cup failed'
    BY <1>3 DEF IngestDelivery
  <2>3. \A x \in ToInboundEvent(p) : EventOf(p, x) \in stored' \cup failed'
    BY <2>2, OneIsTried
  <2> QED BY <2>1, <2>2, <2>3, DeliveryKeeps DEF Stages, EventOf, HookInv
<1>4. ASSUME NEW p \in Posts, AnswerDelivery(p) PROVE HookInv'
  <2>1. wire[p] = "answer" /\ UNCHANGED <<stored, failed>>
    BY <1>4 DEF AnswerDelivery
  <2>2. CASE Stage(p, "done") /\ UNCHANGED asks
    <3>1. \A id \in ToInboundEvent(p) : EventOf(p, id) \in stored \cup failed
      BY <2>1 DEF HookInv, FirstIsTried
    <3> QED BY <2>1, <2>2, <3>1, DeliveryKeeps DEF Stages, EventOf, HookInv
  <2>3. CASE Stage(p, "due") /\ asks' = [asks EXCEPT ![p] = Nobody]
    <3>1. asks' = [q \in Posts |-> asks'[q]] /\ \A q \in Posts \ {p} : asks'[q] = asks[q]
      BY <2>3 DEF HookInv
    <3> QED BY <2>1, <2>3, <3>1, DeliveryKeeps DEF Stages
  <2> QED BY <1>4, <2>2, <2>3 DEF AnswerDelivery
<1>5. CASE RestartServer
  <2>1. /\ wire' = [p \in Posts |-> IF wire[p] = "done" THEN "done" ELSE "due"]
        /\ asks' = [p \in Posts |-> IF wire[p] = "done" THEN asks[p] ELSE Nobody]
        /\ UNCHANGED <<stored, failed>>
    BY <1>5 DEF RestartServer
  <2>2. wire' \in [Posts -> Stages]
    BY <2>1 DEF Stages
  <2>3. ASSUME NEW p \in Posts, wire'[p] \in {"ingest", "answer", "done"}
        PROVE  wire[p] = "done" /\ wire'[p] = "done" /\ asks'[p] = asks[p]
    BY <2>1, <2>3
  <2>4. FirstIsTried'
    BY <2>1, <2>3 DEF HookInv, FirstIsTried, EventOf
  <2> QED BY <2>1, <2>2, <2>4 DEF HookInv
<1>6. CASE UNCHANGED hookVars
  BY <1>6 DEF hookVars, HookInv, FirstIsTried, EventOf
<1> QED BY <1>1, <1>2, <1>3, <1>4, <1>5, <1>6 DEF HookNext

LEMMA HookInvHolds == HookSpec => []HookInv
<1>1. HookInit => HookInv
  BY DEF HookInit, HookInv, FirstIsTried, Stages
<1> QED BY <1>1, PayloadAssumption, NextKeepsHookInv, PTL DEF HookSpec

\* handler.go:262: of a delivery that ended with a 200, only the messages behind
\* the first one are given up; the first was committed or failed to.
THEOREM FirstsAreNotForgotten == HookSpec => []ForgottenOnlyBehind
<1>1. PayloadAssumption /\ HookInv => ForgottenOnlyBehind
  <2> SUFFICES ASSUME PayloadAssumption, HookInv, NEW p \in Posts, wire[p] = "done",
                      NEW k \in DOMAIN AllMessages(p), ~(k > 1)
               PROVE  EventOf(p, AllMessages(p)[k]) \in stored \cup failed
    BY DEF ForgottenOnlyBehind
  <2>1. k \in Nat \ {0} /\ AllMessages(p) # <<>>
    BY FirstFacts
  <2>2. k = 1 /\ AllMessages(p)[1] \in ToInboundEvent(p)
    BY <2>1, FirstFacts
  <2> QED BY <2>2 DEF HookInv, FirstIsTried
<1> QED BY <1>1, PayloadAssumption, HookInvHolds, PTL
=============================================================================
