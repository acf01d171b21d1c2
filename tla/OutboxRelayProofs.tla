-------------------------- MODULE OutboxRelayProofs --------------------------
(***************************************************************************)
(* Proofs about OutboxRelay for every set of messages, every number of     *)
(* processes, every batch size, attempt limit and number of faults.        *)
(***************************************************************************)
EXTENDS OutboxRelay, SumTheorems, FiniteSetTheorems, SequenceTheorems, TLAPS

\* The rows after INSERT: one more, the others as they were.
LEMMA InsertRowRows ==
  ASSUME rows \in Seq(Row), NEW m \in Messages, InsertRow(m)
  PROVE  /\ rows' \in Seq(Row)
         /\ DOMAIN rows' = DOMAIN rows \cup {Len(rows) + 1}
         /\ Len(rows) + 1 \notin DOMAIN rows
         /\ \A k \in DOMAIN rows : rows'[k] = rows[k]
         /\ rows'[Len(rows) + 1] = NewRow(m)
<1>1. NewRow(m) \in Row
  BY ConstantsAssumption DEF ConstantsAssumption, NewRow, Row, Status
<1>2. QED
  BY <1>1 DEF InsertRow

\* The rows after UPDATE SET status: the same rows, only their status changes.
LEMMA SetStatusRows ==
  ASSUME rows \in Seq(Row), NEW m \in Messages, NEW from, NEW s \in Status,
         SetStatus(m, from, s)
  PROVE  /\ rows' \in Seq(Row)
         /\ DOMAIN rows' = DOMAIN rows
         /\ \A k \in DOMAIN rows :
              /\ rows'[k].msg = rows[k].msg
              /\ rows'[k].attempts = rows[k].attempts
              /\ rows'[k].status = IF rows[k].msg = m /\ rows[k].status \in from
                                   THEN s ELSE rows[k].status
<1>1. \A k \in DOMAIN rows : rows[k] \in Row
  OBVIOUS
<1>2. DOMAIN rows' = DOMAIN rows
  BY DEF SetStatus
<1>3. \A k \in DOMAIN rows :
        /\ rows'[k] \in Row
        /\ rows'[k].msg = rows[k].msg
        /\ rows'[k].attempts = rows[k].attempts
        /\ rows'[k].status = IF rows[k].msg = m /\ rows[k].status \in from
                             THEN s ELSE rows[k].status
  BY <1>1 DEF SetStatus, Row
<1>4. rows' = [k \in 1 .. Len(rows) |-> rows'[k]]
  BY DEF SetStatus
<1>5. rows' \in Seq(Row)
  BY <1>3, <1>4
<1>6. QED
  BY <1>2, <1>3, <1>5

\* The rows after UPDATE SET attempts: no count decreases.
LEMMA BumpAttemptsRows ==
  ASSUME rows \in Seq(Row), NEW m \in Messages, BumpAttempts(m)
  PROVE  /\ rows' \in Seq(Row)
         /\ DOMAIN rows' = DOMAIN rows
         /\ \A k \in DOMAIN rows :
              /\ rows'[k].msg = rows[k].msg
              /\ rows'[k].status = rows[k].status
              /\ rows'[k].attempts >= rows[k].attempts
<1>1. \A k \in DOMAIN rows : rows[k] \in Row
  OBVIOUS
<1>2. DOMAIN rows' = DOMAIN rows
  BY DEF BumpAttempts
<1>a. \A n \in 0 .. AttemptCap : Incremented(n) \in 0 .. AttemptCap /\ Incremented(n) >= n
  BY ConstantsAssumption DEF ConstantsAssumption, Incremented
<1>b. \A n \in 0 .. AttemptCap : n >= n
  BY ConstantsAssumption DEF ConstantsAssumption
<1>3. \A k \in DOMAIN rows :
        /\ rows'[k] \in Row
        /\ rows'[k].msg = rows[k].msg
        /\ rows'[k].status = rows[k].status
        /\ rows'[k].attempts >= rows[k].attempts
  BY <1>1, <1>a, <1>b DEF BumpAttempts, Row, Pending
<1>4. rows' = [k \in 1 .. Len(rows) |-> rows'[k]]
  BY DEF BumpAttempts
<1>5. rows' \in Seq(Row)
  BY <1>3, <1>4
<1>6. QED
  BY <1>2, <1>3, <1>5

-----------------------------------------------------------------------------
\* How any step changes the table: rows are never deleted or reordered, they
\* keep their message and never lose a recorded attempt.
RowsEvolve ==
  /\ rows' \in Seq(Row)
  /\ DOMAIN rows \subseteq DOMAIN rows'
  /\ \A k \in DOMAIN rows : /\ rows'[k].msg = rows[k].msg
                            /\ rows'[k].attempts >= rows[k].attempts

\* A table left alone has evolved.
LEMMA UnchangedRowsEvolve ==
  ASSUME rows \in Seq(Row), UNCHANGED rows PROVE RowsEvolve
<1>1. \A k \in DOMAIN rows : rows[k] \in Row
  OBVIOUS
<1>2. QED
  BY <1>1, ConstantsAssumption DEF RowsEvolve, Row, ConstantsAssumption

\* An insert keeps the rows that were there.
LEMMA InsertRowEvolve ==
  ASSUME rows \in Seq(Row), NEW m \in Messages, InsertRow(m) PROVE RowsEvolve
<1>1. \A k \in DOMAIN rows : rows[k] \in Row
  OBVIOUS
<1>2. \A k \in DOMAIN rows : rows[k].attempts >= rows[k].attempts
  BY <1>1, ConstantsAssumption DEF Row, ConstantsAssumption
<1>3. QED
  BY <1>2, InsertRowRows DEF RowsEvolve

\* A change of status keeps the rows, their messages and their attempts.
LEMMA SetStatusEvolve ==
  ASSUME rows \in Seq(Row), NEW m \in Messages, NEW from, NEW s \in Status,
         SetStatus(m, from, s)
  PROVE  RowsEvolve
<1>1. \A k \in DOMAIN rows : rows[k] \in Row
  OBVIOUS
<1>2. \A k \in DOMAIN rows : rows[k].attempts >= rows[k].attempts
  BY <1>1, ConstantsAssumption DEF Row, ConstantsAssumption
<1>3. QED
  BY <1>2, SetStatusRows DEF RowsEvolve

\* Counting an attempt keeps the rows, their messages and their status.
LEMMA BumpAttemptsEvolve ==
  ASSUME rows \in Seq(Row), NEW m \in Messages, BumpAttempts(m) PROVE RowsEvolve
  BY BumpAttemptsRows DEF RowsEvolve

\* The message a busy relay works on is a message.
LEMMA CurrentMessage ==
  ASSUME TypeOK, CursorInv, NEW p \in Procs, pc[p] \in Busy
  PROVE  cur[p] \in DOMAIN rows /\ rows[cur[p]].msg \in Messages
<1>1. cur[p] \in DOMAIN rows /\ rows \in Seq(Row)
  BY DEF CursorInv, TypeOK
<1>2. rows[cur[p]] \in Row
  BY <1>1
<1>3. QED
  BY <1>1, <1>2 DEF Row


\* The handlers of the requests only add rows.
LEMMA CallStepRows ==
  ASSUME TypeOK, NEW m \in Messages, CallStep(m)
  PROVE  RowsEvolve
<1>1. rows \in Seq(Row)
  BY DEF TypeOK
<1>2. CASE UNCHANGED rows
  BY <1>1, <1>2, UnchangedRowsEvolve
<1>3. CASE InsertRow(m)
  BY <1>1, <1>3, InsertRowEvolve
<1>4. UNCHANGED rows \/ InsertRow(m)
  <2>1. CASE PersistMessage(m)
    BY <2>1 DEF PersistMessage
  <2>2. CASE Enqueue(m)
    BY <2>2 DEF Enqueue, StatementFails
  <2>3. CASE InsertFallback(m)
    BY <2>3 DEF InsertFallback, StatementFails
  <2>4. CASE Notify(m)
    BY <2>4 DEF Notify, tables
  <2>5. CASE Ingest(m)
    BY <2>5 DEF Ingest
  <2>6. QED
    BY <2>1, <2>2, <2>3, <2>4, <2>5 DEF CallStep
<1>5. QED
  BY <1>2, <1>3, <1>4

\* The statements a relay runs on the table, one disjunct for each.
LEMMA RelayStepStatements ==
  ASSUME NEW p \in Procs, RelayStep(p)
  PROVE  \/ UNCHANGED rows
         \/ pc[p] = "sent" /\ SetStatus(rows[cur[p]].msg, {"pending"}, "sent")
         \/ pc[p] \in {"unroutable", "failed"} /\ BumpAttempts(rows[cur[p]].msg)
         \/ pc[p] = "dlq" /\ SetStatus(rows[cur[p]].msg, {"pending", "dlq"}, "dlq")
<1>1. CASE Claim(p) \/ ClaimFails(p) \/ GetAttempts(p) \/ PublishDLQ(p) \/ FinishBatch(p)
  BY <1>1 DEF Claim, ClaimFails, GetAttempts, PublishDLQ, FinishBatch, tables
<1>2. CASE NoSender(p) \/ SendOK(p) \/ SendFails(p)
  BY <1>2 DEF NoSender, SendOK, SendFails, Process
<1>3. CASE MarkSent(p)
  BY <1>3 DEF MarkSent
<1>4. CASE MarkUnroutable(p) \/ MarkFailed(p)
  BY <1>4 DEF MarkUnroutable, MarkFailed, RecordFailure
<1>5. CASE MarkDLQ(p)
  BY <1>5 DEF MarkDLQ, StatementFails
<1>6. QED
  BY <1>1, <1>2, <1>3, <1>4, <1>5 DEF RelayStep

\* A relay changes status and attempts, no row disappears.
LEMMA RelayStepRows ==
  ASSUME TypeOK, CursorInv, NEW p \in Procs, RelayStep(p)
  PROVE  RowsEvolve
<1>1. rows \in Seq(Row)
  BY DEF TypeOK
<1>2. pc[p] \in Busy => rows[cur[p]].msg \in Messages
  BY CurrentMessage
<1>3. CASE UNCHANGED rows
  BY <1>1, <1>3, UnchangedRowsEvolve
<1>4. CASE pc[p] = "sent" /\ SetStatus(rows[cur[p]].msg, {"pending"}, "sent")
  <2>1. rows[cur[p]].msg \in Messages /\ "sent" \in Status
    BY <1>2, <1>4 DEF Busy, Status
  <2>2. QED
    BY <1>1, <1>4, <2>1, SetStatusEvolve
<1>5. CASE pc[p] \in {"unroutable", "failed"} /\ BumpAttempts(rows[cur[p]].msg)
  <2>1. rows[cur[p]].msg \in Messages
    BY <1>2, <1>5 DEF Busy
  <2>2. QED
    BY <1>1, <1>5, <2>1, BumpAttemptsEvolve
<1>6. CASE pc[p] = "dlq" /\ SetStatus(rows[cur[p]].msg, {"pending", "dlq"}, "dlq")
  <2>1. rows[cur[p]].msg \in Messages /\ "dlq" \in Status
    BY <1>2, <1>6 DEF Busy, Status
  <2>2. QED
    BY <1>1, <1>6, <2>1, SetStatusEvolve
<1>7. QED
  BY <1>3, <1>4, <1>5, <1>6, RelayStepStatements

\* The steps of a process other than those of its relay leave the table alone.
ProcStep(p) == Boot(p) \/ Wake(p) \/ Tick(p) \/ Stop(p) \/ Crash(p)

\* The life of a process (boot, wake-up, stop, crash) leaves the tables alone.
LEMMA ProcStepRows ==
  ASSUME NEW p \in Procs, ProcStep(p)
  PROVE  UNCHANGED tables
  BY DEF ProcStep, Boot, Wake, Tick, Stop, Crash, tables

-----------------------------------------------------------------------------
(* Type correctness, with the fact that a relay works on existing rows. *)

TypeInv == TypeOK /\ CursorInv

\* The types hold at the start.
LEMMA InitTypeInv == Init => TypeInv
<1> SUFFICES ASSUME Init PROVE TypeInv
  OBVIOUS
<1>1. rows \in Seq(Row)
  BY DEF Init
<1>2. TypeOK
  BY <1>1, ConstantsAssumption
  DEF Init, TypeOK, CallState, PC, ConstantsAssumption
<1>3. CursorInv
  BY DEF Init, CursorInv, Busy
<1>4. QED
  BY <1>2, <1>3 DEF TypeInv

\* The budget of faults is respected.
LEMMA FaultType ==
  ASSUME faults \in 0 .. MaxFaults, UNCHANGED faults \/ Fault
  PROVE  faults' \in 0 .. MaxFaults
  BY ConstantsAssumption DEF Fault, ConstantsAssumption

\* A handler of a request keeps the types.
LEMMA CallStepType ==
  ASSUME TypeInv, NEW m \in Messages, CallStep(m) PROVE TypeInv'
<1> USE DEF TypeInv
<1>1. RowsEvolve
  BY CallStepRows
<1>2. /\ UNCHANGED <<delivered, dlqEvents, pc, batch, full, cur>>
      /\ stored' \in SUBSET Messages
      /\ \E s \in CallState : call' = [call EXCEPT ![m] = s]
      /\ UNCHANGED signal \/ signal' = [signal EXCEPT ![Host[m]] = TRUE]
      /\ UNCHANGED faults \/ Fault
  <2> USE DEF TypeOK, GoTo, relayVars, CallState, InFlight
  <2>1. CASE PersistMessage(m)
    BY <2>1 DEF PersistMessage
  <2>2. CASE Enqueue(m)
    BY <2>2 DEF Enqueue, StatementFails
  <2>3. CASE InsertFallback(m)
    BY <2>3 DEF InsertFallback, StatementFails
  <2>4. CASE Notify(m)
    BY <2>4 DEF Notify, tables
  <2>5. CASE Ingest(m)
    BY <2>5 DEF Ingest
  <2>6. QED
    BY <2>1, <2>2, <2>3, <2>4, <2>5 DEF CallStep
<1>3. faults' \in 0 .. MaxFaults
  BY <1>2, FaultType DEF TypeOK
<1>4. TypeOK'
  BY <1>1, <1>2, <1>3 DEF TypeOK, RowsEvolve
<1>5. CursorInv'
  BY <1>1, <1>2 DEF CursorInv, RowsEvolve
<1>6. QED
  BY <1>4, <1>5

\* The life of a process keeps the types.
LEMMA ProcStepType ==
  ASSUME TypeInv, NEW p \in Procs, ProcStep(p) PROVE TypeInv'
<1> USE DEF TypeInv, TypeOK, CursorInv, Jump, tables
<1>1. CASE Boot(p)
  BY <1>1 DEF Boot, PC, Busy
<1>2. CASE Wake(p)
  BY <1>2 DEF Wake, PC, Busy
<1>3. CASE Tick(p)
  BY <1>3 DEF Tick, PC, Busy
<1>4. CASE Stop(p)
  BY <1>4 DEF Stop, PC, Busy
<1>5. CASE Crash(p)
  <2>1. faults' \in 0 .. MaxFaults
    BY <1>5, FaultType DEF Crash
  <2>2. call' \in [Messages -> CallState]
    BY <1>5 DEF Crash, CallState
  <2>3. pc' = [pc EXCEPT ![p] = "down"] /\ "down" \in PC \ Busy
    BY <1>5 DEF Crash, PC, Busy
  <2>4. /\ batch' = [batch EXCEPT ![p] = {}] /\ full' = [full EXCEPT ![p] = FALSE]
        /\ cur' = [cur EXCEPT ![p] = 0] /\ signal' = [signal EXCEPT ![p] = FALSE]
        /\ UNCHANGED <<rows, stored, delivered, dlqEvents>>
    BY <1>5 DEF Crash
  <2>5. TypeOK'
    BY <2>1, <2>2, <2>3, <2>4
  <2>6. CursorInv'
    BY <2>3, <2>4
  <2>7. QED
    BY <2>5, <2>6
<1>6. QED
  BY <1>1, <1>2, <1>3, <1>4, <1>5 DEF ProcStep

\* A relay step changes the entries of its own process only, and keeps them
\* within the rows.
LEMMA RelayStepType ==
  ASSUME TypeInv, NEW p \in Procs, RelayStep(p) PROVE TypeInv'
<1> USE DEF TypeInv
<1>1. RowsEvolve
  BY RelayStepRows
<1>2. /\ UNCHANGED <<stored, call, signal>>
      /\ UNCHANGED delivered \/ \E m \in Messages : Accepted(m)
      /\ UNCHANGED dlqEvents \/ \E m \in Messages : dlqEvents' = dlqEvents \cup {m}
      /\ UNCHANGED faults \/ Fault
      /\ UNCHANGED full \/ \E b \in BOOLEAN : full' = [full EXCEPT ![p] = b]
      /\ \E l \in PC, b \in SUBSET DOMAIN rows, c \in Nat :
           /\ pc' = [pc EXCEPT ![p] = l]
           /\ batch' = [batch EXCEPT ![p] = b]
           /\ cur' = [cur EXCEPT ![p] = c]
           /\ l \in Busy => c \in DOMAIN rows
  <2> USE DEF TypeOK, CursorInv, Jump, Continue
  <2>0. /\ pc \in [Procs -> PC] /\ batch \in [Procs -> SUBSET Nat] /\ cur \in [Procs -> Nat]
        /\ full \in [Procs -> BOOLEAN]
        /\ batch[p] \in SUBSET DOMAIN rows
        /\ pc[p] \in Busy => cur[p] \in DOMAIN rows /\ rows[cur[p]].msg \in Messages
        /\ \A k \in DOMAIN rows : k \in Nat /\ rows[k].msg \in Messages
    <3>1. \A k \in DOMAIN rows : k \in Nat /\ rows[k] \in Row
      OBVIOUS
    <3>2. QED
      BY <3>1, CurrentMessage DEF Row
  <2>k. ASSUME NEW l \in PC, Jump(p, l), UNCHANGED <<batch, cur>>, l \in Busy => pc[p] \in Busy
        PROVE  \E ll \in PC, b \in SUBSET DOMAIN rows, c \in Nat :
                 /\ pc' = [pc EXCEPT ![p] = ll]
                 /\ batch' = [batch EXCEPT ![p] = b]
                 /\ cur' = [cur EXCEPT ![p] = c]
                 /\ ll \in Busy => c \in DOMAIN rows
    <3>1. batch' = [batch EXCEPT ![p] = batch[p]] /\ cur' = [cur EXCEPT ![p] = cur[p]]
      BY <2>0, <2>k
    <3>2. cur[p] \in Nat
      BY <2>0
    <3>3. QED
      BY <2>0, <2>k, <3>1, <3>2
  <2>c. ASSUME Continue(p), UNCHANGED batch
        PROVE  \E ll \in PC, b \in SUBSET DOMAIN rows, c \in Nat :
                 /\ pc' = [pc EXCEPT ![p] = ll]
                 /\ batch' = [batch EXCEPT ![p] = b]
                 /\ cur' = [cur EXCEPT ![p] = c]
                 /\ ll \in Busy => c \in DOMAIN rows
    <3>1. batch' = [batch EXCEPT ![p] = batch[p]]
      BY <2>0, <2>c
    <3>2. "next" \in PC /\ "next" \notin Busy /\ 0 \in Nat
      BY DEF PC, Busy
    <3>3. QED
      BY <2>0, <2>c, <3>1, <3>2
  <2>s. ASSUME NEW k \in batch[p], NEW l \in Busy, Process(p, k, l)
        PROVE  \E ll \in PC, b \in SUBSET DOMAIN rows, c \in Nat :
                 /\ pc' = [pc EXCEPT ![p] = ll]
                 /\ batch' = [batch EXCEPT ![p] = b]
                 /\ cur' = [cur EXCEPT ![p] = c]
                 /\ ll \in Busy => c \in DOMAIN rows
    <3>1. /\ pc' = [pc EXCEPT ![p] = l]
          /\ batch' = [batch EXCEPT ![p] = batch[p] \ {k}]
          /\ cur' = [cur EXCEPT ![p] = k]
      BY <2>s DEF Process
    <3>2. l \in PC /\ batch[p] \ {k} \in SUBSET DOMAIN rows /\ k \in Nat /\ k \in DOMAIN rows
      BY <2>0, <2>s DEF PC
    <3>3. QED
      BY <3>1, <3>2
  <2>1. CASE Claim(p)
    <3>1. Claimable \in SUBSET DOMAIN rows /\ cur[p] \in Nat /\ cur' = [cur EXCEPT ![p] = cur[p]]
      BY <2>0, <2>1 DEF Claim, Claimable
    <3>2. /\ pc' = [pc EXCEPT ![p] = IF Claimable = {} THEN "wait" ELSE "next"]
          /\ {"wait", "next"} \in SUBSET (PC \ Busy)
          /\ batch' = [batch EXCEPT ![p] = Claimable]
      BY <2>1 DEF Claim, PC, Busy
    <3>3. \E b \in BOOLEAN : full' = [full EXCEPT ![p] = b]
      BY <2>1 DEF Claim
    <3>4. UNCHANGED <<stored, call, signal, delivered, dlqEvents, faults>>
      BY <2>1 DEF Claim, tables
    <3>5. QED
      BY <3>1, <3>2, <3>3, <3>4
  <2>2. CASE ClaimFails(p)
    <3>1. "wait" \in PC /\ "wait" \notin Busy
      BY DEF PC, Busy
    <3>2. QED
      BY <2>2, <3>1, <2>k DEF ClaimFails, tables
  <2>3. CASE NoSender(p)
    <3>1. PICK k \in batch[p] : Process(p, k, "unroutable") /\ UNCHANGED delivered
                               /\ (UNCHANGED faults \/ Fault)
      BY <2>3 DEF NoSender
    <3>2. QED
      BY <3>1, <2>s DEF Process, Busy
  <2>4. CASE SendOK(p)
    <3>1. PICK k \in batch[p] : /\ Process(p, k, "sent")
                               /\ Accepted(rows[k].msg) /\ UNCHANGED faults
      BY <2>4 DEF SendOK
    <3>2. rows[k].msg \in Messages
      BY <2>0
    <3>3. QED
      BY <3>1, <3>2, <2>s DEF Process, Busy
  <2>5. CASE SendFails(p)
    <3>1. PICK k \in batch[p] : /\ Process(p, k, "failed")
                               /\ \/ UNCHANGED <<delivered, faults>>
                                  \/ Accepted(rows[k].msg) /\ Fault
      BY <2>5 DEF SendFails
    <3>2. rows[k].msg \in Messages
      BY <2>0
    <3>3. QED
      BY <3>1, <3>2, <2>s DEF Process, Busy
  <2>6. CASE MarkSent(p)
    BY <2>6, <2>c DEF MarkSent
  <2>7. CASE MarkUnroutable(p)
    BY <2>7, <2>c DEF MarkUnroutable, RecordFailure
  <2>8. CASE MarkFailed(p)
    <3>1. "attempts" \in PC /\ pc[p] \in Busy
      BY <2>8 DEF MarkFailed, PC, Busy
    <3>2. QED
      BY <2>8, <3>1, <2>k DEF MarkFailed, RecordFailure
  <2>9. CASE GetAttempts(p)
    <3>1. "dlq" \in PC /\ pc[p] \in Busy
      BY <2>9 DEF GetAttempts, PC, Busy
    <3>2. \/ Jump(p, "dlq") /\ UNCHANGED cur
          \/ Continue(p)
      BY <2>9 DEF GetAttempts
    <3>3. UNCHANGED <<batch, stored, call, signal, full, delivered, dlqEvents>>
          /\ (UNCHANGED faults \/ Fault)
      BY <2>9 DEF GetAttempts, tables
    <3>4. QED
      BY <3>1, <3>2, <3>3, <2>k, <2>c
  <2>10. CASE MarkDLQ(p)
    <3>1. "publish" \in PC /\ pc[p] \in Busy
      BY <2>10 DEF MarkDLQ, PC, Busy
    <3>2. \/ Jump(p, "publish") /\ UNCHANGED <<cur, faults>>
          \/ Continue(p) /\ Fault
      BY <2>10 DEF MarkDLQ, StatementFails
    <3>3. UNCHANGED <<batch, stored, call, signal, full, delivered, dlqEvents>>
      BY <2>10 DEF MarkDLQ
    <3>4. QED
      BY <3>1, <3>2, <3>3, <2>k, <2>c
  <2>11. CASE PublishDLQ(p)
    <3>1. rows[cur[p]].msg \in Messages
      BY <2>0, <2>11 DEF PublishDLQ, Busy
    <3>2. QED
      BY <2>11, <3>1, <2>c DEF PublishDLQ
  <2>12. CASE FinishBatch(p)
    <3>1. {"drain", "wait"} \in SUBSET (PC \ Busy)
      BY DEF PC, Busy
    <3>2. PICK l \in {"drain", "wait"} : Jump(p, l)
      BY <2>12 DEF FinishBatch
    <3>3. /\ UNCHANGED <<batch, cur, stored, call, signal, delivered, dlqEvents, faults>>
          /\ full' = [full EXCEPT ![p] = FALSE]
      BY <2>12 DEF FinishBatch, tables
    <3>4. QED
      BY <3>1, <3>2, <3>3, <2>k
  <2>13. QED
    BY <2>1, <2>2, <2>3, <2>4, <2>5, <2>6, <2>7, <2>8, <2>9, <2>10, <2>11, <2>12
    DEF RelayStep
<1>3. faults' \in 0 .. MaxFaults
  BY <1>2, FaultType DEF TypeOK
<1>4. delivered' \in [Messages -> Nat] /\ dlqEvents' \in SUBSET Messages
  <2>1. delivered \in [Messages -> Nat] /\ dlqEvents \in SUBSET Messages
    BY DEF TypeOK
  <2>2. ASSUME NEW m \in Messages, Accepted(m) PROVE delivered' \in [Messages -> Nat]
    BY <2>1, <2>2 DEF Accepted
  <2>3. dlqEvents' \in SUBSET Messages
    BY <1>2, <2>1
  <2>4. QED
    BY <1>2, <2>1, <2>2, <2>3
<1>5. full' \in [Procs -> BOOLEAN] /\ signal' \in [Procs -> BOOLEAN]
      /\ stored' \in SUBSET Messages /\ call' \in [Messages -> CallState]
  BY <1>2 DEF TypeOK
<1>6. PICK l \in PC, b \in SUBSET DOMAIN rows, c \in Nat :
        /\ pc' = [pc EXCEPT ![p] = l]
        /\ batch' = [batch EXCEPT ![p] = b]
        /\ cur' = [cur EXCEPT ![p] = c]
        /\ l \in Busy => c \in DOMAIN rows
  BY <1>2
<1>7. DOMAIN rows \subseteq Nat /\ DOMAIN rows \subseteq DOMAIN rows'
  BY <1>1 DEF TypeOK, RowsEvolve
<1>8. TypeOK'
  BY <1>1, <1>3, <1>4, <1>5, <1>6, <1>7 DEF TypeOK, RowsEvolve
<1>9. CursorInv'
  BY <1>6, <1>7 DEF TypeOK, CursorInv
<1>10. QED
  BY <1>8, <1>9

\* Every step keeps the types.
LEMMA NextTypeInv == TypeInv /\ [Next]_vars => TypeInv'
<1> SUFFICES ASSUME TypeInv, [Next]_vars PROVE TypeInv'
  OBVIOUS
<1>1. ASSUME NEW m \in Messages, CallStep(m) PROVE TypeInv'
  BY <1>1, CallStepType
<1>2. ASSUME NEW p \in Procs, ProcStep(p) PROVE TypeInv'
  BY <1>2, ProcStepType
<1>3. ASSUME NEW p \in Procs, RelayStep(p) PROVE TypeInv'
  BY <1>3, RelayStepType
<1>4. CASE UNCHANGED vars
  BY <1>4 DEF vars, TypeInv, TypeOK, CursorInv
<1>5. QED
  BY <1>1, <1>2, <1>3, <1>4 DEF Next, ProcStep

\* Every variable keeps its type: the table only ever holds rows with the
\* statuses of the schema and a bounded attempts column, and a relay works on
\* rows that exist.
THEOREM TypeCorrect == Spec => []TypeOK
<1>1. Spec => []TypeInv
  BY InitTypeInv, NextTypeInv, PTL DEF Spec
<1>2. TypeInv => TypeOK
  BY DEF TypeInv
<1>3. QED
  BY <1>1, <1>2, PTL

-----------------------------------------------------------------------------
(* The marks: sent rows were delivered, dead rows are exhausted.           *)

\* Inductive: what a relay knows between its statements, and the two marks.
MarksInv == TypeInv /\ ConfirmedInv /\ ExhaustedInv /\ SentWasDelivered /\ DeadExhausted

\* Every step lets the rows evolve.
LEMMA NextRows ==
  ASSUME TypeInv, [Next]_vars PROVE RowsEvolve
<1>0. TypeOK /\ CursorInv /\ rows \in Seq(Row)
  BY DEF TypeInv, TypeOK
<1>1. ASSUME NEW m \in Messages, CallStep(m) PROVE RowsEvolve
  BY <1>0, <1>1, CallStepRows
<1>2. ASSUME NEW p \in Procs, ProcStep(p) PROVE RowsEvolve
  BY <1>0, <1>2, ProcStepRows, UnchangedRowsEvolve DEF tables
<1>3. ASSUME NEW p \in Procs, RelayStep(p) PROVE RowsEvolve
  BY <1>0, <1>3, RelayStepRows
<1>4. CASE UNCHANGED vars
  BY <1>0, <1>4, UnchangedRowsEvolve DEF vars
<1>5. QED
  BY <1>1, <1>2, <1>3, <1>4 DEF Next, ProcStep

\* A delivery is never undone.
LEMMA DeliveredGrows ==
  ASSUME TypeInv, [Next]_vars, NEW m \in Messages, delivered[m] > 0
  PROVE  delivered'[m] > 0
<1>0. delivered \in [Messages -> Nat]
  BY DEF TypeInv, TypeOK
<1>1. CASE UNCHANGED delivered
  BY <1>1
<1>2. ASSUME NEW n, Accepted(n) PROVE delivered'[m] > 0
  BY <1>0, <1>2 DEF Accepted
<1>3. UNCHANGED delivered \/ \E n : Accepted(n)
  <2>1. ASSUME NEW n \in Messages, CallStep(n) PROVE UNCHANGED delivered
    BY <2>1 DEF CallStep, PersistMessage, Enqueue, InsertFallback, Notify, Ingest, tables
  <2>2. ASSUME NEW p \in Procs, ProcStep(p) PROVE UNCHANGED delivered
    BY <2>2, ProcStepRows DEF tables
  <2>3. ASSUME NEW p \in Procs, RelayStep(p)
        PROVE  UNCHANGED delivered \/ \E n : Accepted(n)
    BY <2>3 DEF RelayStep, Claim, ClaimFails, NoSender, SendOK, SendFails, MarkSent,
                MarkUnroutable, MarkFailed, RecordFailure, GetAttempts, MarkDLQ,
                PublishDLQ, FinishBatch, tables
  <2>4. CASE UNCHANGED vars
    BY <2>4 DEF vars
  <2>5. QED
    BY <2>1, <2>2, <2>3, <2>4 DEF Next, ProcStep
<1>4. QED
  BY <1>1, <1>2, <1>3

\* A message with MaxAttempts recorded failures keeps them.
LEMMA ExhaustedStays ==
  ASSUME TypeInv, [Next]_vars, NEW m, Exhausted(m) PROVE Exhausted(m)'
<1>1. RowsEvolve
  BY NextRows
<1>2. PICK j \in DOMAIN rows : rows[j].msg = m /\ rows[j].attempts >= MaxAttempts
  BY DEF Exhausted
<1>3. rows[j] \in Row /\ rows'[j] \in Row /\ j \in DOMAIN rows'
  BY <1>1 DEF RowsEvolve, TypeInv, TypeOK
<1>4. rows'[j].attempts >= MaxAttempts
  BY <1>1, <1>2, <1>3, ConstantsAssumption DEF RowsEvolve, Row, ConstantsAssumption
<1>5. QED
  BY <1>1, <1>2, <1>3, <1>4 DEF RowsEvolve, Exhausted

\* Where the status of a row comes from: it is kept, the row is new, or a relay
\* at MarkSent or MarkDLQ for the message of the row sets it.
LEMMA StatusOrigin ==
  ASSUME TypeInv, [Next]_vars, NEW k \in DOMAIN rows', rows'[k].status # "pending"
  PROVE  /\ k \in DOMAIN rows
         /\ \/ rows'[k].status = rows[k].status
            \/ \E p \in Procs : /\ rows[cur[p]].msg = rows[k].msg
                                /\ pc[p] = rows'[k].status
                                /\ pc[p] \in {"sent", "dlq"}
<1>0. TypeOK /\ CursorInv /\ rows \in Seq(Row)
  BY DEF TypeInv, TypeOK
<1>1. ASSUME NEW m \in Messages, CallStep(m)
      PROVE  k \in DOMAIN rows /\ rows'[k].status = rows[k].status
  <2>1. CASE UNCHANGED rows
    BY <2>1
  <2>2. CASE InsertRow(m)
    <3>1. NewRow(m).status = "pending"
      BY DEF NewRow
    <3>2. k \in DOMAIN rows \cup {Len(rows) + 1} /\ rows'[Len(rows) + 1] = NewRow(m)
          /\ \A j \in DOMAIN rows : rows'[j] = rows[j]
      BY <1>0, <2>2, InsertRowRows
    <3>3. QED
      BY <3>1, <3>2
  <2>3. UNCHANGED rows \/ InsertRow(m)
    BY <1>1 DEF CallStep, PersistMessage, Enqueue, InsertFallback, Notify, Ingest,
                StatementFails, tables
  <2>4. QED
    BY <2>1, <2>2, <2>3
<1>2. ASSUME NEW p \in Procs, ProcStep(p)
      PROVE  k \in DOMAIN rows /\ rows'[k].status = rows[k].status
  BY <1>2, ProcStepRows DEF tables
<1>3. ASSUME NEW p \in Procs, RelayStep(p)
      PROVE  /\ k \in DOMAIN rows
             /\ \/ rows'[k].status = rows[k].status
                \/ /\ rows[cur[p]].msg = rows[k].msg
                   /\ pc[p] = rows'[k].status
                   /\ pc[p] \in {"sent", "dlq"}
  <2>0. pc[p] \in Busy => rows[cur[p]].msg \in Messages
    BY <1>0, CurrentMessage
  <2>1. CASE UNCHANGED rows
    BY <2>1
  <2>2. CASE pc[p] = "sent" /\ SetStatus(rows[cur[p]].msg, {"pending"}, "sent")
    <3>1. rows[cur[p]].msg \in Messages /\ "sent" \in Status
      BY <2>0, <2>2 DEF Busy, Status
    <3>2. QED
      BY <1>0, <2>2, <3>1, SetStatusRows
  <2>3. CASE pc[p] \in {"unroutable", "failed"} /\ BumpAttempts(rows[cur[p]].msg)
    <3>1. rows[cur[p]].msg \in Messages
      BY <2>0, <2>3 DEF Busy
    <3>2. QED
      BY <1>0, <2>3, <3>1, BumpAttemptsRows
  <2>4. CASE pc[p] = "dlq" /\ SetStatus(rows[cur[p]].msg, {"pending", "dlq"}, "dlq")
    <3>1. rows[cur[p]].msg \in Messages /\ "dlq" \in Status
      BY <2>0, <2>4 DEF Busy, Status
    <3>2. QED
      BY <1>0, <2>4, <3>1, SetStatusRows
  <2>5. QED
    BY <1>3, <2>1, <2>2, <2>3, <2>4, RelayStepStatements
<1>4. CASE UNCHANGED vars
  BY <1>4 DEF vars
<1>5. QED
  BY <1>1, <1>2, <1>3, <1>4 DEF Next, ProcStep

\* A relay at MarkSent was there before, or its provider has just accepted.
LEMMA ConfirmedStep ==
  ASSUME MarksInv, [Next]_vars PROVE ConfirmedInv'
<1> SUFFICES ASSUME NEW q \in Procs, pc'[q] = "sent"
             PROVE  delivered'[rows'[cur'[q]].msg] > 0
  BY DEF ConfirmedInv
<1>0. TypeOK /\ CursorInv /\ RowsEvolve /\ pc \in [Procs -> PC] /\ cur \in [Procs -> Nat]
  BY NextRows DEF MarksInv, TypeInv, TypeOK
<1>1. CASE pc[q] = "sent" /\ cur'[q] = cur[q]
  <2>1. cur[q] \in DOMAIN rows /\ rows[cur[q]].msg \in Messages
    BY <1>0, <1>1, CurrentMessage DEF Busy
  <2>2. delivered[rows[cur[q]].msg] > 0
    BY <1>1 DEF MarksInv, ConfirmedInv
  <2>3. delivered'[rows[cur[q]].msg] > 0
    BY <2>1, <2>2, DeliveredGrows DEF MarksInv
  <2>4. rows'[cur'[q]].msg = rows[cur[q]].msg
    BY <1>0, <1>1, <2>1 DEF RowsEvolve
  <2>5. QED
    BY <2>3, <2>4
<1>2. CASE SendOK(q)
  <2>1. PICK k \in batch[q] : Process(q, k, "sent") /\ Accepted(rows[k].msg)
    BY <1>2 DEF SendOK
  <2>2. cur'[q] = k /\ k \in DOMAIN rows /\ UNCHANGED rows
    BY <1>0, <2>1 DEF Process, CursorInv
  <2>3. delivered \in [Messages -> Nat] /\ rows[k] \in Row
    BY <1>0, <2>2 DEF TypeOK
  <2>4. rows[k].msg \in Messages
    BY <2>3 DEF Row
  <2>5. delivered'[rows[k].msg] > 0
    BY <2>1, <2>3, <2>4 DEF Accepted
  <2>6. QED
    BY <2>2, <2>5
<1>3. (pc[q] = "sent" /\ cur'[q] = cur[q]) \/ SendOK(q)
  <2>1. ASSUME NEW m \in Messages, CallStep(m) PROVE UNCHANGED <<pc, cur>>
    BY <2>1 DEF CallStep, PersistMessage, Enqueue, InsertFallback, Notify, Ingest, relayVars
  <2>2. ASSUME NEW p \in Procs, ProcStep(p)
        PROVE  pc[q] = "sent" /\ cur'[q] = cur[q]
    BY <1>0, <2>2 DEF ProcStep, Boot, Wake, Tick, Stop, Crash, Jump
  <2>3. ASSUME NEW p \in Procs, RelayStep(p)
        PROVE  (pc[q] = "sent" /\ cur'[q] = cur[q]) \/ SendOK(q)
    <3>1. CASE p # q
      <4>1. pc'[q] = pc[q] /\ cur'[q] = cur[q]
        BY <1>0, <2>3, <3>1 DEF RelayStep, Claim, ClaimFails, NoSender, SendOK, SendFails,
           MarkSent, MarkUnroutable, MarkFailed, RecordFailure, GetAttempts, MarkDLQ,
           PublishDLQ, FinishBatch, Process, Jump, Continue
      <4>2. QED
        BY <4>1
    <3>2. CASE p = q
      BY <1>0, <2>3, <3>2 DEF RelayStep, Claim, ClaimFails, NoSender, SendFails,
         MarkSent, MarkUnroutable, MarkFailed, RecordFailure, GetAttempts, MarkDLQ,
         PublishDLQ, FinishBatch, Process, Jump, Continue
    <3>3. QED
      BY <3>1, <3>2
  <2>4. CASE UNCHANGED vars
    BY <2>4 DEF vars
  <2>5. QED
    BY <2>1, <2>2, <2>3, <2>4 DEF Next, ProcStep
<1>4. QED
  BY <1>1, <1>2, <1>3

\* A relay at MarkDLQ was there before, or has just read enough attempts.
LEMMA ExhaustedStep ==
  ASSUME MarksInv, [Next]_vars PROVE ExhaustedInv'
<1> SUFFICES ASSUME NEW q \in Procs, pc'[q] = "dlq"
             PROVE  \E j \in DOMAIN rows' : /\ rows'[j].msg = rows'[cur'[q]].msg
                                            /\ rows'[j].attempts >= MaxAttempts
  BY DEF ExhaustedInv, Exhausted
<1>0. TypeOK /\ CursorInv /\ RowsEvolve /\ pc \in [Procs -> PC] /\ cur \in [Procs -> Nat]
  BY NextRows DEF MarksInv, TypeInv, TypeOK
<1>1. pc[q] \in {"attempts", "dlq"} /\ cur'[q] = cur[q] /\ (pc[q] = "dlq" \/ GetAttempts(q))
  <2>1. ASSUME NEW m \in Messages, CallStep(m) PROVE UNCHANGED <<pc, cur>>
    BY <2>1 DEF CallStep, PersistMessage, Enqueue, InsertFallback, Notify, Ingest, relayVars
  <2>2. ASSUME NEW p \in Procs, ProcStep(p)
        PROVE  pc[q] = "dlq" /\ cur'[q] = cur[q]
    BY <1>0, <2>2 DEF ProcStep, Boot, Wake, Tick, Stop, Crash, Jump
  <2>3. ASSUME NEW p \in Procs, RelayStep(p), p # q
        PROVE  pc'[q] = pc[q] /\ cur'[q] = cur[q]
    BY <1>0, <2>3 DEF RelayStep, Claim, ClaimFails, NoSender, SendOK, SendFails,
       MarkSent, MarkUnroutable, MarkFailed, RecordFailure, GetAttempts, MarkDLQ,
       PublishDLQ, FinishBatch, Process, Jump, Continue
  <2>4. ASSUME RelayStep(q) PROVE GetAttempts(q)
    BY <1>0, <2>4 DEF RelayStep, Claim, ClaimFails, NoSender, SendOK, SendFails,
       MarkSent, MarkUnroutable, MarkFailed, RecordFailure, MarkDLQ,
       PublishDLQ, FinishBatch, Process, Jump, Continue
  <2>5. ASSUME GetAttempts(q) PROVE pc[q] = "attempts" /\ cur'[q] = cur[q]
    BY <1>0, <2>5 DEF GetAttempts, Jump, Continue
  <2>6. CASE UNCHANGED vars
    BY <2>6 DEF vars
  <2>7. QED
    BY <2>1, <2>2, <2>3, <2>4, <2>5, <2>6 DEF Next, ProcStep
<1>2. cur[q] \in DOMAIN rows /\ rows[cur[q]].msg \in Messages
  BY <1>0, <1>1, CurrentMessage DEF Busy
<1>3. rows'[cur'[q]].msg = rows[cur[q]].msg
  BY <1>0, <1>1, <1>2 DEF RowsEvolve
<1>4. Exhausted(rows[cur[q]].msg)
  <2>1. CASE pc[q] = "dlq"
    BY <2>1 DEF MarksInv, ExhaustedInv
  <2>2. CASE GetAttempts(q)
    BY <1>0, <2>2 DEF GetAttempts, Jump, Continue, Exhausted
  <2>3. QED
    BY <1>1, <2>1, <2>2
<1>5. \A m : m = rows[cur[q]].msg => Exhausted(m)'
  BY <1>4, ExhaustedStays DEF MarksInv
<1>6. QED
  BY <1>3, <1>5 DEF Exhausted

\* A row becomes sent only under MarkSent, whose message was delivered.
LEMMA SentStep ==
  ASSUME MarksInv, [Next]_vars PROVE SentWasDelivered'
<1> SUFFICES ASSUME NEW k \in DOMAIN rows', rows'[k].status = "sent"
             PROVE  delivered'[rows'[k].msg] > 0
  BY DEF SentWasDelivered
<1>0. TypeInv /\ RowsEvolve
  BY NextRows DEF MarksInv
<1>1. k \in DOMAIN rows
  BY <1>0, StatusOrigin
<1>2. rows[k] \in Row /\ rows'[k].msg = rows[k].msg
  BY <1>0, <1>1 DEF RowsEvolve, TypeInv, TypeOK
<1>3. delivered[rows[k].msg] > 0
  <2>1. CASE rows[k].status = "sent"
    BY <1>1, <2>1 DEF MarksInv, SentWasDelivered
  <2>2. ASSUME NEW p \in Procs, rows[cur[p]].msg = rows[k].msg, pc[p] = "sent"
        PROVE  delivered[rows[k].msg] > 0
    BY <2>2 DEF MarksInv, ConfirmedInv
  <2>3. QED
    BY <1>0, <2>1, <2>2, StatusOrigin
<1>4. QED
  BY <1>0, <1>2, <1>3, DeliveredGrows DEF Row

\* A row becomes dead only under MarkDLQ, whose message is exhausted.
LEMMA DeadStep ==
  ASSUME MarksInv, [Next]_vars PROVE DeadExhausted'
<1> SUFFICES ASSUME NEW k \in DOMAIN rows', rows'[k].status = "dlq"
             PROVE  \E j \in DOMAIN rows' : /\ rows'[j].msg = rows'[k].msg
                                            /\ rows'[j].attempts >= MaxAttempts
  BY DEF DeadExhausted
<1>0. TypeInv /\ RowsEvolve
  BY NextRows DEF MarksInv
<1>1. k \in DOMAIN rows
  BY <1>0, StatusOrigin
<1>2. rows'[k].msg = rows[k].msg
  BY <1>0, <1>1 DEF RowsEvolve
<1>3. Exhausted(rows[k].msg)
  <2>1. CASE rows[k].status = "dlq"
    BY <1>1, <2>1 DEF MarksInv, DeadExhausted, Exhausted
  <2>2. ASSUME NEW p \in Procs, rows[cur[p]].msg = rows[k].msg, pc[p] = "dlq"
        PROVE  Exhausted(rows[k].msg)
    BY <2>2 DEF MarksInv, ExhaustedInv, Exhausted
  <2>3. QED
    BY <1>0, <2>1, <2>2, StatusOrigin
<1>4. \A m : m = rows[k].msg => Exhausted(m)'
  BY <1>0, <1>3, ExhaustedStays
<1>5. QED
  BY <1>2, <1>4 DEF Exhausted

\* Every step keeps the invariant of the marks.
LEMMA NextMarksInv == MarksInv /\ [Next]_vars => MarksInv'
  BY NextTypeInv, ConfirmedStep, ExhaustedStep, SentStep, DeadStep DEF MarksInv

\* The invariant of the marks holds at the start.
LEMMA InitMarksInv == Init => MarksInv
<1>1. Init => TypeInv
  BY InitTypeInv
<1>2. Init => ConfirmedInv /\ ExhaustedInv /\ SentWasDelivered /\ DeadExhausted
  BY DEF Init, ConfirmedInv, ExhaustedInv, SentWasDelivered, DeadExhausted
<1>3. QED
  BY <1>1, <1>2 DEF MarksInv

\* No row is marked sent before the provider has accepted its message, with
\* any number of relays on the table, crashes and lost statements.
THEOREM SentRowsWereDelivered == Spec => []SentWasDelivered
<1>1. Spec => []MarksInv
  BY InitMarksInv, NextMarksInv, PTL DEF Spec
<1>2. MarksInv => SentWasDelivered
  BY DEF MarksInv
<1>3. QED
  BY <1>1, <1>2, PTL

\* No row is dead before MaxAttempts failures of its message were recorded.
THEOREM DeadRowsWereExhausted == Spec => []DeadExhausted
<1>1. Spec => []MarksInv
  BY InitMarksInv, NextMarksInv, PTL DEF Spec
<1>2. MarksInv => DeadExhausted
  BY DEF MarksInv
<1>3. QED
  BY <1>1, <1>2, PTL

\* What a relay relies on between two statements: existing rows, a delivered
\* message at MarkSent, counted failures at MarkDLQ.
THEOREM RelaysKeepTheirWord == Spec => []RelayInv
<1>1. Spec => []MarksInv
  BY InitMarksInv, NextMarksInv, PTL DEF Spec
<1>2. MarksInv => RelayInv
  BY DEF MarksInv, TypeInv, RelayInv
<1>3. QED
  BY <1>1, <1>2, PTL

-----------------------------------------------------------------------------
(* A Send that answers without an error is queued. *)

\* A Send answers only after Enqueue or the fallback has added its row.
LEMMA AckedStep ==
  ASSUME TypeInv, AckedSendIsQueued, [Next]_vars PROVE AckedSendIsQueued'
<1> SUFFICES ASSUME NEW m \in Messages, Entry[m] = "send",
                    call'[m] \in {"notify", "acked"}
             PROVE  \E k \in DOMAIN rows' : rows'[k].msg = m
  BY DEF AckedSendIsQueued, HasRow
<1>0. rows \in Seq(Row) /\ call \in [Messages -> CallState] /\ RowsEvolve
  BY NextRows DEF TypeInv, TypeOK
<1>1. CASE call[m] \in {"notify", "acked"}
  BY <1>0, <1>1 DEF AckedSendIsQueued, HasRow, RowsEvolve
<1>2. CASE InsertRow(m)
  <2>1. NewRow(m).msg = m
    BY DEF NewRow
  <2>2. QED
    BY <1>0, <1>2, <2>1, InsertRowRows
<1>3. call[m] \in {"notify", "acked"} \/ InsertRow(m)
  <2>1. ASSUME NEW n \in Messages, CallStep(n)
        PROVE  call[m] \in {"notify", "acked"} \/ InsertRow(m)
    <3>1. CASE n = m
      BY <1>0, <2>1, <3>1 DEF CallStep, PersistMessage, Enqueue, InsertFallback, Notify,
                              Ingest, GoTo
    <3>2. CASE n # m
      <4>1. PICK s : call' = [call EXCEPT ![n] = s]
        BY <2>1 DEF CallStep, PersistMessage, Enqueue, InsertFallback, Notify, Ingest, GoTo
      <4>2. QED
        BY <1>0, <3>2, <4>1
    <3>3. QED
      BY <3>1, <3>2
  <2>2. ASSUME NEW p \in Procs, ProcStep(p) PROVE call[m] \in {"notify", "acked"}
    BY <1>0, <2>2 DEF ProcStep, Boot, Wake, Tick, Stop, Crash
  <2>3. ASSUME NEW p \in Procs, RelayStep(p) PROVE UNCHANGED call
    BY <2>3 DEF RelayStep, Claim, ClaimFails, NoSender, SendOK, SendFails, Process,
                MarkSent, MarkUnroutable, MarkFailed, RecordFailure, GetAttempts,
                MarkDLQ, PublishDLQ, FinishBatch
  <2>4. CASE UNCHANGED vars
    BY <2>4 DEF vars
  <2>5. QED
    BY <2>1, <2>2, <2>3, <2>4 DEF Next, ProcStep
<1>4. QED
  BY <1>1, <1>2, <1>3

\* A Send answers without an error only when the row of its message is in the
\* table, through Enqueue or the fallback Insert, and the row never leaves it.
THEOREM AckedSendsAreQueued == Spec => []AckedSendIsQueued
<1>1. Init => AckedSendIsQueued
  BY DEF Init, AckedSendIsQueued
<1>2. QED
  BY <1>1, InitTypeInv, NextTypeInv, AckedStep, PTL DEF Spec

-----------------------------------------------------------------------------
(* The outbox implements the durable queue: each statement is a step of the *)
(* queue on the entries of one message, or a stuttering step.               *)

\* The entries mirror the rows one by one.
LEMMA EntriesOf ==
  ASSUME rows \in Seq(Row)
  PROVE  /\ Entries \in Seq([msg : Messages, state : {"queued", "sent", "dead"}])
         /\ Len(Entries) = Len(rows)
         /\ DOMAIN Entries = DOMAIN rows
         /\ \A k \in DOMAIN rows :
              Entries[k] = [msg |-> rows[k].msg, state |-> StateOf[rows[k].status]]
<1>1. \A k \in DOMAIN rows : rows[k].msg \in Messages /\ rows[k].status \in Status
  <2>1. \A k \in DOMAIN rows : rows[k] \in Row
    OBVIOUS
  <2>2. QED
    BY <2>1 DEF Row
<1>2. \A s \in Status : StateOf[s] \in {"queued", "sent", "dead"}
  BY DEF StateOf, Status
<1>3. Entries = [k \in 1 .. Len(rows) |->
                   [msg |-> rows[k].msg, state |-> StateOf[rows[k].status]]]
  BY DEF Entries
<1>4. \A k \in 1 .. Len(rows) :
        [msg |-> rows[k].msg, state |-> StateOf[rows[k].status]]
          \in [msg : Messages, state : {"queued", "sent", "dead"}]
  BY <1>1, <1>2
<1>5. QED
  BY <1>3, <1>4

\* An insert is an Accept of the queue.
LEMMA InsertAccepts ==
  ASSUME rows \in Seq(Row), NEW m \in Messages, InsertRow(m)
  PROVE  Entries' = Append(Entries, [msg |-> m, state |-> "queued"])
<1>1. rows' = Append(rows, NewRow(m)) /\ rows' \in Seq(Row)
  BY InsertRowRows DEF InsertRow
<1>2. NewRow(m).msg = m /\ StateOf[NewRow(m).status] = "queued"
  BY DEF NewRow, StateOf, Status
<1>3. Len(rows') = Len(rows) + 1
  BY <1>1
<1>4. Entries' = [k \in 1 .. Len(rows) + 1 |->
                    [msg |-> rows'[k].msg, state |-> StateOf[rows'[k].status]]]
  BY <1>1, <1>3 DEF Entries
<1>5. \A k \in 1 .. Len(rows) + 1 :
        [msg |-> rows'[k].msg, state |-> StateOf[rows'[k].status]]
          = IF k = Len(rows) + 1 THEN [msg |-> m, state |-> "queued"] ELSE Entries[k]
  BY <1>1, <1>2, InsertRowRows, EntriesOf
<1>6. Append(Entries, [msg |-> m, state |-> "queued"])
        = [k \in 1 .. Len(rows) + 1 |->
             IF k = Len(rows) + 1 THEN [msg |-> m, state |-> "queued"] ELSE Entries[k]]
  BY EntriesOf
<1>7. QED
  BY <1>4, <1>5, <1>6

\* A mark settles the queued entries of its message.
LEMMA SetStatusSettles ==
  ASSUME rows \in Seq(Row), NEW m \in Messages, NEW s \in {"sent", "dlq"},
         SetStatus(m, {"pending"}, s) \/ SetStatus(m, {"pending", s}, s)
  PROVE  Entries' = Queue!Settled(m, StateOf[s])
<1>0. s \in Status /\ \A k \in DOMAIN rows : rows[k].status \in Status
  <2>1. \A k \in DOMAIN rows : rows[k] \in Row
    OBVIOUS
  <2>2. QED
    BY <2>1 DEF Row, Status
<1>1. /\ DOMAIN rows' = DOMAIN rows
      /\ \A k \in DOMAIN rows :
           /\ rows'[k].msg = rows[k].msg
           /\ rows'[k].status = IF rows[k].msg = m /\ rows[k].status = "pending"
                                THEN s ELSE rows[k].status
  BY <1>0, SetStatusRows
<1>2. \A k \in DOMAIN rows : StateOf[rows[k].status] = "queued" <=> rows[k].status = "pending"
  BY <1>0 DEF StateOf, Status
<1>3. Entries' = [k \in DOMAIN rows |->
                    [msg |-> rows'[k].msg, state |-> StateOf[rows'[k].status]]]
  BY <1>1 DEF Entries
<1>4. \A k \in DOMAIN rows :
        [msg |-> rows'[k].msg, state |-> StateOf[rows'[k].status]]
          = IF Entries[k].msg = m /\ Entries[k].state = "queued"
            THEN [msg |-> m, state |-> StateOf[s]] ELSE Entries[k]
  BY <1>1, <1>2, EntriesOf
<1>5. QED
  BY <1>3, <1>4, EntriesOf DEF Queue!Settled

\* Counting an attempt is invisible to the queue.
LEMMA BumpStutters ==
  ASSUME rows \in Seq(Row), NEW m \in Messages, BumpAttempts(m)
  PROVE  UNCHANGED Entries
  BY BumpAttemptsRows DEF Entries

\* A relay changes the rows or the deliveries, not both.
LEMMA RelayStepQueue ==
  ASSUME MarksInv, NEW p \in Procs, RelayStep(p)
  PROVE  UNCHANGED <<Entries, delivered>> \/ Queue!QNext
<1>0. TypeOK /\ CursorInv /\ rows \in Seq(Row)
  BY DEF MarksInv, TypeInv, TypeOK
<1>1. pc[p] \in Busy => cur[p] \in DOMAIN rows /\ rows[cur[p]].msg \in Messages
  BY <1>0, CurrentMessage
<1>2. CASE UNCHANGED <<rows, delivered>>
  BY <1>2 DEF Entries
<1>3. CASE UNCHANGED rows /\ \E k \in DOMAIN rows : Accepted(rows[k].msg)
  <2>1. PICK k \in DOMAIN rows : Accepted(rows[k].msg)
    BY <1>3
  <2>2. rows[k] \in Row
    BY <1>0, <2>1
  <2>3. rows[k].msg \in Messages /\ k \in DOMAIN Entries /\ Entries[k].msg = rows[k].msg
    BY <1>0, <2>2, EntriesOf DEF Row
  <2>4. Queue!Deliver(rows[k].msg)
    BY <1>3, <2>1, <2>3 DEF Queue!Deliver, Accepted, Entries
  <2>5. QED
    BY <2>3, <2>4 DEF Queue!QNext
<1>4. CASE /\ UNCHANGED delivered /\ pc[p] = "sent"
           /\ SetStatus(rows[cur[p]].msg, {"pending"}, "sent")
  <2>1. rows[cur[p]].msg \in Messages
    BY <1>1, <1>4 DEF Busy
  <2>2. delivered[rows[cur[p]].msg] > 0
    BY <1>4 DEF MarksInv, ConfirmedInv
  <2>3. Entries' = Queue!Settled(rows[cur[p]].msg, "sent")
    BY <1>0, <1>4, <2>1, SetStatusSettles DEF StateOf, Status
  <2>4. Queue!Confirm(rows[cur[p]].msg)
    BY <1>4, <2>2, <2>3 DEF Queue!Confirm
  <2>5. QED
    BY <2>1, <2>4 DEF Queue!QNext
<1>5. CASE /\ UNCHANGED delivered /\ pc[p] \in {"unroutable", "failed"}
           /\ BumpAttempts(rows[cur[p]].msg)
  <2>1. rows[cur[p]].msg \in Messages
    BY <1>1, <1>5 DEF Busy
  <2>2. QED
    BY <1>0, <1>5, <2>1, BumpStutters
<1>6. CASE /\ UNCHANGED delivered /\ pc[p] = "dlq"
           /\ SetStatus(rows[cur[p]].msg, {"pending", "dlq"}, "dlq")
  <2>1. rows[cur[p]].msg \in Messages
    BY <1>1, <1>6 DEF Busy
  <2>2. Entries' = Queue!Settled(rows[cur[p]].msg, "dead")
    BY <1>0, <1>6, <2>1, SetStatusSettles DEF StateOf, Status
  <2>3. Queue!Bury(rows[cur[p]].msg)
    BY <1>6, <2>2 DEF Queue!Bury
  <2>4. QED
    BY <2>1, <2>3 DEF Queue!QNext
<1>7. \/ UNCHANGED delivered
      \/ UNCHANGED rows /\ \E k \in DOMAIN rows : Accepted(rows[k].msg)
  <2>1. CASE SendOK(p) \/ SendFails(p)
    BY <1>0, <2>1 DEF SendOK, SendFails, Process, CursorInv
  <2>2. CASE ~(SendOK(p) \/ SendFails(p))
    BY <2>2 DEF RelayStep, Claim, ClaimFails, NoSender, MarkSent, MarkUnroutable,
                MarkFailed, RecordFailure, GetAttempts, MarkDLQ, PublishDLQ,
                FinishBatch, tables
  <2>3. QED
    BY <2>1, <2>2
<1>8. QED
  BY <1>2, <1>3, <1>4, <1>5, <1>6, <1>7, RelayStepStatements

\* Every step is a step of the queue or a stutter.
LEMMA NextImplementsQueue ==
  ASSUME MarksInv, [Next]_vars
  PROVE  [Queue!QNext]_(Queue!qvars)
<1>0. TypeOK /\ rows \in Seq(Row)
  BY DEF MarksInv, TypeInv, TypeOK
<1> SUFFICES UNCHANGED <<Entries, delivered>> \/ Queue!QNext
  BY DEF Queue!qvars
<1>1. ASSUME NEW m \in Messages, CallStep(m)
      PROVE  UNCHANGED <<Entries, delivered>> \/ Queue!QNext
  <2>1. UNCHANGED delivered /\ (UNCHANGED rows \/ InsertRow(m))
    BY <1>1 DEF CallStep, PersistMessage, Enqueue, InsertFallback, Notify, Ingest,
                StatementFails, tables
  <2>2. CASE InsertRow(m)
    <3>1. Queue!Accept(m)
      BY <1>0, <2>1, <2>2, InsertAccepts DEF Queue!Accept
    <3>2. QED
      BY <3>1 DEF Queue!QNext
  <2>3. QED
    BY <2>1, <2>2 DEF Entries
<1>2. ASSUME NEW p \in Procs, ProcStep(p)
      PROVE  UNCHANGED <<Entries, delivered>>
  BY <1>2, ProcStepRows DEF Entries, tables
<1>3. ASSUME NEW p \in Procs, RelayStep(p)
      PROVE  UNCHANGED <<Entries, delivered>> \/ Queue!QNext
  BY <1>3, RelayStepQueue
<1>4. CASE UNCHANGED vars
  BY <1>4 DEF vars, Entries
<1>5. QED
  BY <1>1, <1>2, <1>3, <1>4 DEF Next, ProcStep

\* The outbox is a durable queue: entries are never lost, reordered or
\* reopened, and only a delivered message is confirmed.
THEOREM OutboxIsDurableQueue == Spec => ImplementsQueue
<1>1. Init => Queue!QInit
  BY DEF Init, Queue!QInit, Entries
<1>2. QED
  BY <1>1, InitMarksInv, NextMarksInv, NextImplementsQueue, PTL
  DEF Spec, ImplementsQueue, Queue!QSpec

-----------------------------------------------------------------------------
(* The signal: why a relay may wait.                                       *)

Fresh(k) == Pending(k) /\ rows[k].attempts = 0

\* What makes the relay of process p come to row k: a signal, a drain that has
\* still to claim, the row in its hands, or a batch that is full.
ComesTo(p, k) ==
  \/ signal[p] \/ pc[p] \in {"down", "drain"}
  \/ pc[p] \in {"sent", "unroutable", "failed"} /\ rows[cur[p]].msg = rows[k].msg
  \/ (k \in batch[p] \/ full[p]) /\ pc[p] \in {"next"} \cup Busy

SignalInv ==
  faults = 0 => \A m \in Messages : Entry[m] = "send" /\ call[m] = "acked" =>
    \A k \in DOMAIN rows : rows[k].msg = m /\ Fresh(k) => ComesTo(Host[m], k)

-----------------------------------------------------------------------------
(* The announcements: one process, and no statement applied that failed.   *)

OneRelay == AckLoss = FALSE /\ \A p, q \in Procs : p = q

\* Nothing was inserted for a call that has still to insert, so a message has
\* one row, and a relay is the only one to change the rows it holds.
SingleInv ==
  /\ \A m \in Messages : call[m] \in {"none", "persisted", "fallback"} => ~HasRow(m)
  /\ \A j, k \in DOMAIN rows : rows[j].msg = rows[k].msg => j = k
  /\ \A p \in Procs :
       /\ \A k \in batch[p] : Pending(k)
       /\ pc[p] \in Busy => cur[p] \notin batch[p]
       /\ pc[p] \in Busy \ {"publish"} => Pending(cur[p])
       /\ pc[p] = "publish" => rows[cur[p]].status = "dlq"

SingleTypes == TypeInv /\ SingleInv /\ OneRelay

\* Steps that keep the messages of the rows and the calls keep the first half
\* of the invariant.
LEMMA SameMessages ==
  ASSUME SingleInv, UNCHANGED call, DOMAIN rows' = DOMAIN rows,
         \A k \in DOMAIN rows : rows'[k].msg = rows[k].msg
  PROVE  /\ \A m \in Messages : call'[m] \in {"none", "persisted", "fallback"} => ~HasRow(m)'
         /\ \A j, k \in DOMAIN rows' : rows'[j].msg = rows'[k].msg => j = k
BY DEF SingleInv, HasRow

LEMMA CallStepSingle ==
  ASSUME SingleTypes, NEW m \in Messages, CallStep(m)
  PROVE  SingleInv'
<1> DEFINE Early == {"none", "persisted", "fallback"}
<1>0. /\ rows \in Seq(Row) /\ call \in [Messages -> CallState] /\ CursorInv
      /\ AckLoss = FALSE /\ SingleInv
  BY DEF SingleTypes, TypeInv, TypeOK, OneRelay
<1>1. UNCHANGED <<pc, batch, cur>>
  BY DEF CallStep, PersistMessage, Enqueue, InsertFallback, Notify, Ingest, relayVars
<1>2. PICK s : GoTo(m, s) /\ \/ UNCHANGED rows /\ (call[m] \in Early \/ s \notin Early)
                             \/ InsertRow(m) /\ call[m] \in Early /\ s \notin Early
  BY <1>0 DEF CallStep, PersistMessage, Enqueue, InsertFallback, Notify, Ingest,
     StatementFails, tables
<1>3. \A n \in Messages \ {m} : call'[n] = call[n]
  BY <1>0, <1>2 DEF GoTo
<1>4. call'[m] = s
  BY <1>0, <1>2 DEF GoTo
<1>5. CASE UNCHANGED rows /\ (call[m] \in Early \/ s \notin Early)
  <2>1. \A n \in Messages : call'[n] \in Early => call[n] \in Early
    BY <1>3, <1>4, <1>5
  <2>2. \A n \in Messages : call'[n] \in Early => ~HasRow(n)'
    BY <1>0, <1>5, <2>1 DEF SingleInv, HasRow
  <2>3. \A j, k \in DOMAIN rows' : rows'[j].msg = rows'[k].msg => j = k
    BY <1>0, <1>5 DEF SingleInv
  <2>. QED
    BY <1>0, <1>1, <1>5, <2>2, <2>3 DEF SingleInv, Pending
<1>6. CASE InsertRow(m) /\ call[m] \in Early /\ s \notin Early
  <2>1. /\ DOMAIN rows' = DOMAIN rows \cup {Len(rows) + 1} /\ Len(rows) + 1 \notin DOMAIN rows
        /\ \A k \in DOMAIN rows : rows'[k] = rows[k]
        /\ rows'[Len(rows) + 1].msg = m
    <3>1. NewRow(m).msg = m
      BY DEF NewRow
    <3>. QED
      BY <1>0, <1>6, <3>1, InsertRowRows
  <2>2. \A k \in DOMAIN rows : rows[k].msg # m
    BY <1>0, <1>6 DEF SingleInv, HasRow
  <2>3. \A n \in Messages : call'[n] \in Early => ~HasRow(n)'
    BY <1>0, <1>3, <1>4, <1>6, <2>1 DEF SingleInv, HasRow
  <2>4. \A j, k \in DOMAIN rows' : rows'[j].msg = rows'[k].msg => j = k
    BY <1>0, <2>1, <2>2 DEF SingleInv
  <2>5. \A p \in Procs : /\ \A k \in batch[p] : k \in DOMAIN rows
                         /\ pc[p] \in Busy => cur[p] \in DOMAIN rows
    BY <1>0 DEF CursorInv
  <2>6. "publish" \in Busy
    BY DEF Busy
  <2>. QED
    BY <1>0, <1>1, <2>1, <2>3, <2>4, <2>5, <2>6 DEF SingleInv, Pending
<1>. QED
  BY <1>2, <1>5, <1>6

\* The life of a process lets its batch be or forgets it.
LEMMA ProcStepSingle ==
  ASSUME SingleTypes, NEW p \in Procs, ProcStep(p)
  PROVE  SingleInv'
<1>0. /\ call \in [Messages -> CallState] /\ batch \in [Procs -> SUBSET Nat]
      /\ pc \in [Procs -> PC] /\ \A q \in Procs : q = p /\ SingleInv
  BY DEF SingleTypes, TypeInv, TypeOK, OneRelay
<1>1. UNCHANGED rows
  BY ProcStepRows DEF tables
<1>2. \A m \in Messages : call'[m] \in {"none", "persisted", "fallback"} => call'[m] = call[m]
  BY <1>0 DEF ProcStep, Boot, Wake, Tick, Stop, Crash
<1>3. pc'[p] \notin Busy
  BY <1>0 DEF ProcStep, Boot, Wake, Tick, Stop, Crash, Jump, Busy
<1>4. batch'[p] = batch[p] \/ batch'[p] = {}
  BY <1>0 DEF ProcStep, Boot, Wake, Tick, Stop, Crash
<1>5. "publish" \in Busy
  BY DEF Busy
<1>. QED
  BY <1>0, <1>1, <1>2, <1>3, <1>4, <1>5 DEF SingleInv, HasRow, Pending

LEMMA RelayStepSingle ==
  ASSUME SingleTypes, NEW p \in Procs, RelayStep(p)
  PROVE  SingleInv'
<1>0. /\ rows \in Seq(Row) /\ batch \in [Procs -> SUBSET Nat] /\ pc \in [Procs -> PC]
      /\ cur \in [Procs -> Nat] /\ \A q \in Procs : q = p
      /\ AckLoss = FALSE /\ CursorInv /\ SingleInv /\ TypeOK
  BY DEF SingleTypes, TypeInv, TypeOK, OneRelay
<1>1. /\ \A k \in batch[p] : Pending(k) /\ k \in DOMAIN rows
      /\ pc[p] \in Busy => cur[p] \notin batch[p]
      /\ pc[p] \in Busy \ {"publish"} => Pending(cur[p])
      /\ \A j, k \in DOMAIN rows : rows[j].msg = rows[k].msg => j = k
  BY <1>0 DEF SingleInv, CursorInv
<1>2. pc[p] \in Busy => cur[p] \in DOMAIN rows /\ rows[cur[p]].msg \in Messages
  BY <1>0, CurrentMessage
<1>3. UNCHANGED call
  BY DEF RelayStep, Claim, ClaimFails, NoSender, SendOK, SendFails, MarkSent, MarkUnroutable,
     MarkFailed, RecordFailure, GetAttempts, MarkDLQ, PublishDLQ, FinishBatch, Process
<1> DEFINE Good ==
      /\ \A k \in batch'[p] : Pending(k)'
      /\ pc'[p] \in Busy => cur'[p] \notin batch'[p]
      /\ pc'[p] \in Busy \ {"publish"} => rows'[cur'[p]].status = "pending"
      /\ pc'[p] = "publish" => rows'[cur'[p]].status = "dlq"
<1>4. ASSUME UNCHANGED rows, Good
      PROVE  SingleInv'
  BY <1>0, <1>3, <1>4, SameMessages DEF SingleInv, Pending
<1>5. CASE Claim(p)
  BY <1>0, <1>4, <1>5 DEF Claim, Claimable, Jump, Busy, Pending, tables
<1>6. CASE ClaimFails(p) \/ PublishDLQ(p) \/ FinishBatch(p)
  BY <1>0, <1>1, <1>4, <1>6 DEF ClaimFails, PublishDLQ, FinishBatch, Continue, Jump, Busy,
     Pending, tables
<1>7. CASE NoSender(p) \/ SendOK(p) \/ SendFails(p)
  <2>1. PICK k \in batch[p], l \in {"unroutable", "sent", "failed"} : Process(p, k, l)
    BY <1>7 DEF NoSender, SendOK, SendFails
  <2>. QED
    BY <1>0, <1>1, <1>4, <2>1 DEF Process, Jump, Busy, Pending
<1>8. CASE GetAttempts(p)
  <2>1. /\ pc[p] = "attempts" /\ UNCHANGED <<rows, batch>>
        /\ (pc'[p] = "dlq" /\ cur' = cur) \/ pc'[p] = "next"
    BY <1>0, <1>8 DEF GetAttempts, Continue, Jump, tables
  <2>2. Pending(cur[p]) /\ cur[p] \notin batch[p]
    BY <1>1, <2>1 DEF Busy
  <2>. QED
    BY <1>0, <1>1, <1>4, <2>1, <2>2 DEF Busy, Pending
<1>9. CASE MarkSent(p)
  <2>1. /\ pc[p] = "sent" /\ pc'[p] = "next" /\ UNCHANGED batch
        /\ UNCHANGED rows \/ SetStatus(rows[cur[p]].msg, {"pending"}, "sent")
    BY <1>0, <1>9 DEF MarkSent, Continue, Jump
  <2>2. CASE UNCHANGED rows
    BY <1>0, <1>1, <1>4, <2>1, <2>2 DEF Busy, Pending
  <2>3. CASE SetStatus(rows[cur[p]].msg, {"pending"}, "sent")
    <3>1. cur[p] \in DOMAIN rows /\ rows[cur[p]].msg \in Messages /\ "sent" \in Status
          /\ cur[p] \notin batch[p]
      BY <1>1, <1>2, <2>1 DEF Busy, Status
    <3>2. /\ DOMAIN rows' = DOMAIN rows
          /\ \A k \in DOMAIN rows : /\ rows'[k].msg = rows[k].msg
                                    /\ rows[k].msg # rows[cur[p]].msg
                                         => rows'[k].status = rows[k].status
      BY <1>0, <2>3, <3>1, SetStatusRows
    <3>3. \A k \in batch[p] : rows'[k].status = "pending"
      BY <1>1, <3>1, <3>2 DEF Pending
    <3>. QED
      BY <1>0, <1>3, <2>1, <3>2, <3>3, SameMessages DEF SingleInv, Pending, Busy
  <2>. QED
    BY <2>1, <2>2, <2>3
<1>10. CASE MarkUnroutable(p) \/ MarkFailed(p)
  <2>1. /\ pc[p] \in {"unroutable", "failed"} /\ UNCHANGED batch
        /\ (pc'[p] = "attempts" /\ cur' = cur) \/ pc'[p] = "next"
        /\ UNCHANGED rows \/ BumpAttempts(rows[cur[p]].msg)
    BY <1>0, <1>10 DEF MarkUnroutable, MarkFailed, RecordFailure, Continue, Jump
  <2>2. /\ cur[p] \in DOMAIN rows /\ rows[cur[p]].msg \in Messages
        /\ cur[p] \notin batch[p] /\ Pending(cur[p])
    BY <1>1, <1>2, <2>1 DEF Busy
  <2>3. CASE UNCHANGED rows
    BY <1>0, <1>1, <1>4, <2>1, <2>2, <2>3 DEF Busy, Pending
  <2>4. CASE BumpAttempts(rows[cur[p]].msg)
    <3>1. /\ DOMAIN rows' = DOMAIN rows
          /\ \A k \in DOMAIN rows : /\ rows'[k].msg = rows[k].msg
                                    /\ rows'[k].status = rows[k].status
      BY <1>0, <2>2, <2>4, BumpAttemptsRows
    <3>2. /\ \A k \in batch'[p] : rows'[k].status = "pending"
          /\ cur'[p] \notin batch'[p] \/ pc'[p] = "next"
          /\ rows'[cur'[p]].status = "pending" \/ pc'[p] = "next"
      BY <1>0, <1>1, <2>1, <2>2, <3>1 DEF Pending
    <3>. QED
      BY <1>0, <1>3, <2>1, <3>1, <3>2, SameMessages DEF SingleInv, Pending, Busy
  <2>. QED
    BY <2>1, <2>3, <2>4
<1>11. CASE MarkDLQ(p)
  <2>1. /\ pc[p] = "dlq" /\ UNCHANGED batch
        /\ \/ pc'[p] = "next" /\ UNCHANGED rows
           \/ /\ pc'[p] = "publish" /\ cur' = cur
              /\ SetStatus(rows[cur[p]].msg, {"pending", "dlq"}, "dlq")
    BY <1>0, <1>11 DEF MarkDLQ, StatementFails, Continue, Jump
  <2>2. CASE UNCHANGED rows /\ pc'[p] = "next"
    BY <1>0, <1>1, <1>4, <2>1, <2>2 DEF Busy, Pending
  <2>3. CASE /\ pc'[p] = "publish" /\ cur' = cur
             /\ SetStatus(rows[cur[p]].msg, {"pending", "dlq"}, "dlq")
    <3>1. /\ cur[p] \in DOMAIN rows /\ rows[cur[p]].msg \in Messages /\ "dlq" \in Status
          /\ cur[p] \notin batch[p] /\ Pending(cur[p])
      BY <1>1, <1>2, <2>1 DEF Busy, Status
    <3>2. /\ DOMAIN rows' = DOMAIN rows
          /\ \A k \in DOMAIN rows : /\ rows'[k].msg = rows[k].msg
                                    /\ rows[k].msg # rows[cur[p]].msg
                                         => rows'[k].status = rows[k].status
          /\ rows'[cur[p]].status = "dlq"
      BY <1>0, <2>3, <3>1, SetStatusRows DEF Pending
    <3>3. \A k \in batch[p] : rows'[k].status = "pending"
      BY <1>1, <3>1, <3>2 DEF Pending
    <3>. QED
      BY <1>0, <1>3, <2>1, <2>3, <3>1, <3>2, <3>3, SameMessages DEF SingleInv, Pending, Busy
  <2>. QED
    BY <2>1, <2>2, <2>3
<1>. QED
  BY <1>5, <1>6, <1>7, <1>8, <1>9, <1>10, <1>11 DEF RelayStep

\* The invariant of the announcements.
AnnouncedInv == TypeInv /\ SingleInv /\ AnnouncedIsDead

LEMMA InitAnnouncedInv == Init => AnnouncedInv
<1>1. Init => SingleInv /\ AnnouncedIsDead
  BY DEF Init, SingleInv, AnnouncedIsDead, HasRow, Busy
<1>. QED
  BY <1>1, InitTypeInv DEF AnnouncedInv

\* A dead row stays dead: no statement takes a row out of the DLQ.
LEMMA DeadStays ==
  ASSUME TypeInv, [Next]_vars, NEW k \in DOMAIN rows, rows[k].status = "dlq"
  PROVE  k \in DOMAIN rows' /\ rows'[k].status = "dlq" /\ rows'[k].msg = rows[k].msg
<1>0. TypeOK /\ CursorInv /\ rows \in Seq(Row) /\ RowsEvolve
  BY NextRows DEF TypeInv, TypeOK
<1>1. k \in DOMAIN rows' /\ rows'[k].msg = rows[k].msg
  BY <1>0 DEF RowsEvolve
<1>2. CASE UNCHANGED rows
  BY <1>1, <1>2
<1>3. ASSUME NEW m \in Messages, InsertRow(m)
      PROVE  rows'[k].status = "dlq"
  BY <1>0, <1>3, InsertRowRows
<1>4. ASSUME NEW m \in Messages, BumpAttempts(m)
      PROVE  rows'[k].status = "dlq"
  BY <1>0, <1>4, BumpAttemptsRows
<1>5. ASSUME NEW m \in Messages, SetStatus(m, {"pending"}, "sent")
      PROVE  rows'[k].status = "dlq"
  BY <1>0, <1>5, SetStatusRows DEF Status
<1>6. ASSUME NEW m \in Messages, SetStatus(m, {"pending", "dlq"}, "dlq")
      PROVE  rows'[k].status = "dlq"
  BY <1>0, <1>6, SetStatusRows DEF Status
<1>7. \/ UNCHANGED rows
      \/ \E m \in Messages : \/ InsertRow(m) \/ BumpAttempts(m)
                             \/ SetStatus(m, {"pending"}, "sent")
                             \/ SetStatus(m, {"pending", "dlq"}, "dlq")
  <2>1. ASSUME NEW m \in Messages, CallStep(m) PROVE UNCHANGED rows \/ InsertRow(m)
    BY <2>1 DEF CallStep, PersistMessage, Enqueue, InsertFallback, Notify, Ingest,
       StatementFails, tables
  <2>2. ASSUME NEW p \in Procs, ProcStep(p) PROVE UNCHANGED rows
    BY <2>2, ProcStepRows DEF tables
  <2>3. ASSUME NEW p \in Procs, RelayStep(p)
        PROVE  \/ UNCHANGED rows
               \/ \E m \in Messages : \/ BumpAttempts(m) \/ SetStatus(m, {"pending"}, "sent")
                                      \/ SetStatus(m, {"pending", "dlq"}, "dlq")
    BY <1>0, <2>3, RelayStepStatements, CurrentMessage DEF Busy
  <2>4. CASE UNCHANGED vars
    BY <2>4 DEF vars
  <2>. QED
    BY <2>1, <2>2, <2>3, <2>4 DEF Next, ProcStep
<1>. QED
  BY <1>1, <1>2, <1>3, <1>4, <1>5, <1>6, <1>7

\* A row that was marked sent is not queued again; no statement writes pending.
LEMMA SentStays ==
  ASSUME TypeInv, [Next]_vars, NEW k \in DOMAIN rows, rows[k].status = "sent"
  PROVE  rows'[k].status # "pending"
<1>0. TypeOK /\ CursorInv /\ rows \in Seq(Row)
  BY DEF TypeInv, TypeOK
<1>1. CASE UNCHANGED rows
  BY <1>1
<1>2. ASSUME NEW m \in Messages, InsertRow(m) PROVE rows'[k] = rows[k]
  BY <1>0, <1>2, InsertRowRows
<1>3. ASSUME NEW m \in Messages, BumpAttempts(m) PROVE rows'[k].status = "sent"
  BY <1>0, <1>3, BumpAttemptsRows
<1>4. ASSUME NEW m \in Messages, NEW from, NEW s \in {"sent", "dlq"}, SetStatus(m, from, s)
      PROVE  rows'[k].status # "pending"
  <2>1. s \in Status
    BY DEF Status
  <2>. QED
    BY <1>0, <1>4, <2>1, SetStatusRows
<1>5. \/ UNCHANGED rows
      \/ \E m \in Messages : \/ InsertRow(m) \/ BumpAttempts(m)
                             \/ \E from : \E s \in {"sent", "dlq"} : SetStatus(m, from, s)
  <2>1. ASSUME NEW m \in Messages, CallStep(m) PROVE UNCHANGED rows \/ InsertRow(m)
    BY <2>1 DEF CallStep, PersistMessage, Enqueue, InsertFallback, Notify, Ingest,
       StatementFails, tables
  <2>2. ASSUME NEW p \in Procs, ProcStep(p) PROVE UNCHANGED rows
    BY <2>2, ProcStepRows DEF tables
  <2>3. ASSUME NEW p \in Procs, RelayStep(p)
        PROVE  \/ UNCHANGED rows
               \/ \E m \in Messages : \/ BumpAttempts(m)
                                      \/ \E from : \E s \in {"sent", "dlq"} : SetStatus(m, from, s)
    BY <1>0, <2>3, RelayStepStatements, CurrentMessage DEF Busy
  <2>4. CASE UNCHANGED vars
    BY <2>4 DEF vars
  <2>. QED
    BY <2>1, <2>2, <2>3, <2>4 DEF Next, ProcStep
<1>. QED
  BY <1>1, <1>2, <1>3, <1>4, <1>5

\* Only PublishDLQ announces.
LEMMA OnlyPublishAnnounces ==
  ASSUME [Next]_vars, NEW m \in dlqEvents', m \notin dlqEvents
  PROVE  \E p \in Procs : PublishDLQ(p)
<1>1. ASSUME NEW n \in Messages, CallStep(n) PROVE UNCHANGED dlqEvents
  BY <1>1 DEF CallStep, PersistMessage, Enqueue, InsertFallback, Notify, Ingest, tables
<1>2. ASSUME NEW p \in Procs, ProcStep(p) PROVE UNCHANGED dlqEvents
  BY <1>2, ProcStepRows DEF tables
<1>3. ASSUME NEW p \in Procs, RelayStep(p) PROVE UNCHANGED dlqEvents \/ PublishDLQ(p)
  BY <1>3 DEF RelayStep, Claim, ClaimFails, NoSender, SendOK, SendFails, MarkSent,
     MarkUnroutable, MarkFailed, RecordFailure, GetAttempts, MarkDLQ, FinishBatch,
     Process, tables
<1>4. CASE UNCHANGED vars
  BY <1>4 DEF vars
<1>. QED
  BY <1>1, <1>2, <1>3, <1>4 DEF Next, ProcStep

\* PublishDLQ announces the message its relay buried.
LEMMA AnnouncedStep ==
  ASSUME AnnouncedInv, [Next]_vars
  PROVE  AnnouncedIsDead'
<1> SUFFICES ASSUME NEW m \in dlqEvents'
             PROVE  \E k \in DOMAIN rows' : rows'[k].msg = m /\ rows'[k].status = "dlq"
  BY DEF AnnouncedIsDead
<1>0. TypeInv /\ SingleInv /\ AnnouncedIsDead
  BY DEF AnnouncedInv
<1>1. \E k \in DOMAIN rows : rows[k].msg = m /\ rows[k].status = "dlq"
  <2>1. CASE m \in dlqEvents
    BY <1>0, <2>1 DEF AnnouncedIsDead
  <2>2. ASSUME NEW p \in Procs, PublishDLQ(p), m \notin dlqEvents
        PROVE  \E k \in DOMAIN rows : rows[k].msg = m /\ rows[k].status = "dlq"
    <3>1. m = rows[cur[p]].msg /\ pc[p] = "publish"
      BY <2>2 DEF PublishDLQ
    <3>2. cur[p] \in DOMAIN rows /\ rows[cur[p]].status = "dlq"
      BY <1>0, <3>1 DEF TypeInv, CursorInv, SingleInv, Busy
    <3>. QED
      BY <3>1, <3>2
  <2>3. m \notin dlqEvents => \E p \in Procs : PublishDLQ(p)
    BY OnlyPublishAnnounces
  <2>. QED
    BY <2>1, <2>2, <2>3
<1>. QED
  BY <1>0, <1>1, DeadStays

LEMMA NextAnnouncedInv ==
  ASSUME OneRelay, AnnouncedInv, [Next]_vars
  PROVE  AnnouncedInv'
<1>0. SingleTypes
  BY DEF AnnouncedInv, SingleTypes
<1>1. TypeInv'
  BY NextTypeInv DEF AnnouncedInv
<1>2. SingleInv'
  <2>1. CASE UNCHANGED vars
    BY <1>0, <2>1 DEF vars, SingleTypes, SingleInv, HasRow, Pending
  <2>. QED
    BY <1>0, <2>1, CallStepSingle, ProcStepSingle, RelayStepSingle DEF Next, ProcStep
<1>. QED
  BY <1>1, <1>2, AnnouncedStep DEF AnnouncedInv

\* In the design's single process, and while a statement that fails has no
\* effect, every message announced on the dlq topic is dead in the table.
THEOREM AnnouncementsAreTrue == OneRelay => (Spec => []AnnouncedIsDead)
<1> SUFFICES ASSUME OneRelay PROVE Spec => []AnnouncedIsDead
  OBVIOUS
<1>1. AnnouncedInv /\ [Next]_vars => AnnouncedInv'
  BY NextAnnouncedInv
<1>2. AnnouncedInv => AnnouncedIsDead
  BY DEF AnnouncedInv
<1>. QED
  BY <1>1, <1>2, InitAnnouncedInv, PTL DEF Spec

-----------------------------------------------------------------------------
(* What an announcement means with any number of relays and lost answers.  *)

\* A message that is announced was not announced for nothing: its failures were
\* counted, and one of its rows is out of the queue.
Buried(m) == Exhausted(m) /\ \E k \in DOMAIN rows : rows[k].msg = m /\ ~Pending(k)
AnnouncedIsSettled == \A m \in dlqEvents : Buried(m)

\* A relay at PublishDLQ has buried the message it works on.
BuriedInv == \A p \in Procs : pc[p] = "publish" => Buried(rows[cur[p]].msg)

SettledInv == MarksInv /\ BuriedInv /\ AnnouncedIsSettled

\* A buried message stays buried.
LEMMA BuriedStays ==
  ASSUME TypeInv, [Next]_vars, NEW m, Buried(m) PROVE Buried(m)'
<1>1. RowsEvolve
  BY NextRows
<1>2. PICK k \in DOMAIN rows : rows[k].msg = m /\ ~Pending(k)
  BY DEF Buried
<1>3. rows[k] \in Row /\ k \in DOMAIN rows' /\ rows'[k].msg = m
  BY <1>1, <1>2 DEF RowsEvolve, TypeInv, TypeOK
<1>4. rows'[k].status # "pending"
  BY <1>2, <1>3, DeadStays, SentStays DEF Pending, Row, Status
<1>5. Exhausted(m)'
  BY ExhaustedStays DEF Buried
<1>. QED
  BY <1>3, <1>4, <1>5 DEF Buried, Pending

\* A relay comes to PublishDLQ from a MarkDLQ that answered.
LEMMA BuriedStep ==
  ASSUME MarksInv, BuriedInv, [Next]_vars PROVE BuriedInv'
<1> SUFFICES ASSUME NEW q \in Procs, pc'[q] = "publish"
             PROVE  Buried(rows[cur[q]].msg)'
  BY DEF BuriedInv
<1>0. /\ TypeInv /\ TypeOK /\ CursorInv /\ RowsEvolve /\ rows \in Seq(Row)
      /\ pc \in [Procs -> PC] /\ cur \in [Procs -> Nat]
  BY NextRows DEF MarksInv, TypeInv, TypeOK
<1>1. pc[q] \in {"dlq", "publish"} /\ cur'[q] = cur[q] /\ (pc[q] = "publish" \/ MarkDLQ(q))
  <2>1. ASSUME NEW m \in Messages, CallStep(m) PROVE UNCHANGED <<pc, cur>>
    BY <2>1 DEF CallStep, PersistMessage, Enqueue, InsertFallback, Notify, Ingest, relayVars
  <2>2. ASSUME NEW p \in Procs, ProcStep(p)
        PROVE  pc[q] = "publish" /\ cur'[q] = cur[q]
    BY <1>0, <2>2 DEF ProcStep, Boot, Wake, Tick, Stop, Crash, Jump
  <2>3. ASSUME NEW p \in Procs, RelayStep(p), p # q
        PROVE  pc'[q] = pc[q] /\ cur'[q] = cur[q]
    BY <1>0, <2>3 DEF RelayStep, Claim, ClaimFails, NoSender, SendOK, SendFails,
       MarkSent, MarkUnroutable, MarkFailed, RecordFailure, GetAttempts, MarkDLQ,
       PublishDLQ, FinishBatch, Process, Jump, Continue
  <2>4. ASSUME RelayStep(q) PROVE MarkDLQ(q)
    BY <1>0, <2>4 DEF RelayStep, Claim, ClaimFails, NoSender, SendOK, SendFails,
       MarkSent, MarkUnroutable, MarkFailed, RecordFailure, GetAttempts,
       PublishDLQ, FinishBatch, Process, Jump, Continue
  <2>5. ASSUME MarkDLQ(q) PROVE pc[q] = "dlq" /\ cur'[q] = cur[q]
    BY <1>0, <2>5 DEF MarkDLQ, Jump, Continue
  <2>6. CASE UNCHANGED vars
    BY <2>6 DEF vars
  <2>. QED
    BY <2>1, <2>2, <2>3, <2>4, <2>5, <2>6 DEF Next, ProcStep
<1>2. PICK m : m = rows[cur[q]].msg
  OBVIOUS
<1>3. cur[q] \in DOMAIN rows /\ m \in Messages
  BY <1>0, <1>1, <1>2, CurrentMessage DEF Busy
<1>4. cur'[q] \in DOMAIN rows' /\ rows'[cur'[q]].msg = m
  BY <1>0, <1>1, <1>2, <1>3 DEF RowsEvolve
<1>5. Buried(m)'
  <2>1. CASE pc[q] = "publish"
    BY <1>0, <1>2, <2>1, BuriedStays DEF BuriedInv
  <2>2. CASE MarkDLQ(q)
    <3>1. Exhausted(m)'
      <4>1. Exhausted(m)
        BY <1>2, <2>2 DEF MarkDLQ, MarksInv, ExhaustedInv
      <4>. QED
        BY <1>0, <4>1, ExhaustedStays
    <3>2. SetStatus(m, {"pending", "dlq"}, "dlq")
      BY <1>0, <1>2, <2>2 DEF MarkDLQ, Jump, Continue
    <3>3. rows'[cur[q]].status # "pending"
      <4>1. "dlq" \in Status
        BY DEF Status
      <4>2. rows'[cur[q]].status =
              IF rows[cur[q]].status \in {"pending", "dlq"} THEN "dlq" ELSE rows[cur[q]].status
        BY <1>0, <1>2, <1>3, <3>2, <4>1, SetStatusRows
      <4>. QED
        BY <4>2
    <3>. QED
      BY <1>1, <1>4, <3>1, <3>3 DEF Buried, Pending
  <2>. QED
    BY <1>1, <2>1, <2>2
<1>. QED
  BY <1>4, <1>5

\* PublishDLQ announces what its relay has buried; nothing digs it up.
LEMMA SettledStep ==
  ASSUME SettledInv, [Next]_vars PROVE AnnouncedIsSettled'
<1> SUFFICES ASSUME NEW m, m \in dlqEvents' PROVE Buried(m)'
  BY DEF AnnouncedIsSettled
<1>0. TypeInv /\ BuriedInv /\ AnnouncedIsSettled
  BY DEF SettledInv, MarksInv
<1>1. Buried(m)
  <2>1. CASE m \in dlqEvents
    BY <1>0, <2>1 DEF AnnouncedIsSettled
  <2>2. CASE m \notin dlqEvents
    <3>1. PICK p \in Procs : PublishDLQ(p)
      BY <2>2, OnlyPublishAnnounces
    <3>2. m = rows[cur[p]].msg /\ pc[p] = "publish"
      BY <2>2, <3>1 DEF PublishDLQ
    <3>. QED
      BY <1>0, <3>2 DEF BuriedInv
  <2>. QED
    BY <2>1, <2>2
<1>. QED
  BY <1>0, <1>1, BuriedStays

\* Whatever the number of relays, and even when a statement whose answer was lost
\* has taken effect, a message announced on the dlq topic has MaxAttempts failures
\* recorded and a row no relay will claim again (relay.go handleSendError:
\* GetAttempts, MarkDLQ, PublishDLQ).
THEOREM AnnouncementsAreSettled == Spec => []AnnouncedIsSettled
<1>1. Init => SettledInv
  <2>1. Init => BuriedInv /\ AnnouncedIsSettled
    BY DEF Init, BuriedInv, AnnouncedIsSettled
  <2>. QED
    BY <2>1, InitMarksInv DEF SettledInv
<1>2. SettledInv /\ [Next]_vars => SettledInv'
  BY NextMarksInv, BuriedStep, SettledStep DEF SettledInv
<1>3. SettledInv => AnnouncedIsSettled
  BY DEF SettledInv
<1>. QED
  BY <1>1, <1>2, <1>3, PTL DEF Spec

-----------------------------------------------------------------------------
(* A batch that leaves a pending row behind is full.                       *)

PendingRows == {j \in DOMAIN rows : Pending(j)}
Before(j) == {i \in PendingRows : i < j}
Rank == [j \in PendingRows |-> Cardinality(Before(j))]

\* The rows before a row, counted.
LEMMA RankFacts ==
  ASSUME rows \in Seq(Row)
  PROVE  /\ IsFiniteSet(PendingRows) /\ Cardinality(PendingRows) \in Nat
         /\ Rank \in Injection(PendingRows, 0 .. Cardinality(PendingRows) - 1)
<1>1. DOMAIN rows = 1 .. Len(rows) /\ Len(rows) \in Nat
  OBVIOUS
<1>2. IsFiniteSet(DOMAIN rows)
  BY <1>1, FS_Interval
<1>3. IsFiniteSet(PendingRows) /\ Cardinality(PendingRows) \in Nat
  BY <1>2, FS_Subset, FS_CardinalityType DEF PendingRows
<1>4. \A j \in PendingRows : IsFiniteSet(Before(j)) /\ Cardinality(Before(j)) \in Nat
  <2>1. \A j \in PendingRows : Before(j) \subseteq PendingRows
    BY DEF Before
  <2>. QED
    BY <1>3, <2>1, FS_Subset, FS_CardinalityType
<1>5. PendingRows \subseteq Nat
  BY <1>1 DEF PendingRows
<1>6. ASSUME NEW j \in PendingRows
      PROVE  Cardinality(Before(j) \cup {j}) = Cardinality(Before(j)) + 1
  <2>1. j \notin Before(j)
    BY <1>5 DEF Before
  <2>. QED
    BY <1>4, <2>1, FS_AddElement
<1>7. ASSUME NEW j \in PendingRows
      PROVE  Cardinality(Before(j)) \in 0 .. Cardinality(PendingRows) - 1
  <2>1. Before(j) \cup {j} \subseteq PendingRows
    BY DEF Before
  <2>2. Cardinality(Before(j) \cup {j}) <= Cardinality(PendingRows)
    BY <1>3, <2>1, FS_Subset
  <2>. QED
    BY <1>3, <1>4, <1>6, <2>2
<1>8. ASSUME NEW j \in PendingRows, NEW l \in PendingRows, j < l
      PROVE  Cardinality(Before(j)) < Cardinality(Before(l))
  <2>0. \A a, b, c \in Nat : a < b /\ b < c => a < c
    OBVIOUS
  <2>1. Before(j) \cup {j} \subseteq Before(l)
    BY <1>5, <1>8, <2>0 DEF Before
  <2>2. Cardinality(Before(j) \cup {j}) <= Cardinality(Before(l))
    BY <1>4, <2>1, FS_Subset
  <2>. QED
    BY <1>4, <1>6, <2>2
<1>9. \A j \in PendingRows : Rank[j] = Cardinality(Before(j))
  BY DEF Rank
<1>10. Rank \in [PendingRows -> 0 .. Cardinality(PendingRows) - 1]
  BY <1>7 DEF Rank
<1>11. \A j, l \in PendingRows : Rank[j] = Rank[l] => j = l
  <2> SUFFICES ASSUME NEW j \in PendingRows, NEW l \in PendingRows, Rank[j] = Rank[l], j # l
               PROVE  FALSE
    OBVIOUS
  <2>1. j < l \/ l < j
    BY <1>5
  <2>. QED
    BY <1>4, <1>8, <1>9, <2>1
<1>. QED
  BY <1>3, <1>10, <1>11 DEF Injection, IsInjective

LEMMA FullClaim ==
  ASSUME rows \in Seq(Row), NEW k \in DOMAIN rows, Pending(k), k \notin Claimable
  PROVE  Cardinality(Claimable) = BatchSize
<1>0. PICK n \in Nat : n = Cardinality(PendingRows)
  BY RankFacts
<1>a. BatchSize \in Nat \ {0} /\ IsFiniteSet(PendingRows)
  BY ConstantsAssumption, RankFacts
<1>b. Rank \in Injection(PendingRows, 0 .. n - 1)
  BY <1>0, RankFacts
<1>1. Claimable = {j \in PendingRows : Rank[j] < BatchSize}
  BY DEF Claimable, PendingRows, Rank, Before
<1>2. k \in PendingRows /\ ~(Rank[k] < BatchSize)
  BY <1>1 DEF PendingRows
<1>3. /\ Rank \in [PendingRows -> 0 .. n - 1]
      /\ \A j, l \in PendingRows : Rank[j] = Rank[l] => j = l
  BY <1>b DEF Injection, IsInjective
<1>4. BatchSize <= n
  BY <1>a, <1>2, <1>3
<1>5. IsFiniteSet(0 .. n - 1) /\ Cardinality(0 .. n - 1) = n
  BY FS_Interval
<1>6. \A r \in 0 .. n - 1 : \E j \in PendingRows : Rank[j] = r
  <2>1. Rank \in Surjection(PendingRows, 0 .. n - 1)
    BY <1>0, <1>5, <1>b, FS_Injection
  <2>. QED
    BY <2>1 DEF Surjection
<1> DEFINE f == [j \in Claimable |-> Rank[j]]
<1>7. f \in Bijection(Claimable, 0 .. BatchSize - 1)
  <2>1. f \in [Claimable -> 0 .. BatchSize - 1]
    BY <1>a, <1>1, <1>3
  <2>2. \A j, l \in Claimable : f[j] = f[l] => j = l
    BY <1>1, <1>3
  <2>3. \A r \in 0 .. BatchSize - 1 : \E j \in Claimable : f[j] = r
    <3>. TAKE r \in 0 .. BatchSize - 1
    <3>1. r \in 0 .. n - 1 /\ r < BatchSize
      BY <1>a, <1>4
    <3>2. PICK j \in PendingRows : Rank[j] = r
      BY <1>6, <3>1
    <3>3. j \in Claimable
      BY <1>1, <3>1, <3>2
    <3>4. f[j] = r
      BY <3>2, <3>3
    <3>. QED
      BY <3>3, <3>4
  <2>. QED
    BY <2>1, <2>2, <2>3 DEF Bijection, Injection, IsInjective, Surjection
<1>8. IsFiniteSet(Claimable)
  BY <1>a, <1>1, FS_Subset
<1>9. Cardinality(0 .. BatchSize - 1) = Cardinality(Claimable)
  BY <1>7, <1>8, FS_Bijection DEF ExistsBijection
<1>. QED
  BY <1>a, <1>9, FS_Interval

-----------------------------------------------------------------------------
(* A row that no relay has tried is in nobody's way.                       *)

\* No statement makes a row fresh again, and a failure that is counted ends it
\* for every row of the message, like the mark that it was sent.
LEMMA FreshWas ==
  ASSUME TypeInv, [Next]_vars, NEW k \in DOMAIN rows, Fresh(k)'
  PROVE  Fresh(k)
<1>0. TypeOK /\ CursorInv /\ rows \in Seq(Row) /\ RowsEvolve
  BY NextRows DEF TypeInv, TypeOK
<1>1. rows[k] \in Row /\ rows'[k] \in Row /\ k \in DOMAIN rows'
  BY <1>0 DEF RowsEvolve
<1>2. rows[k].attempts = 0
  <2>1. /\ rows[k].attempts \in Nat /\ rows'[k].attempts = 0
        /\ rows'[k].attempts >= rows[k].attempts
    BY <1>0, <1>1, ConstantsAssumption DEF RowsEvolve, Row, Fresh
  <2>. QED
    BY <2>1
<1>3. CASE rows[k].status = "dlq"
  BY <1>3, DeadStays DEF Fresh, Pending
<1>4. CASE rows[k].status = "sent"
  BY <1>4, SentStays DEF Fresh, Pending
<1>. QED
  BY <1>1, <1>2, <1>3, <1>4 DEF Fresh, Pending, Row, Status

LEMMA CountedIsNotFresh ==
  ASSUME TypeInv, NEW m \in Messages, BumpAttempts(m),
         NEW k \in DOMAIN rows, rows[k].msg = m, Fresh(k)
  PROVE  ~Fresh(k)'
<1>1. rows[k].attempts = 0 /\ Pending(k) /\ rows \in Seq(Row)
  BY DEF Fresh, TypeInv, TypeOK
<1>2. Incremented(0) = 1
  BY ConstantsAssumption DEF Incremented
<1>3. rows'[k].attempts = Incremented(rows[k].attempts)
  <2>1. rows[k] \in Row
    BY <1>1
  <2>2. rows'[k] = [rows[k] EXCEPT !.attempts = Incremented(@)]
    BY <1>1 DEF BumpAttempts
  <2>. QED
    BY <2>1, <2>2 DEF Row
<1>. QED
  BY <1>1, <1>2, <1>3 DEF Fresh

LEMMA MarkedIsNotFresh ==
  ASSUME TypeInv, NEW m \in Messages, SetStatus(m, {"pending"}, "sent"),
         NEW k \in DOMAIN rows, rows[k].msg = m, Fresh(k)
  PROVE  ~Fresh(k)'
<1>1. Pending(k) /\ rows \in Seq(Row) /\ "sent" \in Status
  BY DEF Fresh, TypeInv, TypeOK, Status
<1>. QED
  BY <1>1, SetStatusRows DEF Fresh, Pending

\* The relay's own steps: it leaves a fresh row only with a reason to come back.
LEMMA RelayComesTo ==
  ASSUME TypeInv, NEW p \in Procs, RelayStep(p), faults' = faults, RowsEvolve,
         NEW k \in DOMAIN rows, Fresh(k), Fresh(k)', ComesTo(p, k)
  PROVE  ComesTo(p, k)'
<1>0. /\ rows \in Seq(Row) /\ batch \in [Procs -> SUBSET Nat] /\ pc \in [Procs -> PC]
      /\ cur \in [Procs -> Nat] /\ full \in [Procs -> BOOLEAN] /\ faults \in Nat
      /\ CursorInv /\ TypeOK /\ rows'[k].msg = rows[k].msg
  BY ConstantsAssumption DEF TypeInv, TypeOK, RowsEvolve
<1>1. UNCHANGED signal /\ ~Fault
  BY <1>0 DEF RelayStep, Claim, ClaimFails, NoSender, SendOK, SendFails, MarkSent,
     MarkUnroutable, MarkFailed, RecordFailure, GetAttempts, MarkDLQ, PublishDLQ,
     FinishBatch, Process, Fault
<1>2. CASE signal[p]
  BY <1>1, <1>2 DEF ComesTo
<1>3. CASE Claim(p)
  <2>1. batch'[p] = Claimable /\ full'[p] = (Cardinality(Claimable) = BatchSize)
        /\ pc'[p] = IF Claimable = {} THEN "wait" ELSE "next"
    BY <1>0, <1>3 DEF Claim, Jump
  <2>2. CASE k \in Claimable
    BY <2>1, <2>2 DEF ComesTo
  <2>3. CASE k \notin Claimable
    <3>1. Cardinality(Claimable) = BatchSize
      BY <1>0, <2>3, FullClaim DEF Fresh
    <3>2. Claimable # {}
      BY <3>1, FS_EmptySet, ConstantsAssumption
    <3>. QED
      BY <2>1, <3>1, <3>2 DEF ComesTo
  <2>. QED
    BY <2>2, <2>3
<1>4. ~ClaimFails(p)
  BY <1>1 DEF ClaimFails
<1>5. CASE NoSender(p) \/ SendOK(p) \/ SendFails(p)
  <2>1. PICK j \in batch[p], l \in {"unroutable", "sent", "failed"} : Process(p, j, l)
    BY <1>5 DEF NoSender, SendOK, SendFails
  <2>2. /\ pc[p] = "next" /\ pc'[p] = l /\ batch'[p] = batch[p] \ {j} /\ cur'[p] = j
        /\ full'[p] = full[p] /\ UNCHANGED rows
    BY <1>0, <2>1 DEF Process, Jump
  <2>3. pc'[p] \in Busy
    BY <2>2 DEF Busy
  <2>. QED
    BY <1>1, <2>2, <2>3 DEF ComesTo
<1>6. CASE MarkSent(p)
  <2>1. /\ pc[p] = "sent" /\ pc'[p] = "next" /\ UNCHANGED <<batch, full>>
        /\ SetStatus(rows[cur[p]].msg, {"pending"}, "sent")
    BY <1>0, <1>1, <1>6 DEF MarkSent, Continue, Jump
  <2>2. rows[cur[p]].msg # rows[k].msg
    BY <1>0, <2>1, CurrentMessage, MarkedIsNotFresh DEF Busy
  <2>. QED
    BY <1>1, <2>1, <2>2 DEF ComesTo, Busy
<1>7. CASE MarkUnroutable(p) \/ MarkFailed(p)
  <2>1. /\ pc[p] \in {"unroutable", "failed"} /\ pc'[p] \in {"next", "attempts"}
        /\ UNCHANGED <<batch, full>> /\ BumpAttempts(rows[cur[p]].msg)
    BY <1>0, <1>1, <1>7 DEF MarkUnroutable, MarkFailed, RecordFailure, Continue, Jump
  <2>2. rows[cur[p]].msg # rows[k].msg
    BY <1>0, <2>1, CurrentMessage, CountedIsNotFresh DEF Busy
  <2>. QED
    BY <1>1, <2>1, <2>2 DEF ComesTo, Busy
<1>8. CASE GetAttempts(p) \/ MarkDLQ(p) \/ PublishDLQ(p)
  <2>1. /\ pc[p] \in {"attempts", "dlq", "publish"} /\ pc'[p] \in {"next", "dlq", "publish"}
        /\ UNCHANGED <<batch, full>>
    BY <1>0, <1>8 DEF GetAttempts, MarkDLQ, PublishDLQ, Continue, Jump
  <2>. QED
    BY <1>1, <2>1 DEF ComesTo, Busy
<1>9. CASE FinishBatch(p)
  <2>1. /\ pc[p] = "next" /\ batch[p] = {} /\ pc'[p] = IF full[p] THEN "drain" ELSE "wait"
    BY <1>0, <1>9 DEF FinishBatch, Jump
  <2>. QED
    BY <1>1, <2>1 DEF ComesTo, Busy
<1>. QED
  BY <1>3, <1>4, <1>5, <1>6, <1>7, <1>8, <1>9 DEF RelayStep

LEMMA SignalStep ==
  ASSUME TypeInv, SignalInv, [Next]_vars
  PROVE  SignalInv'
<1> SUFFICES ASSUME faults' = 0, NEW m \in Messages, Entry[m] = "send", call'[m] = "acked",
                    NEW k \in DOMAIN rows', rows'[k].msg = m, Fresh(k)'
             PROVE  ComesTo(Host[m], k)'
  BY DEF SignalInv
<1> DEFINE p == Host[m]
<1>0. /\ rows \in Seq(Row) /\ call \in [Messages -> CallState] /\ pc \in [Procs -> PC]
      /\ signal \in [Procs -> BOOLEAN] /\ batch \in [Procs -> SUBSET Nat]
      /\ cur \in [Procs -> Nat] /\ full \in [Procs -> BOOLEAN] /\ faults \in Nat
      /\ TypeOK /\ CursorInv /\ p \in Procs /\ RowsEvolve
  BY NextRows, ConstantsAssumption DEF TypeInv, TypeOK
<1>1. faults = 0 /\ ~Fault
  <2>1. faults' = faults \/ Fault
    BY DEF Next, vars, CallStep, PersistMessage, Enqueue, InsertFallback, Notify, Ingest,
       StatementFails, Boot, Wake, Tick, Stop, Crash, RelayStep, Claim, ClaimFails, NoSender,
       SendOK, SendFails, MarkSent, MarkUnroutable, MarkFailed, RecordFailure, GetAttempts,
       MarkDLQ, PublishDLQ, FinishBatch, tables
  <2>. QED
    BY <1>0, <2>1 DEF Fault
<1>2. ASSUME call[m] = "acked", k \in DOMAIN rows
      PROVE  Fresh(k) /\ rows[k].msg = m /\ ComesTo(p, k)
  <2>1. Fresh(k) /\ rows[k].msg = m
    BY <1>0, <1>2, FreshWas DEF RowsEvolve
  <2>. QED
    BY <1>1, <1>2, <2>1 DEF SignalInv
\* What the others do leaves the reason of the relay alone.
<1>3. ASSUME k \in DOMAIN rows, ComesTo(p, k), pc'[p] = pc[p], batch'[p] = batch[p],
             cur'[p] = cur[p], full'[p] = full[p], signal[p] => signal'[p]
      PROVE  ComesTo(p, k)'
  <2>1. pc[p] \in {"sent", "unroutable", "failed"} => cur[p] \in DOMAIN rows
    BY <1>0 DEF CursorInv, Busy
  <2>2. rows'[k].msg = rows[k].msg
        /\ (pc[p] \in {"sent", "unroutable", "failed"} => rows'[cur[p]].msg = rows[cur[p]].msg)
    BY <1>0, <1>3, <2>1 DEF RowsEvolve
  <2>. QED
    BY <1>3, <2>2 DEF ComesTo
<1>4. ASSUME NEW n \in Messages, CallStep(n)
      PROVE  ComesTo(p, k)'
  <2>1. /\ UNCHANGED <<pc, batch, cur, full>>
        /\ signal' = signal \/ signal' = [signal EXCEPT ![Host[n]] = TRUE]
    BY <1>4 DEF CallStep, PersistMessage, Enqueue, InsertFallback, Notify, Ingest, relayVars
  <2>2. CASE n = m
    <3>1. Notify(m)
      BY <1>0, <1>4, <2>2 DEF CallStep, PersistMessage, Enqueue, InsertFallback, Ingest, GoTo
    <3>. QED
      BY <1>0, <3>1 DEF Notify, ComesTo
  <2>3. CASE n # m
    <3>1. call[m] = "acked"
      BY <1>0, <1>4, <2>3 DEF CallStep, PersistMessage, Enqueue, InsertFallback, Notify,
         Ingest, GoTo
    <3>2. k \in DOMAIN rows
      <4>1. UNCHANGED rows \/ InsertRow(n)
        BY <1>4 DEF CallStep, PersistMessage, Enqueue, InsertFallback, Notify, Ingest,
           StatementFails, tables
      <4>2. ASSUME InsertRow(n)
            PROVE  k \in DOMAIN rows \/ rows'[k].msg = n
        <5>1. NewRow(n).msg = n
          BY DEF NewRow
        <5>. QED
          BY <1>0, <4>2, <5>1, InsertRowRows
      <4>. QED
        BY <2>3, <4>1, <4>2
    <3>. QED
      BY <1>0, <1>2, <1>3, <2>1, <3>1, <3>2
  <2>. QED
    BY <2>2, <2>3
<1>5. ASSUME UNCHANGED call, DOMAIN rows' = DOMAIN rows
      PROVE  k \in DOMAIN rows /\ Fresh(k) /\ rows[k].msg = m /\ ComesTo(p, k)
  BY <1>2, <1>5
<1>6. ASSUME NEW q \in Procs, ProcStep(q)
      PROVE  ComesTo(p, k)'
  <2>1. UNCHANGED <<rows, call>>
    BY <1>1, <1>6, ProcStepRows DEF ProcStep, Boot, Wake, Tick, Stop, Crash, tables
  <2>2. CASE q = p
    BY <1>0, <1>1, <1>6, <2>2 DEF ProcStep, Boot, Wake, Tick, Stop, Crash, Jump, ComesTo
  <2>3. CASE q # p
    <3>1. /\ pc'[p] = pc[p] /\ batch'[p] = batch[p] /\ cur'[p] = cur[p]
          /\ full'[p] = full[p] /\ signal'[p] = signal[p]
      BY <1>0, <1>1, <1>6, <2>3 DEF ProcStep, Boot, Wake, Tick, Stop, Crash, Jump
    <3>. QED
      BY <1>3, <1>5, <2>1, <3>1
  <2>. QED
    BY <2>2, <2>3
<1>7. ASSUME NEW q \in Procs, RelayStep(q)
      PROVE  ComesTo(p, k)'
  <2>1. UNCHANGED <<call, signal>>
    BY <1>7 DEF RelayStep, Claim, ClaimFails, NoSender, SendOK, SendFails, MarkSent,
       MarkUnroutable, MarkFailed, RecordFailure, GetAttempts, MarkDLQ, PublishDLQ,
       FinishBatch, Process
  <2>2. DOMAIN rows' = DOMAIN rows
    BY <1>7, RelayStepStatements DEF SetStatus, BumpAttempts
  <2>3. k \in DOMAIN rows /\ Fresh(k) /\ ComesTo(p, k)
    BY <1>5, <2>1, <2>2
  <2>4. CASE q = p
    BY <1>0, <1>1, <1>7, <2>3, <2>4, RelayComesTo
  <2>5. CASE q # p
    <3>1. pc'[p] = pc[p] /\ batch'[p] = batch[p] /\ cur'[p] = cur[p] /\ full'[p] = full[p]
      BY <1>0, <1>7, <2>5 DEF RelayStep, Claim, ClaimFails, NoSender, SendOK, SendFails,
         MarkSent, MarkUnroutable, MarkFailed, RecordFailure, GetAttempts, MarkDLQ,
         PublishDLQ, FinishBatch, Process, Jump, Continue
    <3>. QED
      BY <1>3, <2>1, <2>3, <3>1
  <2>. QED
    BY <2>4, <2>5
<1>8. CASE UNCHANGED vars
  BY <1>3, <1>5, <1>8 DEF vars
<1>. QED
  BY <1>4, <1>6, <1>7, <1>8 DEF Next, ProcStep

\* With any number of processes, batch sizes and messages: while nothing fails,
\* a relay that waits without a signal has no Send to make a first attempt at.
THEOREM NoSignalIsLost == Spec => []NoLostSignal
<1>1. Init => TypeInv /\ SignalInv
  BY InitTypeInv DEF Init, SignalInv
<1>2. TypeInv /\ SignalInv /\ [Next]_vars => (TypeInv /\ SignalInv)'
  BY NextTypeInv, SignalStep
<1>3. TypeInv /\ SignalInv => NoLostSignal
  <2> SUFFICES ASSUME TypeInv, SignalInv, faults = 0, NEW m \in Messages, Entry[m] = "send",
                      call[m] = "acked", pc[Host[m]] = "wait", ~signal[Host[m]],
                      NEW k \in DOMAIN rows, rows[k].msg = m, Pending(k)
               PROVE  rows[k].attempts > 0
    BY DEF NoLostSignal
  <2>1. ~Fresh(k)
    <3>1. ~ComesTo(Host[m], k)
      BY DEF ComesTo, Busy
    <3>. QED
      BY <3>1 DEF SignalInv
  <2>2. rows[k].attempts \in Nat
    <3>1. rows[k] \in Row
      BY DEF TypeInv, TypeOK
    <3>. QED
      BY <3>1, ConstantsAssumption DEF Row
  <2>. QED
    BY <2>1, <2>2 DEF Fresh
<1>. QED
  BY <1>1, <1>2, <1>3, PTL DEF Spec

-----------------------------------------------------------------------------
(* The duplicates: every delivery beyond the first of each process was paid  *)
(* for by a fault.                                                           *)

Finite == IsFiniteSet(Messages) /\ IsFiniteSet(Procs)

\* What a row that is pending may come to: one delivery by each process.
Shares == Cardinality(Procs)

ToInsert == {"none", "persisted", "fallback"}
Due(m) == IF call[m] \in ToInsert THEN Shares ELSE 0

\* The process q may deliver the row k of m: it is pending or in the batch of q,
\* unless q is between Send and MarkSent with it.
MayDeliver(m, k, q) ==
  /\ rows[k].msg = m
  /\ Pending(k) \/ k \in batch[q]
  /\ ~(pc[q] = "sent" /\ cur[q] = k)
Live(m) == {x \in (DOMAIN rows) \X Procs : MayDeliver(m, x[1], x[2])}

\* What m may come to without another fault: its deliveries, and one of each
\* process for every row it has or waits for.
Worth(m) == delivered[m] + Cardinality(Live(m)) + Due(m)
Beyond(n) == IF n > Shares THEN n - Shares ELSE 0
Paid == [m \in Messages |-> Beyond(Worth(m))]

FaultsPay == Total(Paid, Messages) <= Shares * faults

\* Between Send and MarkSent a relay has taken its row out of the batch.
CurLeft == \A p \in Procs : pc[p] = "sent" => cur[p] \notin batch[p]

BoughtInv == TypeInv /\ CurLeft /\ FaultsPay

LEMMA SharesAreNumbers ==
  ASSUME Finite
  PROVE  Shares \in Nat /\ \A p \in Procs : Shares >= 1
<1>1. Shares \in Nat
  BY FS_CardinalityType DEF Finite, Shares
<1>2. ASSUME NEW p \in Procs PROVE Shares # 0
  BY FS_EmptySet DEF Finite, Shares
<1> QED
  BY <1>1, <1>2

\* A message has finitely many rows, so its worth is a number.
LEMMA WorthIsNat ==
  ASSUME Finite, TypeOK, NEW m \in Messages
  PROVE  /\ IsFiniteSet(Live(m)) /\ Cardinality(Live(m)) \in Nat
         /\ Due(m) \in Nat /\ delivered[m] \in Nat /\ Worth(m) \in Nat
<1>1. rows \in Seq(Row) /\ delivered[m] \in Nat
  BY DEF TypeOK
<1>2. DOMAIN rows = 1 .. Len(rows) /\ Len(rows) \in Nat
  BY <1>1
<1>3. IsFiniteSet(DOMAIN rows)
  BY <1>2, FS_Interval
<1>4. IsFiniteSet((DOMAIN rows) \X Procs)
  BY <1>3, FS_Product DEF Finite
<1>5. Live(m) \subseteq (DOMAIN rows) \X Procs
  BY DEF Live
<1>6. IsFiniteSet(Live(m)) /\ Cardinality(Live(m)) \in Nat
  BY <1>4, <1>5, FS_Subset, FS_CardinalityType
<1>7. Due(m) \in Nat
  BY SharesAreNumbers DEF Due
<1> QED
  BY <1>1, <1>6, <1>7 DEF Worth

Countable ==
  Finite => \A m \in Messages : Worth(m) \in Nat /\ Cardinality(Live(m)) \in Nat

LEMMA WorthsAreNat == TypeOK => Countable
BY WorthIsNat DEF Countable

\* A message whose live rows gain no more than X has at most as many more; one
\* that loses one has one less.
LEMMA LiveMoves ==
  ASSUME Finite, TypeOK, TypeOK', NEW m \in Messages, NEW X, IsFiniteSet(X)
  PROVE  /\ Live(m)' \subseteq Live(m) =>
              Cardinality(Live(m)') <= Cardinality(Live(m))
         /\ Live(m)' \subseteq Live(m) \cup X =>
              Cardinality(Live(m)') <= Cardinality(Live(m)) + Cardinality(X)
         /\ \A k \in Live(m) : Live(m)' \subseteq Live(m) \ {k} =>
              Cardinality(Live(m)') <= Cardinality(Live(m)) - 1
<1>1. PICK A : A = Live(m)
  OBVIOUS
<1>2. PICK B : B = Live(m)'
  OBVIOUS
<1>3. IsFiniteSet(A) /\ Cardinality(A) \in Nat
  BY <1>1, WorthIsNat
<1>4. Cardinality(B) \in Nat /\ Cardinality(X) \in Nat
  <2>1. Countable'
    BY WorthsAreNat, PTL
  <2>2. Finite'
    BY DEF Finite
  <2>3. Cardinality(B) \in Nat
    BY <1>2, <2>1, <2>2 DEF Countable
  <2> QED
    BY <2>3, FS_CardinalityType
<1>5. B \subseteq A => Cardinality(B) <= Cardinality(A)
  BY <1>3, FS_Subset
<1>6. ASSUME B \subseteq A \cup X
      PROVE  Cardinality(B) <= Cardinality(A) + Cardinality(X)
  <2>1. /\ IsFiniteSet(A \cup X)
        /\ Cardinality(A \cup X) = Cardinality(A) + Cardinality(X) - Cardinality(A \cap X)
    BY <1>3, FS_Union
  <2>2. Cardinality(A \cap X) \in Nat
    <3>1. IsFiniteSet(A \cap X)
      BY <1>3, FS_Subset
    <3> QED
      BY <3>1, FS_CardinalityType
  <2>3. Cardinality(B) <= Cardinality(A \cup X)
    BY <2>1, <1>6, FS_Subset
  <2> QED
    BY <1>3, <1>4, <2>1, <2>2, <2>3
<1>7. ASSUME NEW k \in A, B \subseteq A \ {k}
      PROVE  Cardinality(B) <= Cardinality(A) - 1
  <2>1. IsFiniteSet(A \ {k}) /\ Cardinality(A \ {k}) = Cardinality(A) - 1
    BY <1>3, <1>7, FS_RemoveElement
  <2>2. Cardinality(B) <= Cardinality(A \ {k})
    BY <2>1, <1>7, FS_Subset
  <2> QED
    BY <2>1, <2>2
<1> QED
  BY <1>1, <1>2, <1>5, <1>6, <1>7

\* What d faults pay for, d being zero or one.
Price(d) == IF d = 1 THEN Shares ELSE 0

\* Only m may be worth more after a step, by the price of d at most.
Within(m, d) ==
  \A x \in Messages : Worth(x)' <= IF x = m THEN Worth(x) + Price(d) ELSE Worth(x)

\* When the worth of at most one message rises, by what the faults of the step
\* pay for, the faults still pay.
LEMMA WorthPays ==
  ASSUME Finite, TypeOK, TypeOK', FaultsPay, NEW m, NEW d \in {0, 1},
         faults' = faults + d,
         Within(m, d)
  PROVE  FaultsPay'
<1>0. Shares \in Nat /\ Price(d) \in Nat
  BY SharesAreNumbers DEF Price
<1>1. PICK f : f = Paid
  OBVIOUS
<1>2. PICK h : h = Paid'
  OBVIOUS
<1>3. \A x \in Messages : Worth(x) \in Nat
  BY WorthIsNat
<1>4. \A x \in Messages : Worth(x)' \in Nat
  <2>1. Countable' /\ Finite'
    BY WorthsAreNat, PTL DEF Finite
  <2> QED
    BY <2>1 DEF Countable
<1>5. \A x \in Messages : f[x] = Beyond(Worth(x)) /\ h[x] = Beyond(Worth(x)')
  BY <1>1, <1>2 DEF Paid, Beyond, Shares
<1>6. AtMost(h, f, Messages, m, Price(d))
  BY <1>0, <1>3, <1>4, <1>5 DEF AtMost, Beyond, Within
<1>7. /\ Total(f, Messages) \in Nat /\ Total(h, Messages) \in Nat
      /\ Total(h, Messages) <= Total(f, Messages) + Price(d)
  BY <1>0, <1>6, TotalGrows DEF Finite
<1>8. Total(f, Messages) <= Shares * faults /\ faults \in Nat
  BY <1>1, ConstantsAssumption DEF FaultsPay, TypeOK
<1>9. Shares * faults + Price(d) = Shares * faults'
  <2>1. Shares * (faults + 1) = Shares * faults + Shares
    BY <1>0, <1>8
  <2> QED
    BY <1>0, <1>8, <2>1 DEF Price
<1>10. Total(h, Messages) <= Shares * faults'
  <2>1. Shares * faults \in Nat /\ Shares * faults' \in Nat
    BY <1>0, <1>8
  <2> QED
    BY <1>0, <1>7, <1>8, <1>9, <2>1
<1> QED
  BY <1>2, <1>10 DEF FaultsPay, Shares


\* A step that adds no row and makes none pending again.
Settles ==
  /\ DOMAIN rows' = DOMAIN rows
  /\ \A k \in DOMAIN rows : /\ rows'[k].msg = rows[k].msg
                            /\ Pending(k)' => Pending(k)

\* A step that is, for the processes, one of p.
OnlyMoves(p) ==
  \A q \in Procs \ {p} : batch'[q] = batch[q] /\ pc'[q] = pc[q] /\ cur'[q] = cur[q]

\* After such a step only p may deliver what it could not deliver before.
LEMMA OnlyRevives ==
  ASSUME Settles, NEW p \in Procs, OnlyMoves(p), NEW m, NEW X,
         \A k \in DOMAIN rows :
           MayDeliver(m, k, p)' => MayDeliver(m, k, p) \/ <<k, p>> \in X
  PROVE  Live(m)' \subseteq Live(m) \cup X
<1>1. ASSUME NEW k \in DOMAIN rows, NEW q \in Procs, MayDeliver(m, k, q)'
      PROVE  MayDeliver(m, k, q) \/ <<k, q>> \in X
  <2>1. CASE q = p
    BY <1>1, <2>1
  <2>2. CASE q # p
    BY <1>1, <2>2 DEF MayDeliver, Settles, OnlyMoves
  <2> QED
    BY <2>1, <2>2
<1>2. ASSUME NEW x \in Live(m)' PROVE x \in Live(m) \cup X
  <2>1. PICK k \in DOMAIN rows, q \in Procs : x = <<k, q>>
    BY <1>2 DEF Live, Settles
  <2>2. MayDeliver(m, k, q)'
    BY <1>2, <2>1 DEF Live
  <2>3. MayDeliver(m, k, q) => x \in Live(m)
    BY <2>1 DEF Live
  <2> QED
    BY <1>1, <2>1, <2>2, <2>3
<1> QED
  BY <1>2

\* A call inserts when it still had to, and is then done inserting, unless the
\* insert reported an error.
LEMMA CallStepPays ==
  ASSUME Finite, BoughtInv, NEW m \in Messages, CallStep(m)
  PROVE  FaultsPay' /\ CurLeft'
<1>0. /\ TypeOK /\ FaultsPay /\ CurLeft /\ rows \in Seq(Row)
      /\ call \in [Messages -> CallState] /\ faults \in Int
      /\ Shares \in Nat
  BY ConstantsAssumption, SharesAreNumbers DEF BoughtInv, TypeInv, TypeOK
<1>1. TypeOK'
  BY CallStepType DEF BoughtInv, TypeInv
<1>2. UNCHANGED <<pc, batch, cur, delivered>>
  BY DEF CallStep, PersistMessage, Enqueue, InsertFallback, Notify, Ingest, relayVars, tables
<1>3. CurLeft'
  BY <1>0, <1>2 DEF CurLeft
<1>4. PICK s :
        /\ GoTo(m, s)
        /\ \/ UNCHANGED rows /\ (call[m] \in ToInsert \/ s \notin ToInsert)
           \/ /\ InsertRow(m) /\ call[m] \in ToInsert
              /\ s \notin ToInsert \/ faults' = faults + 1
  <2>1. CASE PersistMessage(m)
    BY <2>1 DEF PersistMessage, ToInsert
  <2>2. CASE Enqueue(m)
    <3>1. call[m] \in ToInsert
      BY <2>2 DEF Enqueue, ToInsert
    <3>2. "notify" \notin ToInsert
      BY DEF ToInsert
    <3> QED
      BY <2>2, <3>1, <3>2 DEF Enqueue, StatementFails, Fault
  <2>3. CASE InsertFallback(m)
    <3>1. call[m] \in ToInsert /\ "notify" \notin ToInsert /\ "error" \notin ToInsert
      BY <2>3 DEF InsertFallback, ToInsert
    <3> QED
      BY <2>3, <3>1 DEF InsertFallback, StatementFails, Fault
  <2>4. CASE Notify(m)
    BY <2>4 DEF Notify, tables, ToInsert
  <2>5. CASE Ingest(m)
    BY <2>5 DEF Ingest, Fault, ToInsert
  <2> QED
    BY <2>1, <2>2, <2>3, <2>4, <2>5 DEF CallStep
<1>a. PICK d \in {0, 1} : faults' = faults + d
  <2>1. faults' = faults \/ faults' = faults + 1
    BY DEF CallStep, PersistMessage, Enqueue, InsertFallback, Notify, Ingest,
       StatementFails, Fault
  <2> QED
    BY <1>0, <2>1
<1>5. call'[m] = s /\ \A x \in Messages \ {m} : call'[x] = call[x]
  BY <1>0, <1>4 DEF GoTo
<1>6. ASSUME NEW x \in Messages, x # m PROVE Due(x)' = Due(x)
  BY <1>5, <1>6 DEF Due, Shares
<1>7. \A x \in Messages :
        /\ Cardinality(Live(x)) \in Nat /\ Cardinality(Live(x)') \in Nat
        /\ Due(x) \in Nat /\ delivered[x] \in Nat /\ delivered'[x] = delivered[x]
        /\ Worth(x) = delivered[x] + Cardinality(Live(x)) + Due(x)
        /\ Worth(x)' = delivered'[x] + Cardinality(Live(x)') + Due(x)'
  <2>1. Countable'
    BY <1>1, WorthsAreNat, PTL
  <2>2. Finite'
    BY DEF Finite
  <2> QED
    BY <1>0, <1>2, <2>1, <2>2, WorthIsNat DEF Countable, Worth
<1>8. CASE UNCHANGED rows /\ (call[m] \in ToInsert \/ s \notin ToInsert)
  <2>1. \A x \in Messages : Live(x)' = Live(x)
    BY <1>2, <1>8 DEF Live, MayDeliver, Pending
  <2>2. Due(m)' <= Due(m)
    BY <1>0, <1>5, <1>8 DEF Due, Shares
  <2>3. \A x \in Messages : Due(x)' \in Nat /\ Due(x)' <= Due(x)
    BY <1>0, <1>6, <1>7, <2>2 DEF Due, Shares
  <2>4. \A x \in Messages : Worth(x)' <= Worth(x) /\ Worth(x)' \in Nat /\ Worth(x) \in Nat
    BY <1>7, <2>1, <2>3
  <2>5. Price(d) \in Nat
    BY <1>0 DEF Price
  <2>6. Within(m, d)
    BY <2>4, <2>5 DEF Within
  <2> QED
    BY <1>0, <1>1, <1>3, <1>a, <2>6, WorthPays
<1>9. CASE /\ InsertRow(m) /\ call[m] \in ToInsert
           /\ s \notin ToInsert \/ faults' = faults + 1
  <2> DEFINE X == {Len(rows) + 1} \X Procs
  <2>1. /\ DOMAIN rows' = DOMAIN rows \cup {Len(rows) + 1}
        /\ \A k \in DOMAIN rows : rows'[k] = rows[k]
        /\ rows'[Len(rows) + 1].msg = m
    <3>1. NewRow(m).msg = m
      BY DEF NewRow
    <3> QED
      BY <1>0, <1>9, <3>1, InsertRowRows
  <2>a. IsFiniteSet(X) /\ Cardinality(X) = Shares
    <3>1. IsFiniteSet({Len(rows) + 1}) /\ Cardinality({Len(rows) + 1}) = 1
      BY FS_Singleton
    <3>2. IsFiniteSet(X) /\ Cardinality(X) = 1 * Cardinality(Procs)
      BY <3>1, FS_Product DEF Finite
    <3> QED
      BY <1>0, <3>2 DEF Shares
  <2>b. ASSUME NEW x \in Messages, NEW y \in Live(x)'
        PROVE  y \in Live(x) \/ (x = m /\ y \in X)
    <3>1. PICK k \in DOMAIN rows', q \in Procs : y = <<k, q>>
      BY DEF Live
    <3>2. MayDeliver(x, k, q)'
      BY <3>1 DEF Live
    <3>3. CASE k \in DOMAIN rows
      <4>1. MayDeliver(x, k, q)
        BY <1>2, <2>1, <3>2, <3>3 DEF MayDeliver, Pending
      <4> QED
        BY <3>1, <3>3, <4>1 DEF Live
    <3>4. CASE k = Len(rows) + 1
      BY <2>1, <3>1, <3>2, <3>4 DEF MayDeliver
    <3> QED
      BY <2>1, <3>3, <3>4
  <2>2. ASSUME NEW x \in Messages, x # m PROVE Live(x)' \subseteq Live(x)
    BY <2>2, <2>b
  <2>3. Live(m)' \subseteq Live(m) \cup X
    BY <2>b
  <2>4. Due(m) = Shares /\ Due(m)' \in Nat /\ Due(m)' <= Price(d) /\ Price(d) \in Nat
    BY <1>0, <1>a, <1>5, <1>9 DEF Due, Price, Shares
  <2>5. Cardinality(Live(m)') <= Cardinality(Live(m)) + Shares
    <3>1. Cardinality(Live(m)') <= Cardinality(Live(m)) + Cardinality(X)
      <4> HIDE DEF X
      <4> QED
        BY <1>0, <1>1, <2>3, <2>a, LiveMoves
    <3> QED
      BY <2>a, <3>1
  <2>6. ASSUME NEW x \in Messages, x # m PROVE Worth(x)' <= Worth(x)
    <3>1. Cardinality(Live(x)') <= Cardinality(Live(x))
      BY <1>0, <1>1, <2>2, <2>6, FS_EmptySet, LiveMoves
    <3> QED
      BY <1>6, <1>7, <2>6, <3>1
  <2>7. Worth(m)' <= Worth(m) + Price(d)
    <3>1. /\ Worth(m) = delivered[m] + Cardinality(Live(m)) + Shares
          /\ Worth(m)' = delivered[m] + Cardinality(Live(m)') + Due(m)'
      BY <1>7, <2>4
    <3>2. /\ Cardinality(Live(m)) \in Nat /\ Cardinality(Live(m)') \in Nat
          /\ delivered[m] \in Nat /\ Shares \in Nat
      BY <1>0, <1>7
    <3>3. ASSUME NEW a \in Nat, NEW b \in Nat, NEW n \in Nat, NEW e \in Nat,
                 b <= a + Shares, e <= Price(d)
          PROVE  n + b + e <= n + a + Shares + Price(d)
      BY <2>4, <3>2, <3>3
    <3>4. delivered[m] + Cardinality(Live(m)') + Due(m)'
            <= delivered[m] + Cardinality(Live(m)) + Shares + Price(d)
      BY <2>4, <2>5, <3>2, <3>3
    <3> QED
      BY <3>1, <3>4
  <2>8. Within(m, d)
    BY <2>6, <2>7 DEF Within
  <2> QED
    BY <1>0, <1>1, <1>3, <1>a, <2>8, WorthPays
<1> QED
  BY <1>4, <1>8, <1>9

\* What the life of a process leaves to the others.
LEMMA ProcStepMoves ==
  ASSUME TypeOK, NEW p \in Procs, ProcStep(p)
  PROVE  OnlyMoves(p) /\ pc'[p] # "sent" /\ batch'[p] \subseteq batch[p]
<1>1. /\ pc \in [Procs -> PC] /\ batch \in [Procs -> SUBSET Nat] /\ cur \in [Procs -> Nat]
  BY DEF TypeOK
<1>2. pc'[p] # "sent" /\ batch'[p] \subseteq batch[p]
  BY <1>1 DEF ProcStep, Boot, Wake, Tick, Stop, Crash, Jump
<1>3. \A q \in Procs \ {p} : batch'[q] = batch[q] /\ pc'[q] = pc[q] /\ cur'[q] = cur[q]
  BY <1>1 DEF ProcStep, Boot, Wake, Tick, Stop, Crash, Jump
<1> QED
  BY <1>2, <1>3 DEF OnlyMoves

\* The life of a process: a crash may bring back the row it was about to mark.
LEMMA ProcStepPays ==
  ASSUME Finite, BoughtInv, NEW p \in Procs, ProcStep(p)
  PROVE  FaultsPay' /\ CurLeft'
<1>0. /\ TypeOK /\ FaultsPay /\ CurLeft /\ call \in [Messages -> CallState]
      /\ faults \in Int /\ Shares \in Nat /\ Shares >= 1
  BY ConstantsAssumption, SharesAreNumbers DEF BoughtInv, TypeInv, TypeOK
<1>1. TypeOK'
  BY ProcStepType DEF BoughtInv, TypeInv
<1>2. UNCHANGED <<rows, delivered>>
  BY ProcStepRows DEF tables
<1>3. OnlyMoves(p) /\ pc'[p] # "sent" /\ batch'[p] \subseteq batch[p]
  BY <1>0, ProcStepMoves
<1>4. CurLeft'
  BY <1>0, <1>3 DEF CurLeft, OnlyMoves
<1>5. PICK d \in {0, 1} : faults' = faults + d /\ (pc[p] = "sent" => d = 1)
  BY <1>0 DEF ProcStep, Boot, Wake, Tick, Stop, Crash, Fault
<1>6. \A x \in Messages : call'[x] \in ToInsert => call[x] \in ToInsert
  BY <1>0 DEF ProcStep, Boot, Wake, Tick, Stop, Crash, ToInsert
<1>7. \A x \in Messages : Due(x)' \in Nat /\ Due(x)' <= Due(x)
  BY <1>0, <1>6 DEF Due, Shares
<1>8. \A x \in Messages :
        /\ Cardinality(Live(x)) \in Nat /\ Cardinality(Live(x)') \in Nat
        /\ Due(x) \in Nat /\ delivered[x] \in Nat /\ delivered'[x] = delivered[x]
        /\ Worth(x) = delivered[x] + Cardinality(Live(x)) + Due(x)
        /\ Worth(x)' = delivered'[x] + Cardinality(Live(x)') + Due(x)'
  <2>1. Countable'
    BY <1>1, WorthsAreNat, PTL
  <2>2. Finite'
    BY DEF Finite
  <2> QED
    BY <1>0, <1>2, <2>1, <2>2, WorthIsNat DEF Countable, Worth
<1>m. PICK m : m = rows[cur[p]].msg
  OBVIOUS
<1>s. Settles
  BY <1>2 DEF Settles, Pending
<1>9. ASSUME NEW x \in Messages, ~(pc[p] = "sent" /\ x = m)
      PROVE  Live(x)' \subseteq Live(x)
  <2>1. ASSUME NEW k \in DOMAIN rows, MayDeliver(x, k, p)'
        PROVE  MayDeliver(x, k, p)
    BY <1>2, <1>3, <1>m, <1>9, <2>1 DEF MayDeliver, Pending
  <2>2. Live(x)' \subseteq Live(x) \cup {}
    BY <1>3, <1>s, <2>1, OnlyRevives
  <2> QED
    BY <2>2
<1>10. ASSUME NEW x \in Messages PROVE Live(x)' \subseteq Live(x) \cup {<<cur[p], p>>}
  <2>1. ASSUME NEW k \in DOMAIN rows, MayDeliver(x, k, p)'
        PROVE  MayDeliver(x, k, p) \/ <<k, p>> \in {<<cur[p], p>>}
    BY <1>2, <1>3, <2>1 DEF MayDeliver, Pending
  <2> QED
    BY <1>3, <1>s, <2>1, OnlyRevives
<1>11. ASSUME NEW x \in Messages
       PROVE  Worth(x)' <= IF x = m THEN Worth(x) + Price(d) ELSE Worth(x)
  <2>0. Worth(x) \in Nat /\ Worth(x)' \in Nat /\ Price(d) \in Nat
    BY <1>0, <1>7, <1>8 DEF Price
  <2>1. CASE pc[p] = "sent" /\ x = m
    <3>1. Cardinality(Live(x)') <= Cardinality(Live(x)) + 1
      <4>1. IsFiniteSet({<<cur[p], p>>}) /\ Cardinality({<<cur[p], p>>}) = 1
        BY FS_Singleton
      <4>2. Cardinality(Live(x)') <= Cardinality(Live(x)) + Cardinality({<<cur[p], p>>})
        BY <1>0, <1>1, <1>10, <4>1, LiveMoves
      <4> QED
        BY <4>1, <4>2
    <3>2. Price(d) >= 1
      BY <1>0, <1>5, <2>1 DEF Price
    <3>3. Worth(x)' <= Worth(x) + 1
      BY <1>7, <1>8, <3>1
    <3> QED
      BY <2>0, <2>1, <3>2, <3>3
  <2>2. CASE ~(pc[p] = "sent" /\ x = m)
    <3>1. Cardinality(Live(x)') <= Cardinality(Live(x))
      BY <1>0, <1>1, <1>9, <2>2, FS_EmptySet, LiveMoves
    <3>2. Worth(x)' <= Worth(x)
      BY <1>7, <1>8, <3>1
    <3> QED
      BY <2>0, <3>2
  <2> QED
    BY <2>1, <2>2
<1> QED
  <2>1. Within(m, d)
    BY <1>11 DEF Within
  <2>2. faults' = faults + d
    BY <1>5
  <2>3. FaultsPay'
    BY <1>0, <1>1, <2>1, <2>2, WorthPays
  <2> QED
    BY <1>4, <2>3

\* A relay adds no row, and makes none pending again.
LEMMA RelayStepSettles ==
  ASSUME TypeInv, NEW p \in Procs, RelayStep(p)
  PROVE  Settles
<1>1. rows \in Seq(Row) /\ (pc[p] \in Busy => rows[cur[p]].msg \in Messages)
  BY CurrentMessage DEF TypeInv, TypeOK
<1>2. CASE UNCHANGED rows
  BY <1>2 DEF Settles, Pending
<1>3. CASE pc[p] = "sent" /\ SetStatus(rows[cur[p]].msg, {"pending"}, "sent")
  <2>1. rows[cur[p]].msg \in Messages /\ "sent" \in Status
    BY <1>1, <1>3 DEF Busy, Status
  <2> QED
    BY <1>1, <1>3, <2>1, SetStatusRows DEF Settles, Pending
<1>4. CASE pc[p] \in {"unroutable", "failed"} /\ BumpAttempts(rows[cur[p]].msg)
  <2>1. rows[cur[p]].msg \in Messages
    BY <1>1, <1>4 DEF Busy
  <2> QED
    BY <1>1, <1>4, <2>1, BumpAttemptsRows DEF Settles, Pending
<1>5. CASE pc[p] = "dlq" /\ SetStatus(rows[cur[p]].msg, {"pending", "dlq"}, "dlq")
  <2>1. rows[cur[p]].msg \in Messages /\ "dlq" \in Status
    BY <1>1, <1>5 DEF Busy, Status
  <2> QED
    BY <1>1, <1>5, <2>1, SetStatusRows DEF Settles, Pending
<1> QED
  BY <1>2, <1>3, <1>4, <1>5, RelayStepStatements

\* Every step of a relay is its own.
LEMMA RelayStepMoves ==
  ASSUME TypeOK, NEW p \in Procs, RelayStep(p)
  PROVE  OnlyMoves(p)
<1>1. /\ pc \in [Procs -> PC] /\ batch \in [Procs -> SUBSET Nat] /\ cur \in [Procs -> Nat]
  BY DEF TypeOK
<1>2. ASSUME NEW q \in Procs \ {p} PROVE batch'[q] = batch[q]
  BY <1>1 DEF RelayStep, Claim, ClaimFails, NoSender, SendOK, SendFails, MarkSent,
     MarkUnroutable, MarkFailed, RecordFailure, GetAttempts, MarkDLQ, PublishDLQ,
     FinishBatch, Process
<1>3. ASSUME NEW q \in Procs \ {p} PROVE pc'[q] = pc[q]
  BY <1>1 DEF RelayStep, Claim, ClaimFails, NoSender, SendOK, SendFails, MarkSent,
     MarkUnroutable, MarkFailed, GetAttempts, MarkDLQ, PublishDLQ,
     FinishBatch, Process, Jump, Continue
<1>4. ASSUME NEW q \in Procs \ {p} PROVE cur'[q] = cur[q]
  BY <1>1 DEF RelayStep, Claim, ClaimFails, NoSender, SendOK, SendFails, MarkSent,
     MarkUnroutable, MarkFailed, GetAttempts, MarkDLQ, PublishDLQ,
     FinishBatch, Process, Continue
<1> QED
  BY <1>2, <1>3, <1>4 DEF OnlyMoves

\* A step that delivers m at most, and that only when d is one.
Delivers(m, d) ==
  \A x \in Messages :
    \/ delivered'[x] = delivered[x]
    \/ delivered'[x] = delivered[x] + 1 /\ (x = m /\ d = 1)

\* A step after which no row is live that was not.
NoneRevived == \A x \in Messages : Live(x)' \subseteq Live(x)

\* A relay delivers a row it takes out of its batch, and brings it back only
\* with a fault; whatever else it does leaves fewer rows to deliver.
LEMMA RelayStepPays ==
  ASSUME Finite, BoughtInv, NEW p \in Procs, RelayStep(p)
  PROVE  FaultsPay' /\ CurLeft'
<1>0. /\ TypeOK /\ FaultsPay /\ CurLeft /\ CursorInv /\ rows \in Seq(Row)
      /\ pc \in [Procs -> PC] /\ batch \in [Procs -> SUBSET Nat] /\ cur \in [Procs -> Nat]
      /\ delivered \in [Messages -> Nat] /\ faults \in Int
      /\ Shares \in Nat /\ Shares >= 1
  BY ConstantsAssumption, SharesAreNumbers DEF BoughtInv, TypeInv, TypeOK
<1>1. TypeOK'
  BY RelayStepType DEF BoughtInv, TypeInv
<1>2. UNCHANGED call
  BY DEF RelayStep, Claim, ClaimFails, NoSender, SendOK, SendFails, MarkSent, MarkUnroutable,
     MarkFailed, RecordFailure, GetAttempts, MarkDLQ, PublishDLQ, FinishBatch, Process
<1>3. Settles /\ OnlyMoves(p)
  BY <1>0, RelayStepSettles, RelayStepMoves DEF BoughtInv
<1>4. \A x \in Messages :
        /\ Cardinality(Live(x)) \in Nat /\ Cardinality(Live(x)') \in Nat
        /\ Due(x) \in Nat /\ Due(x)' = Due(x) /\ delivered[x] \in Nat
        /\ Worth(x) \in Nat /\ Worth(x)' \in Nat
        /\ Worth(x) = delivered[x] + Cardinality(Live(x)) + Due(x)
        /\ Worth(x)' = delivered'[x] + Cardinality(Live(x)') + Due(x)'
  <2>1. Countable'
    BY <1>1, WorthsAreNat, PTL
  <2>2. Finite'
    BY DEF Finite
  <2>3. \A x \in Messages : Due(x)' = Due(x)
    BY <1>2 DEF Due, Shares
  <2> QED
    BY <1>0, <2>1, <2>2, <2>3, WorthIsNat DEF Countable, Worth
\* The batch of p may lose its current row to nobody else.
<1>c. ASSUME pc'[p] = "sent" => cur'[p] \notin batch'[p] PROVE CurLeft'
  BY <1>0, <1>3, <1>c DEF CurLeft, OnlyMoves
<1>5. ASSUME NoneRevived, NEW m, NEW d \in {0, 1},
             faults' = faults + d, Delivers(m, d)
      PROVE  FaultsPay'
  <2>0. Price(d) \in Nat /\ (d = 1 => Price(d) >= 1)
    BY <1>0 DEF Price
  <2>1. ASSUME NEW x \in Messages
        PROVE  Worth(x)' <= IF x = m THEN Worth(x) + Price(d) ELSE Worth(x)
    <3>1. Cardinality(Live(x)') <= Cardinality(Live(x))
      BY <1>0, <1>1, <1>5, FS_EmptySet, LiveMoves DEF NoneRevived
    <3>2. CASE delivered'[x] = delivered[x]
      <4>1. Worth(x)' <= Worth(x)
        BY <1>4, <3>1, <3>2
      <4> QED
        BY <1>4, <2>0, <4>1
    <3>3. CASE delivered'[x] = delivered[x] + 1 /\ x = m /\ d = 1
      <4>1. Worth(x)' <= Worth(x) + 1
        BY <1>4, <3>1, <3>3
      <4> QED
        BY <1>4, <2>0, <3>3, <4>1
    <3> QED
      BY <1>5, <3>2, <3>3 DEF Delivers
  <2>2. Within(m, d)
    BY <2>1 DEF Within
  <2> QED
    BY <1>0, <1>1, <1>5, <2>2, WorthPays
\* The rows a relay may deliver shrink if it did not come from Send.
<1>6. ASSUME pc[p] # "sent",
             \A k \in DOMAIN rows : k \in batch'[p] => k \in batch[p] \/ Pending(k)
      PROVE  NoneRevived
  <2>1. ASSUME NEW x \in Messages PROVE Live(x)' \subseteq Live(x)
    <3>1. \A k \in DOMAIN rows : MayDeliver(x, k, p)' => MayDeliver(x, k, p)
      BY <1>3, <1>6 DEF MayDeliver, Settles
    <3>2. Live(x)' \subseteq Live(x) \cup {}
      BY <1>3, <3>1, OnlyRevives
    <3> QED
      BY <3>2
  <2> QED
    BY <2>1 DEF NoneRevived
\* A step that delivers nothing and does not come from Send.
<1>7. ASSUME pc[p] # "sent", pc'[p] # "sent",
             \A k \in DOMAIN rows : k \in batch'[p] => k \in batch[p] \/ Pending(k),
             UNCHANGED delivered, UNCHANGED faults \/ faults' = faults + 1
      PROVE  FaultsPay' /\ CurLeft'
  <2>1. CurLeft'
    BY <1>c, <1>7
  <2>2. PICK d \in {0, 1} : faults' = faults + d
    BY <1>0, <1>7
  <2>3. NoneRevived
    BY <1>6, <1>7
  <2>4. Delivers(p, d)
    BY <1>7 DEF Delivers
  <2>5. FaultsPay'
    BY <1>5, <2>2, <2>3, <2>4
  <2> QED
    BY <2>1, <2>5
<1>8. CASE Claim(p)
  <2>1. /\ pc[p] # "sent" /\ pc'[p] # "sent" /\ UNCHANGED <<delivered, faults>>
        /\ \A k \in batch'[p] : Pending(k)
    BY <1>0, <1>8 DEF Claim, Claimable, Jump, tables
  <2> QED
    BY <1>7, <2>1
<1>9. CASE ClaimFails(p) \/ PublishDLQ(p) \/ FinishBatch(p)
  <2>1. /\ pc[p] # "sent" /\ pc'[p] # "sent" /\ UNCHANGED <<delivered, batch>>
        /\ UNCHANGED faults \/ faults' = faults + 1
    BY <1>0, <1>9 DEF ClaimFails, PublishDLQ, FinishBatch, Continue, Jump, Fault, tables
  <2> QED
    BY <1>7, <2>1
<1>10. CASE MarkUnroutable(p) \/ MarkFailed(p)
  <2>1. /\ pc[p] # "sent" /\ pc'[p] # "sent" /\ UNCHANGED <<delivered, batch>>
        /\ UNCHANGED faults \/ faults' = faults + 1
    BY <1>0, <1>10 DEF MarkUnroutable, MarkFailed, RecordFailure, Continue, Jump, Fault
  <2> QED
    BY <1>7, <2>1
<1>11. CASE GetAttempts(p)
  <2>1. /\ pc[p] # "sent" /\ pc'[p] # "sent" /\ UNCHANGED <<delivered, batch>>
        /\ UNCHANGED faults \/ faults' = faults + 1
    BY <1>0, <1>11 DEF GetAttempts, Continue, Jump, Fault, tables
  <2> QED
    BY <1>7, <2>1
<1>12. CASE MarkDLQ(p)
  <2>1. /\ pc[p] # "sent" /\ pc'[p] # "sent" /\ UNCHANGED <<delivered, batch>>
        /\ UNCHANGED faults \/ faults' = faults + 1
    BY <1>0, <1>12 DEF MarkDLQ, StatementFails, Continue, Jump, Fault
  <2> QED
    BY <1>7, <2>1
<1>13. CASE NoSender(p)
  <2>1. PICK k \in batch[p] : Process(p, k, "unroutable")
    BY <1>13 DEF NoSender
  <2>2. /\ pc[p] # "sent" /\ pc'[p] # "sent" /\ batch'[p] \subseteq batch[p]
    BY <1>0, <2>1 DEF Process, Jump
  <2>3. UNCHANGED delivered /\ (UNCHANGED faults \/ faults' = faults + 1)
    BY <1>13 DEF NoSender, Fault
  <2> QED
    BY <1>7, <2>2, <2>3
<1>14. CASE SendFails(p)
  <2>1. PICK k \in batch[p] : /\ Process(p, k, "failed")
                              /\ \/ UNCHANGED <<delivered, faults>>
                                 \/ Accepted(rows[k].msg) /\ Fault
    BY <1>14 DEF SendFails
  <2>2. /\ pc[p] # "sent" /\ pc'[p] # "sent" /\ batch'[p] \subseteq batch[p]
    BY <1>0, <2>1 DEF Process, Jump
  <2>3. CASE UNCHANGED <<delivered, faults>>
    BY <1>7, <2>2, <2>3
  <2>4. CASE Accepted(rows[k].msg) /\ Fault
    <3>1. PICK m : m = rows[k].msg
      OBVIOUS
    <3>2. Delivers(m, 1)
      BY <1>0, <2>4, <3>1 DEF Accepted, Delivers
    <3>3. NoneRevived
      BY <1>6, <2>2
    <3>4. CurLeft'
      BY <1>c, <2>2
    <3>5. faults' = faults + 1
      BY <2>4 DEF Fault
    <3>6. FaultsPay'
      BY <1>5, <3>2, <3>3, <3>5
    <3> QED
      BY <3>4, <3>6
  <2> QED
    BY <2>1, <2>3, <2>4
<1>15. CASE SendOK(p)
  <2>1. PICK k \in batch[p] : Process(p, k, "sent") /\ Accepted(rows[k].msg) /\ UNCHANGED faults
    BY <1>15 DEF SendOK
  <2>2. /\ pc[p] = "next" /\ pc'[p] = "sent" /\ cur'[p] = k /\ UNCHANGED rows
        /\ batch'[p] = batch[p] \ {k}
    BY <1>0, <2>1 DEF Process, Jump
  <2>3. CurLeft'
    BY <1>c, <2>2
  <2>4. k \in DOMAIN rows
    BY <1>0 DEF CursorInv
  <2>5. PICK m : m = rows[k].msg
    OBVIOUS
  <2>6. m \in Messages
    <3>1. rows[k] \in Row
      BY <1>0, <2>4
    <3> QED
      BY <2>5, <3>1 DEF Row
  <2>7. delivered'[m] = delivered[m] + 1
        /\ \A x \in Messages \ {m} : delivered'[x] = delivered[x]
    BY <1>0, <2>1, <2>5, <2>6 DEF Accepted
  <2>8. NoneRevived
    BY <1>6, <2>2
  <2>9. <<k, p>> \in Live(m)
    BY <2>2, <2>4, <2>5 DEF Live, MayDeliver
  <2>10. Live(m)' \subseteq Live(m) \ {<<k, p>>}
    <3>1. ~MayDeliver(m, k, p)'
      BY <2>2 DEF MayDeliver
    <3>2. <<k, p>> \notin Live(m)'
      BY <3>1 DEF Live
    <3> QED
      BY <2>6, <2>8, <3>2 DEF NoneRevived
  <2>11. Cardinality(Live(m)') <= Cardinality(Live(m)) - 1
    BY <1>0, <1>1, <2>6, <2>9, <2>10, FS_EmptySet, LiveMoves
  <2>12. Worth(m)' <= Worth(m)
    BY <1>4, <2>6, <2>7, <2>11
  <2>13. ASSUME NEW x \in Messages, x # m PROVE Worth(x)' <= Worth(x)
    <3>1. Cardinality(Live(x)') <= Cardinality(Live(x))
      BY <1>0, <1>1, <2>8, FS_EmptySet, LiveMoves DEF NoneRevived
    <3> QED
      BY <1>4, <2>7, <2>13, <3>1
  <2>14. \A x \in Messages : Worth(x)' <= Worth(x) /\ Worth(x) + Price(0) = Worth(x)
    BY <1>4, <2>12, <2>13 DEF Price
  <2>15. Within(m, 0)
    BY <2>14 DEF Within
  <2>16. faults' = faults + 0
    BY <1>0, <2>1
  <2>17. FaultsPay'
    BY <1>0, <1>1, <2>15, <2>16, WorthPays
  <2> QED
    BY <2>3, <2>17
<1>16. CASE MarkSent(p)
  <2>1. /\ pc[p] = "sent" /\ pc'[p] = "next" /\ UNCHANGED <<delivered, batch>>
        /\ \/ SetStatus(rows[cur[p]].msg, {"pending"}, "sent") /\ UNCHANGED faults
           \/ Fault /\ UNCHANGED rows
    BY <1>0, <1>16 DEF MarkSent, Continue, Jump
  <2>2. CurLeft'
    BY <1>c, <2>1
  <2>3. cur[p] \in DOMAIN rows /\ cur[p] \notin batch[p] /\ rows[cur[p]].msg \in Messages
    BY <1>0, <2>1, CurrentMessage DEF CurLeft, CursorInv, Busy
  <2>4. CASE SetStatus(rows[cur[p]].msg, {"pending"}, "sent") /\ UNCHANGED faults
    <3>1. rows'[cur[p]].status # "pending"
      <4>1. "sent" \in Status
        BY DEF Status
      <4>2. rows'[cur[p]].status = IF rows[cur[p]].status \in {"pending"}
                                   THEN "sent" ELSE rows[cur[p]].status
        BY <1>0, <2>3, <2>4, <4>1, SetStatusRows
      <4> QED
        BY <4>2
    <3>2. ASSUME NEW x \in Messages PROVE Live(x)' \subseteq Live(x)
      <4>1. \A k \in DOMAIN rows : Pending(k)' => k # cur[p]
        BY <3>1 DEF Pending
      <4>2. \A k \in DOMAIN rows : MayDeliver(x, k, p)' => MayDeliver(x, k, p)
        BY <1>3, <2>1, <2>3, <4>1 DEF MayDeliver, Settles
      <4>3. Live(x)' \subseteq Live(x) \cup {}
        BY <1>3, <4>2, OnlyRevives
      <4> QED
        BY <4>3
    <3>3. NoneRevived
      BY <3>2 DEF NoneRevived
    <3>4. faults' = faults + 0
      BY <1>0, <2>4
    <3>5. Delivers(p, 0)
      BY <2>1 DEF Delivers
    <3>6. FaultsPay'
      BY <1>5, <3>3, <3>4, <3>5
    <3> QED
      BY <2>2, <3>6
  <2>5. CASE Fault /\ UNCHANGED rows
    <3>1. PICK m : m = rows[cur[p]].msg
      OBVIOUS
    <3>2. ASSUME NEW x \in Messages PROVE Live(x)' \subseteq Live(x) \cup {<<cur[p], p>>}
      <4>1. \A k \in DOMAIN rows :
              MayDeliver(x, k, p)' => MayDeliver(x, k, p) \/ <<k, p>> \in {<<cur[p], p>>}
        BY <2>1, <2>5 DEF MayDeliver, Pending
      <4> QED
        BY <1>3, <4>1, OnlyRevives
    <3>3. ASSUME NEW x \in Messages, x # m PROVE Live(x)' \subseteq Live(x)
      <4>1. \A k \in DOMAIN rows : MayDeliver(x, k, p)' => MayDeliver(x, k, p)
        BY <2>1, <2>5, <3>1, <3>3 DEF MayDeliver, Pending
      <4>2. Live(x)' \subseteq Live(x) \cup {}
        BY <1>3, <4>1, OnlyRevives
      <4> QED
        BY <4>2
    <3>4. Price(1) \in Nat /\ Price(1) >= 1
      BY <1>0 DEF Price
    <3>5. ASSUME NEW x \in Messages
          PROVE  Worth(x)' <= IF x = m THEN Worth(x) + Price(1) ELSE Worth(x)
      <4>1. Cardinality(Live(x)') <= Cardinality(Live(x)) + 1
        <5>1. IsFiniteSet({<<cur[p], p>>}) /\ Cardinality({<<cur[p], p>>}) = 1
          BY FS_Singleton
        <5>2. Cardinality(Live(x)') <= Cardinality(Live(x)) + Cardinality({<<cur[p], p>>})
          BY <1>0, <1>1, <3>2, <5>1, LiveMoves
        <5> QED
          BY <5>1, <5>2
      <4>2. x # m => Cardinality(Live(x)') <= Cardinality(Live(x))
        BY <1>0, <1>1, <3>3, FS_EmptySet, LiveMoves
      <4>3. Worth(x)' <= Worth(x) + 1 /\ (x # m => Worth(x)' <= Worth(x))
        BY <1>4, <2>1, <4>1, <4>2
      <4> QED
        BY <1>4, <3>4, <4>3
    <3>6. Within(m, 1)
      BY <3>5 DEF Within
    <3>7. faults' = faults + 1
      BY <2>5 DEF Fault
    <3>8. FaultsPay'
      BY <1>0, <1>1, <3>6, <3>7, WorthPays
    <3> QED
      BY <2>2, <3>8
  <2> QED
    BY <2>1, <2>4, <2>5
<1> QED
  BY <1>8, <1>9, <1>10, <1>11, <1>12, <1>13, <1>14, <1>15, <1>16 DEF RelayStep

LEMMA InitBoughtInv ==
  ASSUME Finite, Init PROVE BoughtInv
<1>1. \A m \in Messages : Worth(m) = Shares
  <2>1. \A m \in Messages : Live(m) = {} /\ Due(m) = Shares /\ delivered[m] = 0
    BY DEF Init, Live, Due, ToInsert
  <2>2. Cardinality({}) = 0
    BY FS_EmptySet
  <2> QED
    BY <2>1, <2>2, SharesAreNumbers DEF Worth
<1>2. \A m \in Messages : Paid[m] = 0
  BY <1>1, SharesAreNumbers DEF Paid, Beyond
<1>3. Total(Paid, Messages) = 0
  BY <1>2, TotalOfZeros DEF Finite
<1>4. FaultsPay
  BY <1>3, SharesAreNumbers DEF FaultsPay, Init
<1>5. CurLeft
  BY DEF CurLeft, Init
<1> QED
  BY <1>4, <1>5, InitTypeInv DEF BoughtInv

LEMMA NextBoughtInv ==
  ASSUME Finite, BoughtInv, [Next]_vars
  PROVE  BoughtInv'
<1>1. TypeInv'
  BY NextTypeInv DEF BoughtInv
<1>3. ASSUME NEW m \in Messages, CallStep(m) PROVE FaultsPay' /\ CurLeft'
  BY <1>3, CallStepPays
<1>4. ASSUME NEW p \in Procs, ProcStep(p) PROVE FaultsPay' /\ CurLeft'
  BY <1>4, ProcStepPays
<1>5. ASSUME NEW p \in Procs, RelayStep(p) PROVE FaultsPay' /\ CurLeft'
  BY <1>5, RelayStepPays
<1>6. ASSUME UNCHANGED vars PROVE FaultsPay' /\ CurLeft'
  <2>1. \A m \in Messages : Worth(m)' = Worth(m)
    BY <1>6 DEF vars, Worth, Live, MayDeliver, Due, Pending, Shares
  <2>2. Paid' = Paid
    BY <2>1 DEF Paid, Beyond, Shares
  <2>3. FaultsPay'
    BY <1>6, <2>2 DEF BoughtInv, FaultsPay, vars, Shares
  <2>4. CurLeft'
    BY <1>6 DEF BoughtInv, CurLeft, vars
  <2> QED
    BY <2>3, <2>4
<1>7. CASE \E m \in Messages : CallStep(m)
  BY <1>1, <1>3, <1>7 DEF BoughtInv
<1>8. CASE \E p \in Procs : ProcStep(p)
  BY <1>1, <1>4, <1>8 DEF BoughtInv
<1>9. CASE \E p \in Procs : RelayStep(p)
  BY <1>1, <1>5, <1>9 DEF BoughtInv
<1>10. CASE UNCHANGED vars
  BY <1>1, <1>6, <1>10 DEF BoughtInv
<1> QED
  BY <1>7, <1>8, <1>9, <1>10 DEF Next, ProcStep

\* The deliveries there were are worth no more than all there may be.
LEMMA PaidCoversExtra ==
  ASSUME Finite, BoughtInv
  PROVE  DuplicatesAreFaults
<1>0. TypeOK /\ FaultsPay /\ faults \in Nat /\ Shares \in Nat
  BY ConstantsAssumption, SharesAreNumbers DEF BoughtInv, TypeInv, TypeOK
<1>1. \A x \in Messages :
        /\ delivered[x] \in Nat /\ Worth(x) \in Nat /\ delivered[x] <= Worth(x)
  BY <1>0, WorthIsNat DEF Worth
<1>2. \A x \in Messages :
        /\ Extra[x] = IF delivered[x] > Shares THEN delivered[x] - Shares ELSE 0
        /\ Paid[x] = IF Worth(x) > Shares THEN Worth(x) - Shares ELSE 0
  BY DEF Extra, Paid, Beyond, Shares
<1>3. \A x \in Messages : Extra[x] \in Nat /\ Paid[x] \in Nat /\ Extra[x] <= Paid[x]
  BY <1>0, <1>1, <1>2
<1>4. AtMost(Extra, Paid, Messages, 0, 0)
  BY <1>3 DEF AtMost
<1>5. /\ Total(Paid, Messages) \in Nat /\ Total(Extra, Messages) \in Nat
      /\ Total(Extra, Messages) <= Total(Paid, Messages) + 0
  BY <1>4, TotalGrows DEF Finite
<1>6. Total(Extra, Messages) <= Shares * faults
  <2>1. Shares * faults \in Nat
    BY <1>0
  <2> QED
    BY <1>0, <1>5, <2>1 DEF FaultsPay
<1> QED
  BY <1>6 DEF DuplicatesAreFaults, Total, Shares

\* With any finite sets of processes and of messages, and whether or not an
\* insert whose answer was lost took effect: the deliveries of a message beyond
\* one by each process are no more than the faults pay for, a fault costing at
\* most one delivery by each process.
THEOREM DuplicatesArePaidFor ==
  IsFiniteSet(Messages) /\ IsFiniteSet(Procs) => (Spec => []DuplicatesAreFaults)
<1> SUFFICES ASSUME Finite
             PROVE  Spec => []DuplicatesAreFaults
  BY DEF Finite
<1>1. Init => BoughtInv
  BY InitBoughtInv
<1>2. BoughtInv /\ [Next]_vars => BoughtInv'
  BY NextBoughtInv
<1>3. BoughtInv => DuplicatesAreFaults
  BY PaidCoversExtra
<1> QED
  BY <1>1, <1>2, <1>3, PTL DEF Spec
=============================================================================
