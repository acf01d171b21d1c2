---------------------- MODULE ConversationRoutingProofs ----------------------
(***************************************************************************)
(* Proofs about ConversationRouting, for any conversations, agents, queues *)
(* and requests at work.                                                   *)
(***************************************************************************)
EXTENDS ConversationRouting, SumTheorems, TLAPS, FiniteSetTheorems

\* What a transaction has in hand: an AutoAssign gives an agent to an open
\* conversation that has none; no other change reopens or moves a resolved one.
TxOK(t) ==
  /\ t.read.status # "absent"
  /\ t.auto /\ t.at = "pick" => t.read.agent = None
  /\ t.auto /\ t.at # "pick" =>
       /\ t.read = Opened /\ t.write.status = "open" /\ t.write.agent \in Agents
  /\ ~t.auto =>
       /\ t.at # "pick" /\ t.write.status # "absent"
       /\ t.read.status = "resolved" => t.write = t.read

AbsentIsEmpty == \A c \in Convs : conv[c].status = "absent" => conv[c] = Absent

TxsOK == \A w \in Workers : Active(w) => TxOK(tx[w])

RoutingInv == TypeOK /\ AbsentIsEmpty /\ TxsOK

-----------------------------------------------------------------------------
(* Types and transactions. *)

\* Whom PickAgent finds is an agent.
LEMMA PickedIsAgent ==
  ASSUME NEW c \in Convs, TypeOK
  PROVE  PickAgent(c) \subseteq Agents
<1>1. \A q \in Queues : Eligible(q) \subseteq Agents
  BY RoutingAssumption DEF Eligible
<1>2. ASSUME NEW q \in Queues PROVE Select(q, sticky[c]) \subseteq Agents
  BY <1>1, <1>2 DEF Select, Nth, LeastBusy
<1>3. First(c, {n \in Hops[c] : Eligible(Chain[c][n]) # {}}) \subseteq Queues
  <2>1. ASSUME NEW n \in Hops[c] PROVE Chain[c][n] \in Queues
    <3>1. n \in 0 .. MaxOverflowHops - 1 /\ \A k \in 0 .. n : Chain[c][k] \in Queues
      BY <2>1 DEF Hops
    <3> QED BY <3>1 DEF MaxOverflowHops
  <2> QED BY <2>1 DEF First
<1> QED BY <1>2, <1>3 DEF PickAgent

\* The changes keep a row typed, and a resolved row as it is.
LEMMA ChangesTyped ==
  ASSUME NEW r \in Row, r.status # "absent"
  PROVE  /\ \A a \in Agents \cup {None} :
              /\ AssignTo(r, a) \in Row /\ AssignTo(r, a).status = r.status
              /\ r.status = "resolved" => AssignTo(r, a) = r
              /\ r.status = "open" => AssignTo(r, a).agent = a
         /\ ResolveIt(r) \in Row /\ ResolveIt(r).status # "absent"
         /\ r.status = "resolved" => ResolveIt(r) = r
<1>1. r = [status |-> r.status, agent |-> r.agent] /\ r.agent \in Agents \cup {None}
  BY DEF Row
<1> QED BY <1>1 DEF AssignTo, ResolveIt, Row

\* A request that begins has read a row that is there.
LEMMA BeginOK ==
  ASSUME RoutingInv, NEW w \in Workers, NEW c \in Convs, NEW at \in {"pick", "upsert", "put"},
         NEW auto \in BOOLEAN, NEW new \in Row, Begin(w, c, at, auto, new),
         auto <=> at = "pick",
         auto => conv[c].agent = None /\ new = conv[c],
         ~auto => new.status # "absent",
         ~auto /\ conv[c].status = "resolved" => new = conv[c]
  PROVE  RoutingInv'
<1> DEFINE t == [at |-> at, auto |-> auto, conv |-> c, read |-> conv[c], write |-> new]
<1>1. /\ tx' = [tx EXCEPT ![w] = t] /\ conv[c] # Absent
      /\ UNCHANGED <<conv, load, online, sticky, strays>>
  BY DEF Begin
<1>2. t \in Tx
  BY DEF Tx, RoutingInv, TypeOK
<1>3. TypeOK'
  BY <1>1, <1>2 DEF RoutingInv, TypeOK
<1>4. TxOK(t)
  BY <1>1 DEF TxOK, RoutingInv, AbsentIsEmpty
<1>5. TxsOK'
  BY <1>1, <1>4 DEF TxsOK, Active, RoutingInv, TypeOK
<1> QED BY <1>1, <1>3, <1>5 DEF RoutingInv, AbsentIsEmpty

\* An active transaction has the type of one.
LEMMA ActiveTx ==
  ASSUME RoutingInv, NEW w \in Workers, Active(w)
  PROVE  /\ tx[w] \in Tx /\ TxOK(tx[w])
         /\ tx[w].conv \in Convs /\ tx[w].read \in Row /\ tx[w].write \in Row
         /\ tx[w].auto \in BOOLEAN
<1>1. tx[w] \in Tx /\ TxOK(tx[w])
  BY DEF RoutingInv, TypeOK, TxsOK, Active
<1> QED BY <1>1 DEF Tx

\* A worker that is done, or has moved on with a sound transaction.
LEMMA TxChanged ==
  ASSUME RoutingInv, NEW w \in Workers, NEW t \in Tx \cup {Idle},
         tx' = [tx EXCEPT ![w] = t], t # Idle => TxOK(t)
  PROVE  tx' \in [Workers -> Tx \cup {Idle}] /\ TxsOK'
BY DEF RoutingInv, TypeOK, TxsOK, Active

\* AutoAssign has chosen, or ends.
LEMMA PickOK ==
  ASSUME RoutingInv, NEW w \in Workers, Pick(w)
  PROVE  RoutingInv'
<1>1. /\ Active(w) /\ tx[w].at = "pick"
      /\ UNCHANGED <<conv, load, online, sticky, strays>>
  BY DEF Pick
<1>2. /\ tx[w] \in Tx /\ TxOK(tx[w]) /\ tx[w].conv \in Convs
      /\ tx[w].read \in Row /\ tx[w].write \in Row /\ tx[w].auto \in BOOLEAN
  BY <1>1, ActiveTx
<1>3. tx' \in [Workers -> Tx \cup {Idle}] /\ TxsOK'
  <2>1. CASE PickAgent(tx[w].conv) = {} \/ tx[w].read.status = "resolved"
    <3>1. tx' = [tx EXCEPT ![w] = Idle]
      BY <2>1 DEF Pick
    <3> QED BY <3>1, TxChanged
  <2>2. CASE ~(PickAgent(tx[w].conv) = {} \/ tx[w].read.status = "resolved")
    <3> DEFINE t(a) == [at |-> "upsert", auto |-> TRUE, conv |-> tx[w].conv,
                        read |-> tx[w].read, write |-> AssignTo(tx[w].read, a)]
    <3>1. PICK a \in PickAgent(tx[w].conv) : tx' = [tx EXCEPT ![w] = t(a)]
      BY <2>2 DEF Pick
    <3>2. a \in Agents
      BY <3>1, <1>2, PickedIsAgent DEF RoutingInv
    <3>3. tx[w].read = Opened
      BY <1>1, <1>2, <2>2 DEF TxOK, Row, Opened
    <3>4. AssignTo(tx[w].read, a) = [status |-> "open", agent |-> a]
      BY <3>3 DEF AssignTo, Opened
    <3>5. t(a) \in Tx /\ TxOK(t(a))
      BY <3>2, <3>3, <3>4, <1>2 DEF Tx, TxOK, Row
    <3>6. t(a) \in Tx \cup {Idle} /\ (t(a) # Idle => TxOK(t(a)))
      BY <3>5
    <3> HIDE DEF t
    <3> QED BY <3>1, <3>6, TxChanged
  <2> QED BY <2>1, <2>2
<1> QED BY <1>1, <1>3 DEF RoutingInv, TypeOK, AbsentIsEmpty

\* The locked row waits for the commit.
LEMMA UpsertOK ==
  ASSUME RoutingInv, NEW w \in Workers, Upsert(w)
  PROVE  RoutingInv'
<1>1. /\ Active(w) /\ tx[w].at = "upsert" /\ tx' = [tx EXCEPT ![w].at = "commit"]
      /\ UNCHANGED <<conv, load, online, strays>>
  BY DEF Upsert
<1>2. /\ tx[w] \in Tx /\ TxOK(tx[w]) /\ tx[w].conv \in Convs
      /\ tx[w].read \in Row /\ tx[w].write \in Row /\ tx[w].auto \in BOOLEAN
  BY <1>1, ActiveTx
<1> DEFINE t == [tx[w] EXCEPT !.at = "commit"]
<1>3. tx' = [tx EXCEPT ![w] = t]
  BY <1>1 DEF RoutingInv, TypeOK
<1>4. t \in Tx
  BY <1>2 DEF Tx
<1>5. TxOK(t)
  BY <1>1, <1>2 DEF Tx, TxOK
<1>6. tx' \in [Workers -> Tx \cup {Idle}] /\ TxsOK'
  <2>1. t \in Tx \cup {Idle} /\ (t # Idle => TxOK(t))
    BY <1>4, <1>5
  <2> HIDE DEF t
  <2> QED BY <1>3, <2>1, TxChanged
<1>7. sticky' \in [Convs -> Agents \cup {None}]
  <2>1. tx[w].auto => tx[w].write.agent \in Agents
    BY <1>1, <1>2 DEF TxOK
  <2> QED BY <1>2, <2>1 DEF Upsert, RoutingInv, TypeOK
<1> QED BY <1>1, <1>6, <1>7 DEF RoutingInv, TypeOK, AbsentIsEmpty

\* The loads stay natural numbers.
LEMMA CommitOK ==
  ASSUME RoutingInv, NEW w \in Workers, Commit(w)
  PROVE  RoutingInv'
<1>1. /\ Active(w) /\ tx[w].at = "commit"
      /\ conv' = [conv EXCEPT ![tx[w].conv] = tx[w].write]
      /\ load' = Counted(tx[w])
      /\ strays' = strays + One(conv[tx[w].conv] # tx[w].read)
      /\ tx' = [tx EXCEPT ![w] = Idle]
      /\ UNCHANGED <<online, sticky>>
  BY DEF Commit
<1>2. /\ tx[w] \in Tx /\ TxOK(tx[w]) /\ tx[w].conv \in Convs
      /\ tx[w].read \in Row /\ tx[w].write \in Row /\ tx[w].auto \in BOOLEAN
  BY <1>1, ActiveTx
<1>3. tx' \in [Workers -> Tx \cup {Idle}] /\ TxsOK'
  BY <1>1, TxChanged
<1>4. load' \in [Agents -> Nat]
  BY <1>1 DEF Counted, RoutingInv, TypeOK
<1>5. tx[w].write.status # "absent"
  BY <1>1, <1>2 DEF TxOK
<1>6. conv' \in [Convs -> Row] /\ AbsentIsEmpty'
  BY <1>1, <1>2, <1>5 DEF RoutingInv, TypeOK, AbsentIsEmpty
<1>7. strays' \in Nat
  BY <1>1 DEF One, RoutingInv, TypeOK
<1> QED BY <1>1, <1>3, <1>4, <1>6, <1>7 DEF RoutingInv, TypeOK

\* ListService writes what it made of the row it read.
LEMMA PutOK ==
  ASSUME RoutingInv, NEW w \in Workers, Put(w)
  PROVE  RoutingInv'
<1>1. /\ Active(w) /\ tx[w].at = "put"
      /\ conv' = [conv EXCEPT ![tx[w].conv] = tx[w].write]
      /\ strays' = strays + One(\/ conv[tx[w].conv] # tx[w].read
                                \/ Occupied(tx[w].read) # Occupied(tx[w].write))
      /\ tx' = [tx EXCEPT ![w] = Idle]
      /\ UNCHANGED <<load, online, sticky>>
  BY DEF Put
<1>2. /\ tx[w] \in Tx /\ TxOK(tx[w]) /\ tx[w].conv \in Convs
      /\ tx[w].read \in Row /\ tx[w].write \in Row /\ tx[w].auto \in BOOLEAN
  BY <1>1, ActiveTx
<1>3. tx' \in [Workers -> Tx \cup {Idle}] /\ TxsOK'
  BY <1>1, TxChanged
<1>4. tx[w].write.status # "absent"
  BY <1>1, <1>2 DEF TxOK
<1>5. conv' \in [Convs -> Row] /\ AbsentIsEmpty'
  BY <1>1, <1>2, <1>4 DEF RoutingInv, TypeOK, AbsentIsEmpty
<1>6. strays' \in Nat
  BY <1>1 DEF One, RoutingInv, TypeOK
<1> QED BY <1>1, <1>3, <1>5, <1>6 DEF RoutingInv, TypeOK

\* RoutingInv is inductive.
LEMMA RoutingInvInductive ==
  ASSUME RoutingInv, [Next]_vars
  PROVE  RoutingInv'
<1>1. ASSUME NEW w \in Workers, NEW c \in Convs,
             \/ Assign(w, c) \/ Unassign(w, c) \/ Resolve(w, c) \/ AutoAssign(w, c)
             \/ ListAssign(w, c) \/ ListResolve(w, c)
      PROVE  RoutingInv'
  <2>1. conv[c] \in Row
    BY DEF RoutingInv, TypeOK
  <2>2. ASSUME NEW at \in {"upsert", "put"}, NEW a \in Agents \cup {None},
               Begin(w, c, at, FALSE, AssignTo(conv[c], a))
        PROVE  RoutingInv'
    <3>1. conv[c].status # "absent"
      BY <2>2 DEF Begin, RoutingInv, AbsentIsEmpty
    <3>2. /\ AssignTo(conv[c], a) \in Row /\ AssignTo(conv[c], a).status # "absent"
          /\ conv[c].status = "resolved" => AssignTo(conv[c], a) = conv[c]
      BY <2>1, <3>1, ChangesTyped
    <3> QED BY <2>2, <3>2, BeginOK
  <2>3. ASSUME NEW at \in {"upsert", "put"}, Begin(w, c, at, FALSE, ResolveIt(conv[c]))
        PROVE  RoutingInv'
    <3>1. conv[c].status # "absent"
      BY <2>3 DEF Begin, RoutingInv, AbsentIsEmpty
    <3>2. /\ ResolveIt(conv[c]) \in Row /\ ResolveIt(conv[c]).status # "absent"
          /\ conv[c].status = "resolved" => ResolveIt(conv[c]) = conv[c]
      BY <2>1, <3>1, ChangesTyped
    <3> QED BY <2>3, <3>2, BeginOK
  <2>4. CASE Assign(w, c)
    BY <2>2, <2>4, RoutingAssumption DEF Assign, Mutate
  <2>5. CASE Unassign(w, c)
    BY <2>2, <2>5 DEF Unassign, Mutate
  <2>6. CASE Resolve(w, c)
    BY <2>3, <2>6 DEF Resolve, Mutate
  <2>7. CASE AutoAssign(w, c)
    BY <2>1, <2>7, BeginOK DEF AutoAssign
  <2>8. CASE ListAssign(w, c)
    BY <2>2, <2>8, RoutingAssumption DEF ListAssign
  <2>9. CASE ListResolve(w, c)
    BY <2>3, <2>9 DEF ListResolve
  <2> QED BY <1>1, <2>4, <2>5, <2>6, <2>7, <2>8, <2>9
<1>2. ASSUME NEW w \in Workers, Rollback(w) PROVE RoutingInv'
  <2>1. tx' \in [Workers -> Tx \cup {Idle}] /\ TxsOK'
    BY <1>2, TxChanged DEF Rollback
  <2> QED BY <1>2, <2>1 DEF Rollback, RoutingInv, TypeOK, AbsentIsEmpty
<1>3. ASSUME NEW c \in Convs, Ingest(c) PROVE RoutingInv'
  BY <1>3 DEF Ingest, One, RoutingInv, TypeOK, AbsentIsEmpty, TxsOK, Active, Opened, Row
<1>4. ASSUME NEW a \in Commuters, Toggle(a) PROVE RoutingInv'
  BY <1>4, RoutingAssumption
     DEF Toggle, RoutingInv, TypeOK, AbsentIsEmpty, TxsOK, Active
<1>5. CASE UNCHANGED vars
  BY <1>5 DEF vars, RoutingInv, TypeOK, AbsentIsEmpty, TxsOK, Active
<1> QED BY <1>1, <1>2, <1>3, <1>4, <1>5, PickOK, UpsertOK, CommitOK, PutOK DEF Next

LEMMA RoutingInvInit == Init => RoutingInv
BY DEF Init, RoutingInv, TypeOK, AbsentIsEmpty, TxsOK, Active, Absent, Row

LEMMA RoutingInvHolds == Spec => []RoutingInv
BY RoutingInvInit, RoutingInvInductive, PTL DEF Spec

\* Every variable keeps its type, whatever transactions run at the same time:
\* no load is negative, and AutoAssign only chooses agents (router.go Select).
THEOREM RoutingTypeCorrect == Spec => []TypeOK
BY RoutingInvHolds, PTL DEF RoutingInv

-----------------------------------------------------------------------------
(* Resolve is terminal. *)

\* A step leaves a resolved conversation as it is, or writes it over unread.
LEMMA ResolvedStep ==
  ASSUME RoutingInv, [Next]_vars, NEW c \in Convs,
         conv[c].status = "resolved", conv'[c] # conv[c]
  PROVE  strays' > strays
<1>1. strays \in Nat
  BY DEF RoutingInv, TypeOK
<1>2. ASSUME NEW w \in Workers, Commit(w) \/ Put(w) PROVE strays' > strays
  <2>1. /\ Active(w) /\ tx[w].at # "pick"
        /\ conv' = [conv EXCEPT ![tx[w].conv] = tx[w].write]
        /\ conv[tx[w].conv] # tx[w].read => strays' = strays + 1
    BY <1>2 DEF Commit, Put, One
  <2>2. TxOK(tx[w]) /\ tx[w].auto \in BOOLEAN
    BY <2>1, ActiveTx
  <2>3. tx[w].conv = c /\ tx[w].write # conv[c]
    BY <2>1 DEF RoutingInv, TypeOK
  <2>4. conv[c] # tx[w].read
    BY <2>1, <2>2, <2>3 DEF TxOK, Opened
  <2> QED BY <1>1, <2>1, <2>3, <2>4
<1>3. ASSUME NEW d \in Convs, Ingest(d) PROVE strays' > strays
  <2>1. c = d
    BY <1>3 DEF Ingest, RoutingInv, TypeOK
  <2>2. conv[d] \notin {Absent, Opened}
    BY <2>1 DEF Absent, Opened
  <2> QED BY <1>1, <1>3, <2>2 DEF Ingest, One
<1> QED BY <1>2, <1>3
        DEF Next, Assign, Unassign, Resolve, AutoAssign, ListAssign, ListResolve, Mutate,
            Begin, Pick, Upsert, Rollback, Toggle, vars

\* A resolved conversation stays resolved, with its agent, unless some other
\* request wrote it over unread (conversation.go Assign and Resolve).
THEOREM ResolveIsTerminal == Spec => ResolvedIsTerminal
<1>1. RoutingInv /\ [Next]_vars =>
        [\A c \in Convs :
           conv[c].status = "resolved" /\ conv'[c] # conv[c] => strays' > strays]_vars
  BY ResolvedStep
<1> QED BY <1>1, RoutingInvHolds, PTL DEF Spec, ResolvedIsTerminal

-----------------------------------------------------------------------------
(* The loads stray from the assignments as often as a write strays. *)

\* The slot of agent a that a row occupies: one or none.
Slot(r, a) == One(Occupied(r) = a)

LEMMA HeldIsFinite ==
  ASSUME NEW a
  PROVE  IsFiniteSet(Held(a)) /\ Cardinality(Held(a)) \in Nat
<1>1. Held(a) \subseteq Convs /\ IsFiniteSet(Convs)
  BY RoutingAssumption DEF Held
<1> QED BY <1>1, FS_Subset, FS_CardinalityType

\* A write gives the agent the slot that the new row occupies, for the one that
\* the old row occupied.
LEMMA HeldMoves ==
  ASSUME RoutingInv, NEW c \in Convs, NEW new \in Row,
         conv' = [conv EXCEPT ![c] = new], NEW a \in Agents
  PROVE  /\ Slot(conv[c], a) = 1 => Cardinality(Held(a)) > 0
         /\ Cardinality(Held(a)') + Slot(conv[c], a) = Cardinality(Held(a)) + Slot(new, a)
<1>1. a # None
  BY RoutingAssumption DEF None
<1>2. \A d \in Convs : conv'[d] = IF d = c THEN new ELSE conv[d]
  BY DEF RoutingInv, TypeOK
<1>3. (c \in Held(a) <=> Occupied(conv[c]) = a) /\ (c \in Held(a)' <=> Occupied(new) = a)
  BY <1>1, <1>2 DEF Held, Occupied
<1>4. \A d \in Convs \ {c} : d \in Held(a)' <=> d \in Held(a)
  BY <1>2 DEF Held
<1>5. Held(a) \subseteq Convs /\ Held(a)' \subseteq Convs
  BY DEF Held
<1>6. PICK H, K : H = Held(a) /\ K = Held(a)'
  OBVIOUS
<1>7. IsFiniteSet(H) /\ Cardinality(H) \in Nat
  BY <1>6, HeldIsFinite
<1>8. c \in H => Cardinality(H) > 0
  BY <1>7, FS_EmptySet
<1>9. CASE c \in H /\ c \in K
  <2>1. K = H
    BY <1>4, <1>5, <1>6, <1>9
  <2> QED BY <1>3, <1>6, <1>7, <1>8, <1>9, <2>1 DEF Slot, One
<1>10. CASE c \in H /\ c \notin K
  <2>1. K = H \ {c}
    BY <1>4, <1>5, <1>6, <1>10
  <2>2. Cardinality(K) = Cardinality(H) - 1
    BY <1>7, <1>10, <2>1, FS_RemoveElement
  <2> QED BY <1>3, <1>6, <1>7, <1>8, <1>10, <2>2 DEF Slot, One
<1>11. CASE c \notin H /\ c \in K
  <2>1. K = H \cup {c}
    BY <1>4, <1>5, <1>6, <1>11
  <2>2. Cardinality(K) = Cardinality(H) + 1
    BY <1>7, <1>11, <2>1, FS_AddElement
  <2> QED BY <1>3, <1>6, <1>7, <1>11, <2>2 DEF Slot, One
<1>12. CASE c \notin H /\ c \notin K
  <2>1. K = H
    BY <1>4, <1>5, <1>6, <1>12
  <2> QED BY <1>3, <1>6, <1>7, <1>12, <2>1 DEF Slot, One
<1> QED BY <1>9, <1>10, <1>11, <1>12

\* What a commit counts for an agent: the slot of the row it wrote for that of the
\* row it read, and nothing below zero.
LEMMA CommitCounts ==
  ASSUME RoutingInv, NEW w \in Workers, Commit(w), NEW a \in Agents
  PROVE  \/ load'[a] + Slot(tx[w].read, a) = load[a] + Slot(tx[w].write, a)
         \/ /\ Slot(tx[w].read, a) = 1 /\ Slot(tx[w].write, a) = 0
            /\ load[a] = 0 /\ load'[a] = 0
<1> DEFINE t == tx[w]
<1>1. /\ Active(w) /\ t.at = "commit" /\ load' = Counted(t)
  BY DEF Commit
<1>2. /\ TxOK(t) /\ t.read \in Row /\ t.write \in Row /\ t.auto \in BOOLEAN
  BY <1>1, ActiveTx
<1>3. a # None /\ load[a] \in Nat
  BY RoutingAssumption DEF None, RoutingInv, TypeOK
<1>4. load'[a] = IF a = Taken(t) THEN load[a] + 1
                 ELSE IF a = Left(t) /\ load[a] > 0 THEN load[a] - 1 ELSE load[a]
  BY <1>1 DEF Counted
<1>5. t.auto => /\ Occupied(t.read) = None /\ Occupied(t.write) = t.write.agent
                /\ Taken(t) = t.write.agent /\ Left(t) = None
  BY <1>1, <1>2 DEF TxOK, Opened, Occupied, Taken, Left
<1>6. ~t.auto => /\ Taken(t) = IF Occupied(t.read) = Occupied(t.write) THEN None ELSE Occupied(t.write)
                 /\ Left(t) = IF Occupied(t.read) = Occupied(t.write) THEN None ELSE Occupied(t.read)
  BY DEF Taken, Left
<1>7. /\ Taken(t) = a => Occupied(t.read) # a /\ Occupied(t.write) = a
      /\ Taken(t) # a /\ Left(t) = a => Occupied(t.read) = a /\ Occupied(t.write) # a
      /\ Taken(t) # a /\ Left(t) # a => (Occupied(t.read) = a <=> Occupied(t.write) = a)
  BY <1>2, <1>3, <1>5, <1>6
<1> HIDE DEF t
<1>8. CASE Taken(t) = a
  BY <1>3, <1>4, <1>7, <1>8 DEF Slot, One, t
<1>9. CASE Taken(t) # a /\ Left(t) = a
  BY <1>3, <1>4, <1>7, <1>9 DEF Slot, One, t
<1>10. CASE Taken(t) # a /\ Left(t) # a
  BY <1>3, <1>4, <1>7, <1>10 DEF Slot, One, t
<1> QED BY <1>8, <1>9, <1>10

\* Load and assignments of one agent, before and after a step.
Near(l, h, s) == l <= h + s /\ h <= l + s

\* Uncounted, with x the slot of the row that was there and z that of the new one.
LEMMA OneStray ==
  ASSUME NEW l \in Nat, NEW h \in Nat, NEW k \in Nat, NEW s \in Nat,
         NEW n \in {0, 1}, NEW x \in {0, 1}, NEW z \in {0, 1},
         Near(l, h, s), k + x = h + z, n = 0 => x = z
  PROVE  Near(l, k, s + n)
BY DEF Near

\* A commit: with x, y and z the slots of the row that was there, of the row that
\* was read and of the row that is written.
LEMMA DriftCommit ==
  ASSUME RoutingInv, DriftIsPaidFor, NEW w \in Workers, Commit(w)
  PROVE  DriftIsPaidFor'
<1> SUFFICES ASSUME NEW a \in Agents
             PROVE  Near(load'[a], Cardinality(Held(a)'), strays')
  BY DEF DriftIsPaidFor, Near
<1> DEFINE c == tx[w].conv
           n == One(conv[c] # tx[w].read)
<1>1. /\ Active(w) /\ conv' = [conv EXCEPT ![c] = tx[w].write] /\ strays' = strays + n
  BY DEF Commit
<1>2. c \in Convs /\ tx[w].read \in Row /\ tx[w].write \in Row
  BY <1>1, ActiveTx
<1>3. /\ load[a] \in Nat /\ load'[a] \in Nat /\ strays \in Nat
      /\ Cardinality(Held(a)) \in Nat /\ Cardinality(Held(a)') \in Nat
  <2>1. RoutingInv'
    BY CommitOK
  <2>2. load' \in [Agents -> Nat]
    BY <2>1 DEF RoutingInv, TypeOK
  <2>3. (Cardinality(Held(a)) \in Nat)'
    BY HeldIsFinite, PTL
  <2> QED BY <2>2, <2>3, HeldIsFinite DEF RoutingInv, TypeOK
<1>4. Near(load[a], Cardinality(Held(a)), strays)
  BY DEF DriftIsPaidFor, Near
<1>5. /\ Slot(conv[c], a) = 1 => Cardinality(Held(a)) > 0
      /\ Cardinality(Held(a)') + Slot(conv[c], a) = Cardinality(Held(a)) + Slot(tx[w].write, a)
  BY <1>1, <1>2, HeldMoves
<1>6. /\ n \in {0, 1}
      /\ n = 0 => Slot(conv[c], a) = Slot(tx[w].read, a)
      /\ Slot(conv[c], a) \in {0, 1} /\ Slot(tx[w].read, a) \in {0, 1}
      /\ Slot(tx[w].write, a) \in {0, 1}
  BY DEF One, Slot
<1>7. \/ load'[a] + Slot(tx[w].read, a) = load[a] + Slot(tx[w].write, a)
      \/ /\ Slot(tx[w].read, a) = 1 /\ Slot(tx[w].write, a) = 0
         /\ load[a] = 0 /\ load'[a] = 0
  BY CommitCounts
<1> HIDE DEF c, n
<1>8. Near(load'[a], Cardinality(Held(a)'), strays + n)
  <2>1. PICK x \in {0, 1}, y \in {0, 1}, z \in {0, 1} :
          x = Slot(conv[c], a) /\ y = Slot(tx[w].read, a) /\ z = Slot(tx[w].write, a)
    BY <1>6
  <2>2. PICK h \in Nat, k \in Nat, l \in Nat, m \in Nat :
          /\ h = Cardinality(Held(a)) /\ k = Cardinality(Held(a)')
          /\ l = load[a] /\ m = load'[a]
    BY <1>3
  <2>3. /\ x = 1 => h > 0
        /\ k + x = h + z
    BY <1>5, <2>1, <2>2
  <2>4. \/ m + y = l + z
        \/ y = 1 /\ z = 0 /\ l = 0 /\ m = 0
    BY <1>7, <2>1, <2>2
  <2>5. n \in {0, 1} /\ (n = 0 => x = y)
    BY <1>6, <2>1
  <2>6. Near(l, h, strays)
    BY <1>4, <2>2
  <2>7. Near(m, k, strays + n)
    <3>1. PICK s \in Nat, p \in {0, 1} : s = strays /\ p = n
      BY <1>3, <2>5
    <3>2. /\ x \in {0, 1} /\ y \in {0, 1} /\ z \in {0, 1}
          /\ h \in Nat /\ k \in Nat /\ l \in Nat /\ m \in Nat
      BY <2>1, <2>2
    <3>3. Near(l, h, s) /\ (p = 0 => x = y)
      BY <2>5, <2>6, <3>1
    <3>4. Near(m, k, s + p)
      <4>1. p \in {0, 1} /\ s \in Nat
        BY <3>1
      <4> QED BY <2>3, <2>4, <3>2, <3>3, <4>1 DEF Near
    <3> QED BY <3>1, <3>4
  <2> QED BY <2>2, <2>7
<1> QED BY <1>1, <1>8

\* A write without a count: that of ListService, or of an ingest.
LEMMA DriftWrite ==
  ASSUME RoutingInv, DriftIsPaidFor, NEW c \in Convs, NEW new \in Row, NEW n \in {0, 1},
         conv' = [conv EXCEPT ![c] = new], load' = load, strays' = strays + n,
         n = 0 => \A a \in Agents : Slot(conv[c], a) = Slot(new, a)
  PROVE  DriftIsPaidFor'
<1> SUFFICES ASSUME NEW a \in Agents
             PROVE  Near(load'[a], Cardinality(Held(a)'), strays')
  BY DEF DriftIsPaidFor, Near
<1>1. /\ load[a] \in Nat /\ strays \in Nat
      /\ Cardinality(Held(a)) \in Nat /\ Cardinality(Held(a)') \in Nat
  <2>1. (Cardinality(Held(a)) \in Nat)'
    BY HeldIsFinite, PTL
  <2> QED BY <2>1, HeldIsFinite DEF RoutingInv, TypeOK
<1>2. Near(load[a], Cardinality(Held(a)), strays)
  BY DEF DriftIsPaidFor, Near
<1>3. /\ Slot(conv[c], a) = 1 => Cardinality(Held(a)) > 0
      /\ Cardinality(Held(a)') + Slot(conv[c], a) = Cardinality(Held(a)) + Slot(new, a)
  BY HeldMoves
<1>4. /\ n = 0 => Slot(conv[c], a) = Slot(new, a)
      /\ Slot(conv[c], a) \in {0, 1} /\ Slot(new, a) \in {0, 1}
  BY DEF One, Slot
<1>5. load'[a] = load[a]
  OBVIOUS
<1>6. Near(load[a], Cardinality(Held(a)'), strays + n)
  BY <1>1, <1>2, <1>3, <1>4, OneStray
<1> QED BY <1>5, <1>6

\* No other step moves a conversation or a load.
LEMMA DriftStep ==
  ASSUME RoutingInv, DriftIsPaidFor, [Next]_vars
  PROVE  DriftIsPaidFor'
<1>1. ASSUME NEW w \in Workers, Put(w) PROVE DriftIsPaidFor'
  <2> DEFINE t == tx[w]
             n == One(conv[t.conv] # t.read \/ Occupied(t.read) # Occupied(t.write))
  <2>1. /\ Active(w) /\ conv' = [conv EXCEPT ![t.conv] = t.write]
        /\ load' = load /\ strays' = strays + n
    BY <1>1 DEF Put
  <2>2. t.conv \in Convs /\ t.write \in Row
    BY <2>1, ActiveTx
  <2>3. /\ n \in {0, 1}
        /\ n = 0 => \A a \in Agents : Slot(conv[t.conv], a) = Slot(t.write, a)
    BY DEF One, Slot
  <2> HIDE DEF t, n
  <2> QED BY <2>1, <2>2, <2>3, DriftWrite
<1>2. ASSUME NEW c \in Convs, Ingest(c) PROVE DriftIsPaidFor'
  <2> DEFINE n == One(conv[c] \notin {Absent, Opened})
  <2>1. /\ conv' = [conv EXCEPT ![c] = Opened] /\ load' = load /\ strays' = strays + n
    BY <1>2 DEF Ingest
  <2>2. Opened \in Row
    BY DEF Opened, Row
  <2>3. /\ n \in {0, 1}
        /\ n = 0 => \A a \in Agents : Slot(conv[c], a) = Slot(Opened, a)
    BY DEF One, Slot, Absent, Opened, Occupied
  <2> HIDE DEF n
  <2> QED BY <2>1, <2>2, <2>3, DriftWrite
<1>3. CASE UNCHANGED <<conv, load, strays>>
  BY <1>3 DEF DriftIsPaidFor, Held
<1> QED BY <1>1, <1>2, <1>3, DriftCommit
        DEF Next, Assign, Unassign, Resolve, AutoAssign, ListAssign, ListResolve, Mutate,
            Begin, Pick, Upsert, Rollback, Toggle, vars

LEMMA DriftInit == Init => DriftIsPaidFor
<1> SUFFICES ASSUME Init, NEW a \in Agents
             PROVE  /\ load[a] <= Cardinality(Held(a)) + strays
                    /\ Cardinality(Held(a)) <= load[a] + strays
  BY DEF DriftIsPaidFor
<1>1. Held(a) = {}
  BY DEF Init, Held, Absent
<1>2. load[a] = 0 /\ strays = 0 /\ Cardinality(Held(a)) = 0
  BY <1>1, FS_EmptySet DEF Init
<1> QED BY <1>2

\* The load of every agent is as far from the number of open conversations he
\* has as writes strayed, at most: lost updates, redeliveries and what the API
\* moves uncounted (router.go mutate, adjustLoad and AutoAssign, list.go, ingest.go).
THEOREM DriftsArePaidFor == Spec => []DriftIsPaidFor
<1>1. RoutingInv /\ DriftIsPaidFor /\ [Next]_vars => DriftIsPaidFor'
  BY DriftStep
<1> QED BY <1>1, DriftInit, RoutingInvHolds, PTL DEF Spec

-----------------------------------------------------------------------------
(* The capacity of an agent. *)

\* The requests that are about to take a slot of agent a.
Pending(a) == {w \in Workers : Active(w) /\ tx[w].at # "pick" /\ Taken(tx[w]) = a}

\* A request that does not choose takes a slot only of an agent somebody named.
NamedByHand ==
  \A w \in Workers : Active(w) /\ ~tx[w].auto => Taken(tx[w]) \in ByHand \cup {None}

PendingFits ==
  \A a \in Agents \ ByHand :
    load[a] + Cardinality(Pending(a)) <= MaxLoad[a] + Cardinality(Workers) - 1

CapacityInv == NamedByHand /\ PendingFits

\* Whom pickAgent finds has room, as far as it can see.
LEMMA PickedHasCapacity ==
  ASSUME NEW c \in Convs, NEW a \in PickAgent(c)
  PROVE  HasCapacity(a)
<1>1. ASSUME NEW q, NEW b \in Select(q, sticky[c]) PROVE b \in Eligible(q)
  BY <1>1 DEF Select, Nth, LeastBusy
<1>2. PICK q : a \in Select(q, sticky[c])
  BY DEF PickAgent
<1> QED BY <1>1, <1>2 DEF Eligible

LEMMA PendingIsFinite ==
  ASSUME NEW a
  PROVE  /\ IsFiniteSet(Pending(a)) /\ Cardinality(Pending(a)) \in Nat
         /\ Cardinality(Workers) \in Nat /\ Cardinality(Workers) > 0
         /\ Cardinality(Pending(a)) <= Cardinality(Workers)
<1>1. Pending(a) \subseteq Workers /\ IsFiniteSet(Workers) /\ Workers # {}
  BY RoutingAssumption DEF Pending
<1>2. IsFiniteSet(Pending(a)) /\ Cardinality(Pending(a)) <= Cardinality(Workers)
  BY <1>1, FS_Subset
<1>3. Cardinality(Workers) \in Nat /\ Cardinality(Pending(a)) \in Nat
  BY <1>1, <1>2, FS_CardinalityType
<1>4. Cardinality(Workers) # 0
  BY <1>1, FS_EmptySet
<1> QED BY <1>2, <1>3, <1>4

\* A step that adds to no load and lets nobody else choose.
LEMMA NobodyChooses ==
  ASSUME RoutingInv, CapacityInv, load' \in [Agents -> Nat],
         NEW a \in Agents \ ByHand, load'[a] <= load[a], Pending(a)' \subseteq Pending(a)
  PROVE  load'[a] + Cardinality(Pending(a)') <= MaxLoad[a] + Cardinality(Workers) - 1
<1>1. /\ IsFiniteSet(Pending(a)) /\ Cardinality(Pending(a)) \in Nat
      /\ Cardinality(Workers) \in Nat
  BY PendingIsFinite
<1>2. IsFiniteSet(Pending(a)') /\ Cardinality(Pending(a)') <= Cardinality(Pending(a))
  BY <1>1, FS_Subset
<1>3. Cardinality(Pending(a)') \in Nat
  BY <1>2, FS_CardinalityType
<1>4. load[a] \in Nat /\ load'[a] \in Nat /\ MaxLoad[a] \in Nat
  BY RoutingAssumption DEF RoutingInv, TypeOK
<1>5. load[a] + Cardinality(Pending(a)) <= MaxLoad[a] + Cardinality(Workers) - 1
  BY DEF CapacityInv, PendingFits
<1> QED BY <1>1, <1>2, <1>3, <1>4, <1>5

\* A request that begins chooses nobody yet, or writes what it was told.
LEMMA BeginFits ==
  ASSUME RoutingInv, CapacityInv, NEW w \in Workers, NEW c \in Convs, NEW at,
         NEW auto \in BOOLEAN, NEW new, Begin(w, c, at, auto, new),
         auto => at = "pick",
         ~auto => Occupied(new) \in ByHand \cup {None, Occupied(conv[c])}
  PROVE  CapacityInv'
<1> DEFINE t == [at |-> at, auto |-> auto, conv |-> c, read |-> conv[c], write |-> new]
<1>1. /\ ~Active(w) /\ tx' = [tx EXCEPT ![w] = t] /\ UNCHANGED load
  BY DEF Begin
<1>2. tx'[w] = t /\ \A v \in Workers : v # w => tx'[v] = tx[v]
  BY <1>1 DEF RoutingInv, TypeOK
<1>3. t.auto = auto /\ t.at = at /\ t.read = conv[c] /\ t.write = new
  OBVIOUS
<1>4. ~auto => Taken(t) \in ByHand \cup {None}
  BY <1>3 DEF Taken
<1> HIDE DEF t
<1>5. NamedByHand'
  BY <1>2, <1>3, <1>4 DEF CapacityInv, NamedByHand, Active
<1>6. ASSUME NEW a \in Agents \ ByHand PROVE Pending(a)' \subseteq Pending(a)
  <2>1. a # None
    BY RoutingAssumption DEF None
  <2>2. w \notin Pending(a)'
    BY <1>2, <1>3, <1>4, <2>1 DEF Pending
  <2>3. \A v \in Workers : v # w /\ v \in Pending(a)' => v \in Pending(a)
    BY <1>2 DEF Pending, Active
  <2> QED BY <2>2, <2>3 DEF Pending
<1>7. load' = load /\ load' \in [Agents -> Nat]
      /\ \A a \in Agents : load[a] \in Nat
  BY <1>1 DEF RoutingInv, TypeOK
<1>8. \A a \in Agents : load'[a] <= load[a]
  BY <1>7
<1>9. PendingFits'
  BY <1>6, <1>7, <1>8, NobodyChooses DEF PendingFits
<1> QED BY <1>5, <1>9 DEF CapacityInv

\* The choice is made among agents with room; with all the other requests
\* pending it still fits.
LEMMA PickFits ==
  ASSUME RoutingInv, CapacityInv, NEW w \in Workers, Pick(w)
  PROVE  CapacityInv'
<1>1. /\ Active(w) /\ tx[w].at = "pick" /\ UNCHANGED load
  BY DEF Pick
<1>2. /\ tx[w].conv \in Convs /\ load' = load /\ load' \in [Agents -> Nat]
      /\ \A a \in Agents : load[a] \in Nat
  BY <1>1, ActiveTx DEF RoutingInv, TypeOK
<1>3. \A a \in Agents : load'[a] <= load[a]
  BY <1>2
<1>4. CASE tx' = [tx EXCEPT ![w] = Idle]
  <2>1. tx'[w] = Idle /\ \A v \in Workers : v # w => tx'[v] = tx[v]
    BY <1>4 DEF RoutingInv, TypeOK
  <2>2. NamedByHand'
    BY <2>1 DEF CapacityInv, NamedByHand, Active
  <2>3. ASSUME NEW a \in Agents PROVE Pending(a)' \subseteq Pending(a)
    BY <2>1 DEF Pending, Active
  <2> QED BY <1>2, <1>3, <2>2, <2>3, NobodyChooses DEF CapacityInv, PendingFits
<1>5. CASE tx' # [tx EXCEPT ![w] = Idle]
  <2> DEFINE t(a) == [at |-> "upsert", auto |-> TRUE, conv |-> tx[w].conv,
                      read |-> tx[w].read, write |-> AssignTo(tx[w].read, a)]
  <2>1. PICK b \in PickAgent(tx[w].conv) : tx' = [tx EXCEPT ![w] = t(b)]
    BY <1>5 DEF Pick
  <2>2. t(b).auto = TRUE /\ tx[w].read.status # "resolved"
    BY <1>5 DEF Pick
  <2>3. Taken(t(b)) = b
    <3>1. tx[w].read \in Row
      BY <1>1, ActiveTx
    <3>2. AssignTo(tx[w].read, b).agent = b
      BY <2>2, <3>1 DEF AssignTo, Row
    <3> QED BY <2>2, <3>2 DEF Taken
  <2>4. tx'[w] = t(b) /\ \A v \in Workers : v # w => tx'[v] = tx[v]
    BY <2>1 DEF RoutingInv, TypeOK
  <2>5. HasCapacity(b)
    BY <1>2, <2>1, PickedHasCapacity
  <2> HIDE DEF t
  <2>6. NamedByHand'
    BY <2>2, <2>4 DEF CapacityInv, NamedByHand, Active
  <2>7. ASSUME NEW a \in Agents \ ByHand
        PROVE  load'[a] + Cardinality(Pending(a)') <= MaxLoad[a] + Cardinality(Workers) - 1
    <3>1. CASE a = b
      <4>1. Pending(a)' \subseteq Workers /\ IsFiniteSet(Workers)
        BY RoutingAssumption DEF Pending
      <4>2. Cardinality(Pending(a)') <= Cardinality(Workers) /\ IsFiniteSet(Pending(a)')
        BY <4>1, FS_Subset
      <4>3. Cardinality(Pending(a)') \in Nat /\ Cardinality(Workers) \in Nat
        BY <4>1, <4>2, FS_CardinalityType
      <4>4. load[a] < MaxLoad[a] /\ load[a] \in Nat /\ MaxLoad[a] \in Nat
        BY <1>2, <2>5, <3>1, RoutingAssumption DEF HasCapacity
      <4> QED BY <1>2, <4>2, <4>3, <4>4
    <3>2. CASE a # b
      <4>1. w \notin Pending(a)'
        BY <2>3, <2>4, <3>2 DEF Pending
      <4>2. Pending(a)' \subseteq Pending(a)
        BY <2>4, <4>1 DEF Pending, Active
      <4> QED BY <1>2, <1>3, <4>2, NobodyChooses
    <3> QED BY <3>1, <3>2
  <2> QED BY <2>6, <2>7 DEF CapacityInv, PendingFits
<1> QED BY <1>4, <1>5

LEMMA UpsertFits ==
  ASSUME RoutingInv, CapacityInv, NEW w \in Workers, Upsert(w)
  PROVE  CapacityInv'
<1>1. /\ Active(w) /\ tx[w].at = "upsert" /\ tx' = [tx EXCEPT ![w].at = "commit"]
      /\ UNCHANGED load
  BY DEF Upsert
<1>2. tx[w] \in Tx
  BY <1>1, ActiveTx
<1>3. /\ tx'[w].auto = tx[w].auto /\ tx'[w].read = tx[w].read
      /\ tx'[w].write = tx[w].write
      /\ \A v \in Workers : v # w => tx'[v] = tx[v]
  BY <1>1, <1>2 DEF RoutingInv, TypeOK, Tx
<1>4. Taken(tx'[w]) = Taken(tx[w])
  BY <1>3 DEF Taken
<1>5. NamedByHand'
  BY <1>1, <1>3, <1>4 DEF CapacityInv, NamedByHand, Active
<1>6. ASSUME NEW a \in Agents PROVE Pending(a)' \subseteq Pending(a)
  BY <1>1, <1>3, <1>4 DEF Pending, Active
<1>7. /\ load' \in [Agents -> Nat] /\ \A a \in Agents : load[a] \in Nat
  BY <1>1 DEF RoutingInv, TypeOK
<1>8. \A a \in Agents : load'[a] <= load[a]
  BY <1>1, <1>7
<1> QED BY <1>5, <1>6, <1>7, <1>8, NobodyChooses DEF CapacityInv, PendingFits

\* A slot that is taken is no longer pending.
LEMMA CommitFits ==
  ASSUME RoutingInv, CapacityInv, NEW w \in Workers, Commit(w)
  PROVE  CapacityInv'
<1>1. /\ Active(w) /\ tx[w].at = "commit" /\ load' = Counted(tx[w])
      /\ tx' = [tx EXCEPT ![w] = Idle]
  BY DEF Commit
<1>2. tx'[w] = Idle /\ \A v \in Workers : v # w => tx'[v] = tx[v]
  BY <1>1 DEF RoutingInv, TypeOK
<1>3. NamedByHand'
  BY <1>2 DEF CapacityInv, NamedByHand, Active
<1>4. load' \in [Agents -> Nat]
  BY <1>1 DEF Counted, RoutingInv, TypeOK
<1>5. ASSUME NEW a \in Agents \ ByHand
      PROVE  load'[a] + Cardinality(Pending(a)') <= MaxLoad[a] + Cardinality(Workers) - 1
  <2>1. load[a] \in Nat /\ MaxLoad[a] \in Nat
    BY RoutingAssumption DEF RoutingInv, TypeOK
  <2>2. Pending(a)' = Pending(a) \ {w}
    BY <1>2 DEF Pending, Active
  <2>3. CASE Taken(tx[w]) = a
    <3>1. load'[a] = load[a] + 1
      BY <1>1, <2>3 DEF Counted
    <3>2. w \in Pending(a)
      BY <1>1, <2>3 DEF Pending
    <3>3. /\ IsFiniteSet(Pending(a)) /\ Cardinality(Pending(a)) \in Nat
          /\ Cardinality(Workers) \in Nat
      BY PendingIsFinite
    <3>4. Cardinality(Pending(a) \ {w}) = Cardinality(Pending(a)) - 1
      BY <3>2, <3>3, FS_RemoveElement
    <3>5. load[a] + Cardinality(Pending(a)) <= MaxLoad[a] + Cardinality(Workers) - 1
      BY DEF CapacityInv, PendingFits
    <3> QED BY <2>1, <2>2, <3>1, <3>3, <3>4, <3>5
  <2>4. CASE Taken(tx[w]) # a
    <3>1. load'[a] \in {load[a], load[a] - 1}
      BY <1>1, <2>4 DEF Counted
    <3>2. load'[a] <= load[a]
      BY <2>1, <3>1
    <3> QED BY <1>4, <2>2, <3>2, NobodyChooses
  <2> QED BY <2>3, <2>4
<1> QED BY <1>3, <1>5 DEF CapacityInv, PendingFits

\* CapacityInv is inductive, together with RoutingInv.
LEMMA CapacityStep ==
  ASSUME RoutingInv, CapacityInv, [Next]_vars
  PROVE  CapacityInv'
<1>1. ASSUME NEW w \in Workers, NEW c \in Convs,
             \/ Assign(w, c) \/ Unassign(w, c) \/ Resolve(w, c) \/ AutoAssign(w, c)
             \/ ListAssign(w, c) \/ ListResolve(w, c)
      PROVE  CapacityInv'
  <2>1. conv[c] \in Row
    BY DEF RoutingInv, TypeOK
  <2>2. ASSUME NEW a \in ByHand \cup {None}
        PROVE  Occupied(AssignTo(conv[c], a)) \in ByHand \cup {None, Occupied(conv[c])}
    BY <2>1 DEF AssignTo, Occupied, Row
  <2>3. Occupied(ResolveIt(conv[c])) = None
    BY <2>1 DEF ResolveIt, Occupied, Row
  <2>4. CASE Assign(w, c)
    BY <2>2, <2>4, BeginFits DEF Assign, Mutate
  <2>5. CASE Unassign(w, c)
    BY <2>2, <2>5, BeginFits DEF Unassign, Mutate
  <2>6. CASE Resolve(w, c)
    BY <2>3, <2>6, BeginFits DEF Resolve, Mutate
  <2>7. CASE AutoAssign(w, c)
    BY <2>7, BeginFits DEF AutoAssign
  <2>8. CASE ListAssign(w, c)
    BY <2>2, <2>8, BeginFits DEF ListAssign
  <2>9. CASE ListResolve(w, c)
    BY <2>3, <2>9, BeginFits DEF ListResolve
  <2> QED BY <1>1, <2>4, <2>5, <2>6, <2>7, <2>8, <2>9
<1>2. /\ \A a \in Agents : load[a] \in Nat /\ load[a] <= load[a]
      /\ load' = load => load' \in [Agents -> Nat]
  BY DEF RoutingInv, TypeOK
<1>3. ASSUME NEW w \in Workers, Rollback(w) \/ Put(w) PROVE CapacityInv'
  <2>1. /\ tx'[w] = Idle /\ \A v \in Workers : v # w => tx'[v] = tx[v]
        /\ load' = load
    BY <1>3 DEF Rollback, Put, RoutingInv, TypeOK
  <2>2. NamedByHand'
    BY <2>1 DEF CapacityInv, NamedByHand, Active
  <2>3. ASSUME NEW a \in Agents PROVE Pending(a)' \subseteq Pending(a)
    BY <2>1 DEF Pending, Active
  <2> QED BY <1>2, <2>1, <2>2, <2>3, NobodyChooses DEF CapacityInv, PendingFits
<1>4. CASE UNCHANGED <<load, tx>>
  BY <1>4 DEF CapacityInv, NamedByHand, PendingFits, Pending, Active
<1> QED BY <1>1, <1>3, <1>4, PickFits, UpsertFits, CommitFits
        DEF Next, Ingest, Toggle, vars

LEMMA CapacityInit == Init => CapacityInv
<1> SUFFICES ASSUME Init PROVE CapacityInv
  OBVIOUS
<1>1. \A w \in Workers : ~Active(w)
  BY DEF Init, Active
<1>2. ASSUME NEW a \in Agents
      PROVE  load[a] + Cardinality(Pending(a)) <= MaxLoad[a] + Cardinality(Workers) - 1
  <2>1. Pending(a) = {}
    BY <1>1 DEF Pending
  <2>2. Cardinality(Pending(a)) = 0
    BY <2>1, FS_EmptySet
  <2>3. Cardinality(Workers) \in Nat /\ Cardinality(Workers) > 0
    BY PendingIsFinite
  <2>4. load[a] = 0 /\ MaxLoad[a] \in Nat
    BY RoutingAssumption DEF Init
  <2> QED BY <2>2, <2>3, <2>4
<1> QED BY <1>1, <1>2 DEF CapacityInv, NamedByHand, PendingFits

\* Requests that choose at the same time pass the capacity of an agent by no
\* more than the other requests at work (router.go AutoAssign, acd.go
\* HasCapacity).
THEOREM OvershootsAreBounded == Spec => []OvershootIsBounded
<1>1. RoutingInv /\ CapacityInv /\ [Next]_vars => CapacityInv'
  BY CapacityStep
<1>2. RoutingInv /\ CapacityInv => OvershootIsBounded
  <2> SUFFICES ASSUME RoutingInv, CapacityInv, NEW a \in Agents \ ByHand
               PROVE  load[a] <= MaxLoad[a] + Cardinality(Workers) - 1
    BY DEF OvershootIsBounded
  <2>1. Cardinality(Pending(a)) \in Nat /\ Cardinality(Workers) \in Nat
    BY PendingIsFinite
  <2>2. load[a] \in Nat /\ MaxLoad[a] \in Nat
    BY RoutingAssumption DEF RoutingInv, TypeOK
  <2>3. load[a] + Cardinality(Pending(a)) <= MaxLoad[a] + Cardinality(Workers) - 1
    BY DEF CapacityInv, PendingFits
  <2> QED BY <2>1, <2>2, <2>3
<1> QED BY <1>1, <1>2, CapacityInit, RoutingInvHolds, PTL DEF Spec
-----------------------------------------------------------------------------
(* Nobody is overlooked. *)

\* The first id of a set of agents.
LEMMA FirstAgent ==
  ASSUME NEW E, E \subseteq Agents, E # {}
  PROVE  E \subseteq Nat /\ \E a \in E : \A b \in E : a <= b
<1>1. E \subseteq Nat
  BY RoutingAssumption
<1> QED
  BY <1>1, LeastNumber

\* Select "least_busy" finds somebody.
LEMMA SomebodyIsLeastBusy ==
  ASSUME TypeOK, NEW E, E \subseteq Agents, E # {}
  PROVE  LeastBusy(E) # {}
<1>1. \A a \in E : load[a] \in Nat
  BY DEF TypeOK
<1>2. PICK l \in {load[a] : a \in E} : \A k \in {load[a] : a \in E} : l <= k
  <2>1. {load[a] : a \in E} \subseteq Nat /\ {load[a] : a \in E} # {}
    BY <1>1
  <2> QED
    BY <2>1, LeastNumber
<1>3. PICK a \in {b \in E : load[b] = l} : \A b \in {b \in E : load[b] = l} : a <= b
  BY <1>2, FirstAgent
<1>4. \A b \in E : load[a] < load[b] \/ (load[a] = load[b] /\ a <= b)
  BY <1>1, <1>2, <1>3
<1> QED
  BY <1>3, <1>4 DEF LeastBusy

\* Every index below the number of agents is somebody's.
LEMMA EveryIndexIsTaken ==
  ASSUME NEW E, E \subseteq Agents, IsFiniteSet(E),
         NEW i \in Nat, i < Cardinality(E)
  PROVE  Nth(E, i) # {}
<1> DEFINE T == {n \in Nat : n < Cardinality(E) => Nth(E, n) # {}}
<1>1. E \subseteq Nat /\ Cardinality(E) \in Nat
  BY RoutingAssumption, FS_CardinalityType
<1>2. 0 \in T
  <2> SUFFICES ASSUME 0 < Cardinality(E) PROVE Nth(E, 0) # {}
    OBVIOUS
  <2>1. E # {}
    BY FS_EmptySet
  <2>2. PICK a \in E : \A b \in E : a <= b
    BY <2>1, FirstAgent
  <2>3. {b \in E : b < a} = {}
    <3>1. \A b \in E : b \in Nat /\ a \in Nat /\ a <= b
      BY <2>2, <1>1
    <3>2. \A b \in E : ~(b < a)
      BY <3>1
    <3> QED
      BY <3>2
  <2>4. Cardinality({b \in E : b < a}) = 0
    BY <2>3, FS_EmptySet
  <2> QED
    BY <2>2, <2>4 DEF Nth
<1>3. ASSUME NEW n \in Nat, n \in T PROVE n + 1 \in T
  <2> SUFFICES ASSUME n + 1 < Cardinality(E) PROVE Nth(E, n + 1) # {}
    OBVIOUS
  <2>1. n < Cardinality(E)
    BY <1>1
  <2>2. PICK a \in E : Cardinality({b \in E : b < a}) = n
    BY <1>3, <2>1 DEF Nth
  <2>3. PICK S : S = {b \in E : b < a}
    OBVIOUS
  <2>4. IsFiniteSet(S) /\ a \notin S /\ Cardinality(S) = n
    BY <2>2, <2>3, <1>1, FS_Subset
  <2>5. Cardinality(S \cup {a}) = n + 1
    BY <2>4, FS_AddElement
  <2>6. E \ (S \cup {a}) # {}
    <3>1. ASSUME S \cup {a} = E PROVE FALSE
      <4>1. Cardinality(E) = n + 1
        BY <2>5, <3>1
      <4> QED
        BY <4>1, <1>1
    <3> QED
      BY <3>1, <2>3
  <2>7. PICK c \in E \ (S \cup {a}) : \A b \in E \ (S \cup {a}) : c <= b
    BY <2>6, FirstAgent
  <2>8. {b \in E : b < c} = S \cup {a}
    <3>1. a \in Nat /\ c \in Nat /\ c # a /\ ~(c < a)
      BY <2>3, <2>7, <1>1
    <3>2. ASSUME NEW b \in E PROVE b < c <=> b \in S \cup {a}
      <4>1. b \in Nat
        BY <1>1
      <4>2. b \in S <=> b < a
        BY <2>3
      <4>3. b \notin S \cup {a} => c <= b
        BY <2>7
      <4>4. b = a \/ b # a
        OBVIOUS
      <4> QED
        BY <3>1, <4>1, <4>2, <4>3
    <3> QED
      BY <3>2, <2>3
  <2>9. Cardinality({b \in E : b < c}) = n + 1
    BY <2>8, <2>5
  <2> QED
    BY <2>7, <2>9 DEF Nth
<1> HIDE DEF T
<1>4. i \in T
  BY <1>2, <1>3, AllNumbers
<1> QED
  BY <1>4 DEF T

\* The seed of round_robin is a number: the loads of the pool, added up.
LEMMA SeedIsNumber ==
  ASSUME TypeOK, NEW q \in Queues
  PROVE  RoundRobinSeed(q) \in Nat
<1>1. Pool[q] \subseteq Agents /\ IsFiniteSet(Pool[q])
  BY RoutingAssumption, FS_Subset
<1>2. \A a \in Pool[q] : load[a] \in Nat
  BY <1>1 DEF TypeOK
<1>3. Total(load, Pool[q]) \in Nat
  BY <1>1, <1>2, TotalIsNat
<1>4. RoundRobinSeed(q) = Total(load, Pool[q])
  BY DEF RoundRobinSeed, Total
<1> QED
  BY <1>3, <1>4

\* Whatever the strategy, Select chooses somebody eligible if there is one.
LEMMA SelectChooses ==
  ASSUME TypeOK, NEW q \in Queues, NEW hint
  PROVE  /\ Select(q, hint) \subseteq Eligible(q)
         /\ Eligible(q) # {} => Select(q, hint) # {}
<1>1. PICK E : E = Eligible(q)
  OBVIOUS
<1>2. E \subseteq Agents /\ IsFiniteSet(E) /\ Cardinality(E) \in Nat
  BY <1>1, RoutingAssumption, FS_Subset, FS_CardinalityType DEF Eligible
<1>3. Select(q, hint) \subseteq E
  BY <1>1 DEF Select, Nth, LeastBusy
<1>4. ASSUME E # {} PROVE Select(q, hint) # {}
  <2>1. LeastBusy(E) # {}
    BY <1>2, <1>4, SomebodyIsLeastBusy
  <2>2. Nth(E, RoundRobinSeed(q) % Cardinality(E)) # {}
    <3>1. Cardinality(E) > 0
      BY <1>2, <1>4, FS_EmptySet
    <3>2. PICK s \in Nat : s = RoundRobinSeed(q)
      BY SeedIsNumber
    <3>3. PICK n \in Nat : n = Cardinality(E)
      BY <1>2
    <3>4. s % n \in Nat /\ s % n < n
      BY <3>1, <3>2, <3>3
    <3> QED
      BY <3>2, <3>3, <3>4, <1>2, EveryIndexIsTaken
  <2> QED
    BY <2>1, <2>2, <1>1 DEF Select
<1> QED
  BY <1>1, <1>3, <1>4

\* q is the chain of the conversation c, as far as n hops.
Follows(q, c, n) ==
  q = [k \in 0 .. n - 1 |->
         IF k = 0 THEN ExternalID[c]
         ELSE IF q[k - 1] \in Queues THEN Overflow[q[k - 1]] ELSE q[k - 1]]

\* The recursion of the chain has a solution, of any length.
LEMMA ChainExists ==
  ASSUME NEW c
  PROVE  \A n \in Nat : \E q : Follows(q, c, n)
<1> DEFINE T == {n \in Nat : \E q : Follows(q, c, n)}
<1>1. 0 \in T
  <2>1. 0 .. 0 - 1 = {}
    OBVIOUS
  <2>2. Follows([k \in {} |-> 0], c, 0)
    BY <2>1 DEF Follows
  <2> QED
    BY <2>2
<1>2. ASSUME NEW n \in Nat, n \in T PROVE n + 1 \in T
  <2>1. PICK q : Follows(q, c, n)
    BY <1>2
  <2> DEFINE r == [k \in 0 .. n |->
                     IF k = 0 THEN ExternalID[c]
                     ELSE IF q[k - 1] \in Queues THEN Overflow[q[k - 1]] ELSE q[k - 1]]
  <2>2. ASSUME NEW k \in 0 .. n - 1 PROVE r[k] = q[k]
    <3>1. q[k] = IF k = 0 THEN ExternalID[c]
                 ELSE IF q[k - 1] \in Queues THEN Overflow[q[k - 1]] ELSE q[k - 1]
      BY <2>1, Zenon DEF Follows
    <3>2. k \in 0 .. n
      OBVIOUS
    <3> QED
      BY <3>1, <3>2
  <2>3. ASSUME NEW k \in 0 .. n
        PROVE  r[k] = IF k = 0 THEN ExternalID[c]
                      ELSE IF r[k - 1] \in Queues THEN Overflow[r[k - 1]] ELSE r[k - 1]
    <3>1. k # 0 => k - 1 \in 0 .. n - 1
      OBVIOUS
    <3> QED
      BY <2>2, <3>1
  <2>4. r = [k \in 0 .. n |->
               IF k = 0 THEN ExternalID[c]
               ELSE IF r[k - 1] \in Queues THEN Overflow[r[k - 1]] ELSE r[k - 1]]
    BY <2>3
  <2> HIDE DEF r
  <2>5. n + 1 - 1 = n
    OBVIOUS
  <2>6. Follows(r, c, n + 1)
    BY <2>4, <2>5 DEF Follows
  <2> QED
    BY <2>6
<1> HIDE DEF T
<1>3. \A n \in Nat : n \in T
  BY <1>1, <1>2, AllNumbers
<1> QED
  BY <1>3 DEF T

\* The chain: each hop is the overflow of the one before.
LEMMA ChainIs ==
  ASSUME NEW c \in Convs
  PROVE  /\ Chain[c][0] = ExternalID[c]
         /\ \A k \in 1 .. MaxOverflowHops - 1 :
              Chain[c][k] = IF Chain[c][k - 1] \in Queues
                            THEN Overflow[Chain[c][k - 1]] ELSE Chain[c][k - 1]
<1>1. Chain[c] = CHOOSE q : Follows(q, c, MaxOverflowHops)
  BY DEF Chain, Follows
<1>2. MaxOverflowHops \in Nat /\ MaxOverflowHops = 8
  BY DEF MaxOverflowHops
<1>3. PICK q : q = Chain[c]
  OBVIOUS
<1>4. Follows(q, c, MaxOverflowHops)
  BY <1>1, <1>2, <1>3, ChainExists
<1>5. \A k \in 0 .. MaxOverflowHops - 1 :
        q[k] = IF k = 0 THEN ExternalID[c]
               ELSE IF q[k - 1] \in Queues THEN Overflow[q[k - 1]] ELSE q[k - 1]
  BY <1>4, Zenon DEF Follows
<1> QED
  BY <1>2, <1>3, <1>5

\* What a conversation overflows to, in the queues its hops pass.
Passed(c) == {Chain[c][n] : n \in Hops[c]}

\* The hops are a beginning of the chain.
LEMMA HopsFromZero ==
  ASSUME NEW c \in Convs, ExternalID[c] \in Queues
  PROVE  /\ Hops[c] \subseteq 0 .. 7
         /\ 0 \in Hops[c]
         /\ \A n \in Hops[c] : \A k \in 0 .. n : k \in Hops[c]
         /\ \A n \in Hops[c] : Chain[c][n] \in Queues
         /\ \A m, n \in Hops[c] : m # n => Chain[c][m] # Chain[c][n]
<1>1. Hops[c] = {n \in 0 .. 7 :
                   /\ \A k \in 0 .. n : Chain[c][k] \in Queues
                   /\ \A j, k \in 0 .. n : j # k => Chain[c][j] # Chain[c][k]}
  BY DEF Hops, MaxOverflowHops
<1>2. PICK q : q = Chain[c]
  OBVIOUS
<1>3. 0 \in Hops[c]
  BY <1>1, <1>2, ChainIs
<1>4. ASSUME NEW n \in Hops[c], NEW k \in 0 .. n PROVE k \in Hops[c]
  BY <1>1, <1>2
<1>5. \A n \in Hops[c] : Chain[c][n] \in Queues
  BY <1>1, <1>2
<1>6. ASSUME NEW m \in Hops[c], NEW n \in Hops[c], m # n
      PROVE  Chain[c][m] # Chain[c][n]
  <2>1. CASE m \in 0 .. n
    BY <1>1, <1>2, <1>6, <2>1
  <2>2. CASE n \in 0 .. m
    BY <1>1, <1>2, <1>6, <2>2
  <2> QED
    BY <1>1, <2>1, <2>2
<1> QED
  BY <1>1, <1>3, <1>4, <1>5, <1>6

\* Where the chain is closed: the queue it begins with is reachable, and so is
\* what a reachable queue overflows to.
LEMMA ReachableIsClosed ==
  ASSUME NEW c \in Convs, ExternalID[c] \in Queues
  PROVE  /\ ExternalID[c] \in Reachable[c]
         /\ \A r \in Reachable[c] : Overflow[r] \in Queues => Overflow[r] \in Reachable[c]
BY DEF Reachable

LEMMA ReachableIsFinite ==
  ASSUME NEW c \in Convs
  PROVE  /\ Reachable[c] \subseteq Queues
         /\ IsFiniteSet(Reachable[c]) /\ Cardinality(Reachable[c]) \in Nat
<1>1. Reachable[c] \subseteq Queues
  BY DEF Reachable
<1> QED
  BY <1>1, RoutingAssumption, FS_Subset, FS_CardinalityType

\* Every queue that the hops pass is reachable.
LEMMA PassedIsReachable ==
  ASSUME NEW c \in Convs, ExternalID[c] \in Queues
  PROVE  Passed(c) \subseteq Reachable[c]
<1> DEFINE T == {n \in Nat : n \in Hops[c] => Chain[c][n] \in Reachable[c]}
<1>1. 0 \in T
  BY ChainIs, ReachableIsClosed
<1>2. ASSUME NEW n \in Nat, n \in T PROVE n + 1 \in T
  <2> SUFFICES ASSUME n + 1 \in Hops[c] PROVE Chain[c][n + 1] \in Reachable[c]
    OBVIOUS
  <2>1. n + 1 \in 1 .. 7 /\ n \in 0 .. n + 1
    BY HopsFromZero
  <2>2. n \in Hops[c] /\ Chain[c][n + 1] \in Queues
    BY <2>1, HopsFromZero
  <2>3. Chain[c][n] \in Reachable[c] /\ Chain[c][n] \in Queues
    BY <2>2, <1>2, HopsFromZero
  <2>4. Chain[c][n + 1] = Overflow[Chain[c][n]]
    <3>1. n + 1 \in 1 .. MaxOverflowHops - 1 /\ n + 1 - 1 = n
      BY <2>1 DEF MaxOverflowHops
    <3> QED
      BY <3>1, <2>3, ChainIs
  <2> QED
    BY <2>2, <2>3, <2>4, ReachableIsClosed
<1> HIDE DEF T
<1>3. \A n \in Nat : n \in T
  BY <1>1, <1>2, AllNumbers
<1>4. Hops[c] \subseteq Nat
  BY HopsFromZero
<1> QED
  BY <1>3, <1>4 DEF T, Passed

\* As long as there are no more reachable queues than hops, the hops pass all
\* of them: the chain ends, comes back to a queue it passed, or has used all
\* eight hops for as many queues.
LEMMA ReachableIsPassed ==
  ASSUME NEW c \in Convs, ExternalID[c] \in Queues,
         Cardinality(Reachable[c]) <= MaxOverflowHops
  PROVE  Reachable[c] \subseteq Passed(c)
<1>1. PICK q : q = Chain[c]
  OBVIOUS
<1>2. PICK H : H = Hops[c]
  OBVIOUS
<1>3. /\ H \subseteq 0 .. 7 /\ 0 \in H
      /\ \A n \in H : \A k \in 0 .. n : k \in H
      /\ \A n \in H : q[n] \in Queues
      /\ \A m, n \in H : m # n => q[m] # q[n]
  BY <1>1, <1>2, HopsFromZero, Zenon
<1>4. q[0] = ExternalID[c]
  BY <1>1, ChainIs
<1>5. CASE 7 \in H
  <2>1. H = 0 .. 7
    BY <1>3, <1>5
  <2> DEFINE f == [n \in 0 .. 7 |-> q[n]]
  <2>2. f \in [0 .. 7 -> Reachable[c]]
    BY <2>1, <1>1, <1>2, PassedIsReachable DEF Passed
  <2>3. f \in Injection(0 .. 7, Reachable[c])
    BY <2>1, <2>2, <1>3 DEF Injection, IsInjective
  <2>4. Cardinality(0 .. 7) = 8
    <3>1. 0 \in Int /\ 7 \in Int
      OBVIOUS
    <3>2. Cardinality(0 .. 7) = IF 0 > 7 THEN 0 ELSE 7 - 0 + 1
      BY <3>1, FS_Interval, Zenon
    <3> QED
      BY <3>2
  <2>5. f \in Surjection(0 .. 7, Reachable[c])
    <3> HIDE DEF f
    <3>1. /\ Cardinality(0 .. 7) <= Cardinality(Reachable[c])
          /\ Cardinality(0 .. 7) = Cardinality(Reachable[c])
               <=> f \in Surjection(0 .. 7, Reachable[c])
      BY <2>3, ReachableIsFinite, FS_Injection
    <3> QED
      BY <2>4, <3>1, ReachableIsFinite DEF MaxOverflowHops
  <2>6. \A r \in Reachable[c] : \E n \in 0 .. 7 : q[n] = r
    BY <2>5 DEF Surjection
  <2> QED
    BY <2>1, <2>6, <1>1, <1>2 DEF Passed
<1>6. CASE 7 \notin H
  <2>1. ASSUME NEW n \in H, Overflow[q[n]] \in Queues
        PROVE  Overflow[q[n]] \in Passed(c)
    <3>1. n \in 0 .. 6
      BY <1>3, <1>6
    <3>2. q[n + 1] = Overflow[q[n]]
      <4>1. n + 1 \in 1 .. MaxOverflowHops - 1 /\ n + 1 - 1 = n
        BY <3>1 DEF MaxOverflowHops
      <4> QED
        BY <4>1, <1>1, <1>3, ChainIs
    <3>3. CASE n + 1 \in H
      BY <3>2, <3>3, <1>1, <1>2 DEF Passed
    <3>4. CASE n + 1 \notin H
      <4>1. H = {m \in 0 .. 7 :
                   /\ \A k \in 0 .. m : q[k] \in Queues
                   /\ \A j, k \in 0 .. m : j # k => q[j] # q[k]}
        BY <1>1, <1>2 DEF Hops, MaxOverflowHops
      <4>2. n + 1 \in 0 .. 7 /\ \A k \in 0 .. n + 1 : k \in 0 .. n \/ k = n + 1
        BY <3>1
      <4>3. \A k \in 0 .. n + 1 : q[k] \in Queues
        BY <4>2, <3>2, <2>1, <1>3
      <4>4. PICK i \in 0 .. n + 1, j \in 0 .. n + 1 : i # j /\ q[i] = q[j]
        BY <4>1, <4>2, <4>3, <3>4
      <4>5. \E k \in 0 .. n : q[k] = q[n + 1]
        BY <4>2, <4>4, <1>3
      <4> QED
        BY <4>5, <3>2, <1>1, <1>2, <1>3 DEF Passed
    <3> QED
      BY <3>3, <3>4
  <2>2. /\ Passed(c) \in SUBSET Queues
        /\ ExternalID[c] \in Passed(c)
        /\ \A r \in Passed(c) : Overflow[r] \in Queues => Overflow[r] \in Passed(c)
    BY <2>1, <1>1, <1>2, <1>3, <1>4 DEF Passed
  <2> QED
    BY <2>2 DEF Reachable
<1> QED
  BY <1>5, <1>6

\* The first of some hops.
LEMMA FirstFinds ==
  ASSUME NEW c, NEW ok, ok \subseteq Nat
  PROVE  /\ First(c, ok) \subseteq {Chain[c][n] : n \in ok}
         /\ ok # {} => First(c, ok) # {}
<1>1. ok # {} => \E m \in ok : \A k \in ok : m <= k
  BY LeastNumber
<1> QED
  BY <1>1 DEF First

\* While types hold, pickAgent finds an agent whenever a queue that can be
\* reached has an eligible one, and nobody else.
LEMMA PickFinds == TypeOK => NobodyOverlooked
<1> SUFFICES ASSUME TypeOK, NEW c \in Convs, ExternalID[c] \in Queues,
                    Cardinality(Reachable[c]) <= MaxOverflowHops
             PROVE  LET able == UNION {Eligible(q) : q \in Reachable[c]}
                    IN  PickAgent(c) \subseteq able /\ (PickAgent(c) = {} => able = {})
  BY DEF NobodyOverlooked
<1>1. PICK ok : ok = {n \in Hops[c] : Eligible(Chain[c][n]) # {}}
  OBVIOUS
<1>2. PICK found : found = First(c, ok)
  OBVIOUS
<1>3. ok \subseteq Nat
  BY <1>1, HopsFromZero
<1>4. found \subseteq {Chain[c][n] : n \in ok} /\ (ok # {} => found # {})
  BY <1>2, <1>3, FirstFinds
<1>5. \A q \in found : q \in Passed(c) /\ Eligible(q) # {}
  BY <1>1, <1>4 DEF Passed
<1>6. \A q \in found : q \in Reachable[c] /\ q \in Queues
  BY <1>5, PassedIsReachable, ReachableIsFinite
<1>7. PickAgent(c) = UNION {Select(q, sticky[c]) : q \in found}
  BY <1>1, <1>2 DEF PickAgent
<1>8. \A q \in found : /\ Select(q, sticky[c]) \subseteq Eligible(q)
                       /\ Select(q, sticky[c]) # {}
  BY <1>5, <1>6, SelectChooses
<1>9. PickAgent(c) \subseteq UNION {Eligible(q) : q \in Reachable[c]}
  BY <1>6, <1>7, <1>8
<1>10. ASSUME PickAgent(c) = {} PROVE UNION {Eligible(q) : q \in Reachable[c]} = {}
  <2>1. found = {}
    BY <1>7, <1>8, <1>10
  <2>2. ok = {}
    BY <2>1, <1>4
  <2>3. \A q \in Passed(c) : Eligible(q) = {}
    BY <2>2, <1>1 DEF Passed
  <2> QED
    BY <2>3, ReachableIsPassed
<1> QED
  BY <1>9, <1>10

\* An agent is found if any queue that the overflow leads to has one that is
\* eligible, for any queues, circles of them included, and any strategies
\* (router.go pickAgent, Select).
THEOREM NobodyIsOverlooked == Spec => []NobodyOverlooked
BY PickFinds, RoutingTypeCorrect, PTL
=============================================================================
