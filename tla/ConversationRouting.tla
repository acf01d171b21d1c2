------------------------- MODULE ConversationRouting -------------------------
(***************************************************************************)
(* The writers of a conversation: usecase/routing/router.go with the ACD   *)
(* wired (WithACD), transactions at READ COMMITTED that read a             *)
(* conversation, choose, write all of it back and count the load of the    *)
(* agents; ListService, by which the routes of the API assign and resolve, *)
(* in two statements without a transaction, and which counts no load; and  *)
(* the upsert by which an ingest opens a conversation.  What a transaction *)
(* writes is seen by others when it commits, and the row of the            *)
(* conversation is locked from its upsert on.  The loads are written last, *)
(* as current_load + delta under locks held to the end: they change with   *)
(* the commit, and what waits for them may be aborted (Rollback).          *)
(***************************************************************************)
EXTENDS Integers, FiniteSets, FiniteSetsExt

CONSTANTS
  Convs,       \* conversations, each of its own contact
  Agents,      \* agents, by AgentID; 0 is no agent
  Workers,     \* requests the server handles at the same time
  Queues,
  ExternalID,  \* the external id of each conversation: convQueueID
  Overflow,    \* OverflowQueueID of each queue, or an id of no queue
  Strategy,
  Pool,        \* what Candidates returns for each queue
  Skilled,     \* agents with the RequiredSkills of each queue
  MaxLoad,
  ByHand,      \* agents that people assign conversations to
  Commuters,   \* agents that come and leave; the others stay online
  MaxStrays    \* bound: writes that the loads do not follow

MaxOverflowHops == 8
None == 0

\* The strategies are the four of the domain; agents have ids that order them.
ASSUME RoutingAssumption ==
  /\ Agents \subseteq Nat \ {None} /\ ByHand \cup Commuters \subseteq Agents
  /\ IsFiniteSet(Agents) /\ IsFiniteSet(Convs) /\ IsFiniteSet(Queues)
  /\ IsFiniteSet(Workers) /\ Workers # {}
  /\ Strategy \in [Queues -> {"round_robin", "least_busy", "skill_based", "sticky"}]
  /\ Pool \in [Queues -> SUBSET Agents] /\ Skilled \in [Queues -> SUBSET Agents]
  /\ MaxLoad \in [Agents -> Nat]
  /\ DOMAIN ExternalID = Convs /\ DOMAIN Overflow = Queues
  /\ MaxStrays \in Nat

VARIABLES
  conv,      \* row of each conversation
  load,      \* current_load of each agent
  online,    \* agents with status online
  sticky,    \* agent that the contact of each conversation is tied to
  tx,        \* transaction of each worker, or read and write of ListService
  strays     \* history: writes over a version that the writer had not read, and
             \* writes of ListService that move a conversation between agents

vars == <<conv, load, online, sticky, tx, strays>>

Row  == [status : {"absent", "open", "resolved"}, agent : Agents \cup {None}]
Idle == [at |-> "idle"]
Tx   == [at : {"pick", "upsert", "commit", "put"}, auto : BOOLEAN,
         conv : Convs, read : Row, write : Row]

\* Every variable has its type: in particular no load is negative.
TypeOK ==
  /\ conv \in [Convs -> Row]
  /\ load \in [Agents -> Nat]
  /\ online \subseteq Agents
  /\ sticky \in [Convs -> Agents \cup {None}]
  /\ tx \in [Workers -> Tx \cup {Idle}]
  /\ strays \in Nat

Absent == [status |-> "absent", agent |-> None]
Opened == [status |-> "open", agent |-> None]

Init ==
  /\ conv = [c \in Convs |-> Absent]
  /\ load = [a \in Agents |-> 0]
  /\ online = Agents
  /\ sticky = [c \in Convs |-> None]
  /\ tx = [w \in Workers |-> Idle]
  /\ strays = 0

-----------------------------------------------------------------------------
(* The aggregate Conversation. *)

\* Mutant: no test of IsResolved.
AssignAnyway(r, a) == [r EXCEPT !.agent = a]

\* Conversation.Assign; the router drops its error.
AssignTo(r, a) == IF r.status = "resolved" THEN r ELSE [r EXCEPT !.agent = a]

ResolveIt(r) == [r EXCEPT !.status = "resolved"]

\* Mutant: no test of IsOpen.
OccupiedAlways(r) == r.agent

\* occupiedAgent: who holds a slot for the conversation.
Occupied(r) == IF r.status = "open" THEN r.agent ELSE None

-----------------------------------------------------------------------------
(* pickAgent and Select: a choice is a set of one agent, empty without one. *)

\* Mutant: HasCapacity with <=.
HasCapacityLax(a) == load[a] <= MaxLoad[a]

HasCapacity(a) == load[a] < MaxLoad[a]

Eligible(q) == {a \in Pool[q] \cap Skilled[q] : a \in online /\ HasCapacity(a)}

\* The least load, the first id among equals.
LeastBusy(E) ==
  {a \in E : \A b \in E : load[a] < load[b] \/ (load[a] = load[b] /\ a <= b)}

\* The eligible agent at the index n in the order of the ids.
Nth(E, n) == {a \in E : Cardinality({b \in E : b < a}) = n}

RoundRobinSeed(q) == MapThenSumSet(LAMBDA a : load[a], Pool[q])

Select(q, hint) ==
  LET E == Eligible(q)
  IN  IF Strategy[q] = "round_robin" THEN Nth(E, RoundRobinSeed(q) % Cardinality(E))
      ELSE IF Strategy[q] = "sticky" /\ hint \in E THEN {hint}
      ELSE LeastBusy(E)

\* The chain of queues of each conversation, up to maxOverflowHops.
Chain ==
  [c \in Convs |->
     LET queue[n \in 0 .. MaxOverflowHops - 1] ==
           IF n = 0 THEN ExternalID[c]
           ELSE IF queue[n - 1] \in Queues THEN Overflow[queue[n - 1]] ELSE queue[n - 1]
     IN  queue]

\* The hops that pickAgent makes: as far as there are queues, none twice.
Hops ==
  [c \in Convs |->
     {n \in 0 .. MaxOverflowHops - 1 :
        /\ \A k \in 0 .. n : Chain[c][k] \in Queues
        /\ \A j, k \in 0 .. n : j # k => Chain[c][j] # Chain[c][k]}]

\* The queue of the first hop that is in ok.
First(c, ok) == {Chain[c][n] : n \in {m \in ok : \A k \in ok : m <= k}}

\* Mutant: the first queue that has agents ends the search.
PickFromFirstPool(c) ==
  LET found == First(c, {n \in Hops[c] : Pool[Chain[c][n]] # {}})
  IN  UNION {Select(q, sticky[c]) : q \in {r \in found : Eligible(r) # {}}}

\* The choice in the first queue of the chain with an eligible agent.
PickAgent(c) ==
  UNION {Select(q, sticky[c]) : q \in First(c, {n \in Hops[c] : Eligible(Chain[c][n]) # {}})}

-----------------------------------------------------------------------------
(* The transaction of worker w. *)

Active(w)   == tx[w] # Idle
Locks(w, c) == Active(w) /\ tx[w].at = "commit" /\ tx[w].conv = c

\* The slots that adjustLoad gives back and takes, none when the agent stays;
\* AutoAssign takes one for the agent it chose.
Left(t)  == IF t.auto \/ Occupied(t.read) = Occupied(t.write) THEN None
            ELSE Occupied(t.read)
Taken(t) == IF t.auto THEN t.write.agent
            ELSE IF Occupied(t.read) = Occupied(t.write) THEN None
            ELSE Occupied(t.write)

Bounded == strays' <= MaxStrays

One(happens) == IF happens THEN 1 ELSE 0

\* RunInTenantTx and Get; the worker keeps what it has read.
Begin(w, c, at, auto, new) ==
  /\ ~Active(w) /\ conv[c] # Absent
  /\ tx' = [tx EXCEPT ![w] = [at |-> at, auto |-> auto, conv |-> c,
                              read |-> conv[c], write |-> new]]
  /\ UNCHANGED <<conv, load, online, sticky, strays>>

\* mutate with the three changes the inbox asks for.
Mutate(w, c, new) == Begin(w, c, "upsert", FALSE, new)
Assign(w, c)   == \E a \in ByHand : Mutate(w, c, AssignTo(conv[c], a))
Unassign(w, c) == Mutate(w, c, AssignTo(conv[c], None))
Resolve(w, c)  == Mutate(w, c, ResolveIt(conv[c]))

\* AutoAssign up to pickAgent, for a conversation nobody has.  (For an empty
\* external id it asks for the default queue, but setConvQueueID forgets it.)
AutoAssign(w, c) == conv[c].agent = None /\ Begin(w, c, "pick", TRUE, conv[c])

\* pickAgent sees the loads committed by now; without an agent, or with an error
\* of Conversation.Assign, the transaction ends here.
Pick(w) ==
  /\ Active(w) /\ tx[w].at = "pick"
  /\ IF PickAgent(tx[w].conv) = {} \/ tx[w].read.status = "resolved"
     THEN tx' = [tx EXCEPT ![w] = Idle]
     ELSE \E a \in PickAgent(tx[w].conv) :
            tx' = [tx EXCEPT ![w] = [at |-> "upsert", auto |-> TRUE, conv |-> tx[w].conv,
                                     read |-> tx[w].read, write |-> AssignTo(tx[w].read, a)]]
  /\ UNCHANGED <<conv, load, online, sticky, strays>>

\* Upsert of the row as it was read, with the change, once no other transaction
\* has it locked.  SetSticky, which may fail, does not wait for the commit.
Upsert(w) ==
  /\ Active(w) /\ tx[w].at = "upsert"
  /\ \A v \in Workers : ~Locks(v, tx[w].conv)
  /\ tx' = [tx EXCEPT ![w].at = "commit"]
  /\ sticky' \in {sticky} \cup
       {[sticky EXCEPT ![tx[w].conv] = a] : a \in IF tx[w].auto THEN {tx[w].write.agent} ELSE {}}
  /\ UNCHANGED <<conv, load, online, strays>>

\* IncLoad of the two agents; AgentRepo promises that no load gets below zero.
Counted(t) ==
  [a \in Agents |-> IF a = Taken(t) THEN load[a] + 1
                    ELSE IF a = Left(t) /\ load[a] > 0 THEN load[a] - 1 ELSE load[a]]

Commit(w) ==
  /\ Active(w) /\ tx[w].at = "commit"
  /\ conv' = [conv EXCEPT ![tx[w].conv] = tx[w].write]
  /\ load' = Counted(tx[w])
  /\ strays' = strays + One(conv[tx[w].conv] # tx[w].read)
  /\ tx' = [tx EXCEPT ![w] = Idle]
  /\ UNCHANGED <<online, sticky>>
  /\ Bounded

\* A statement fails, waits in a circle of locks, or the client goes away.
Rollback(w) ==
  /\ Active(w)
  /\ tx' = [tx EXCEPT ![w] = Idle]
  /\ UNCHANGED <<conv, load, online, sticky, strays>>

-----------------------------------------------------------------------------
(* ListService, for the API: Get, the change, and Upsert in a statement of its own. *)

\* Conversation.Assign refuses a resolved one; the empty id takes the agent away.
ListAssign(w, c) ==
  /\ conv[c].status # "resolved"
  /\ \E a \in ByHand \cup {None} : Begin(w, c, "put", FALSE, AssignTo(conv[c], a))

ListResolve(w, c) == Begin(w, c, "put", FALSE, ResolveIt(conv[c]))

\* Upsert outside a transaction is seen at once; it waits for the row, too.
Put(w) ==
  LET t == tx[w] IN
  /\ Active(w) /\ t.at = "put"
  /\ \A v \in Workers : ~Locks(v, t.conv)
  /\ conv' = [conv EXCEPT ![t.conv] = t.write]
  /\ strays' = strays + One(conv[t.conv] # t.read \/ Occupied(t.read) # Occupied(t.write))
  /\ tx' = [tx EXCEPT ![w] = Idle]
  /\ UNCHANGED <<load, online, sticky>>
  /\ Bounded

-----------------------------------------------------------------------------
(* The surroundings. *)

\* Ingest upserts a fresh conversation, open and unassigned: the first time, or
\* again for an event that is redelivered.
Ingest(c) ==
  /\ \A v \in Workers : ~Locks(v, c)
  /\ conv' = [conv EXCEPT ![c] = Opened]
  /\ strays' = strays + One(conv[c] \notin {Absent, Opened})
  /\ UNCHANGED <<load, online, sticky, tx>>
  /\ Bounded

\* An agent comes or leaves.
Toggle(a) ==
  /\ online' = IF a \in online THEN online \ {a} ELSE online \cup {a}
  /\ UNCHANGED <<conv, load, sticky, tx, strays>>

Next ==
  \/ \E w \in Workers, c \in Convs :
       \/ Assign(w, c) \/ Unassign(w, c) \/ Resolve(w, c) \/ AutoAssign(w, c)
       \/ ListAssign(w, c) \/ ListResolve(w, c)
  \/ \E w \in Workers : Pick(w) \/ Upsert(w) \/ Commit(w) \/ Put(w) \/ Rollback(w)
  \/ \E c \in Convs : Ingest(c)
  \/ \E a \in Commuters : Toggle(a)

Spec == Init /\ [][Next]_vars

-----------------------------------------------------------------------------
(* Properties. *)

Held(a) == {c \in Convs : conv[c].status = "open" /\ conv[c].agent = a}

\* The load of an agent differs from the number of open conversations assigned to
\* that agent by at most one for each update that was lost, to another request or
\* a redelivery, and one for each move by the API, which counts none: whatever
\* else runs, fails, or gives back a slot that was never taken adds nothing
\* (router.go mutate and adjustLoad, list.go, ingest.go).
DriftIsPaidFor ==
  \A a \in Agents :
    /\ load[a] <= Cardinality(Held(a)) + strays
    /\ Cardinality(Held(a)) <= load[a] + strays

\* Concurrent AutoAssigns pass the capacity of an agent by no more than the
\* other requests at work (router.go AutoAssign, acd.go HasCapacity).
OvershootIsBounded ==
  \A a \in Agents \ ByHand : load[a] <= MaxLoad[a] + Cardinality(Workers) - 1

\* pickAgent overlooks nobody: it comes back empty only if no queue that can be
\* reached over the overflow, circles included, has an eligible agent (in a chain of up
\* to eight); whom it finds is eligible in one of them (router.go pickAgent, Select).
Reachable ==
  [c \in Convs |->
     {q \in Queues : \A S \in SUBSET Queues :
        (ExternalID[c] \in S /\ \A r \in S : Overflow[r] \in Queues => Overflow[r] \in S)
          => q \in S}]
NobodyOverlooked ==
  \A c \in Convs :
    ExternalID[c] \in Queues /\ Cardinality(Reachable[c]) <= MaxOverflowHops =>
      LET able == UNION {Eligible(q) : q \in Reachable[c]}
      IN  PickAgent(c) \subseteq able /\ (PickAgent(c) = {} => able = {})

\* A resolved conversation stays resolved, with its agent, unless it is written
\* over unread (conversation.go: Resolve is terminal).
ResolvedIsTerminal ==
  [][\A c \in Convs : conv[c].status = "resolved" /\ conv'[c] # conv[c] => strays' > strays]_vars
=============================================================================
