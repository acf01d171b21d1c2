--------------------------------- MODULE Bus ---------------------------------
(***************************************************************************)
(* adapter/broker/bus.go: one buffered channel and one consumer goroutine  *)
(* per topic, publishes that drop instead of blocking, and Drain, which    *)
(* tells the consumers to leave and waits for them.                        *)
(***************************************************************************)
EXTENDS Naturals, Sequences

CONSTANTS
  Topics,      \* inbound, outbound, status, dlq, lifecycle
  Events,
  TopicOf,     \* the topic an event is published on
  Capacity,    \* buffer size of each topic
  Publishers,  \* goroutines that publish
  Handlers,    \* functions that may subscribe
  Drainers     \* goroutines that call Drain

ASSUME BusAssumption ==
  /\ TopicOf \in [Events -> Topics]
  /\ Capacity \in [Topics -> Nat \ {0}]

VARIABLES
  chan,      \* content of each channel
  pub,       \* events whose publisher has found the bus open and not sent yet
  subs,      \* handlers of each topic, in order of subscription
  cons,      \* where the consumer of each topic is
  cur,       \* event that a consumer works on
  todo,      \* handlers it has still to call
  done,      \* handlers that were called for each event
  drained,   \* drainCh is closed
  drain      \* progress of each call of Drain

consVars == <<cons, cur, todo, done>>
busVars     == <<chan, pub, subs, cons, cur, todo, done, drained, drain>>

BusTypeOK ==
  /\ chan \in [Topics -> Seq(Events)]
  /\ \A t \in Topics : Len(chan[t]) <= Capacity[t]
  /\ pub \in [Publishers -> SUBSET Events]
  /\ subs \in [Topics -> Seq(Handlers)]
  /\ cons \in [Topics -> {"select", "handle", "discard", "gone"}]
  /\ cur \in [Topics -> SUBSET Events]
  /\ todo \in [Topics -> Seq(Handlers)]
  /\ done \in [Events -> SUBSET Handlers]
  /\ drained \in BOOLEAN
  /\ drain \in [Drainers -> {"idle", "waiting", "done", "expired"}]

\* NewBus starts the consumers at once; nobody has subscribed yet.
BusInit ==
  /\ chan = [t \in Topics |-> <<>>]
  /\ pub = [p \in Publishers |-> {}]
  /\ subs = [t \in Topics |-> <<>>]
  /\ cons = [t \in Topics |-> "select"]
  /\ cur = [t \in Topics |-> {}]
  /\ todo = [t \in Topics |-> <<>>]
  /\ done = [e \in Events |-> {}]
  /\ drained = FALSE
  /\ drain = [d \in Drainers |-> "idle"]

-----------------------------------------------------------------------------
(* Publishing is a look at drainCh, then a send that never blocks. *)

\* The bus is open; a publish on a closed bus returns without a trace.
FindOpen(p, e) ==
  /\ ~drained /\ pub[p] = {}
  /\ pub' = [pub EXCEPT ![p] = {e}]
  /\ UNCHANGED <<chan, subs, consVars, drained, drain>>

\* The event is buffered, or dropped when the buffer is full.
Offer(p) ==
  \E e \in pub[p] :
    /\ pub' = [pub EXCEPT ![p] = {}]
    /\ chan' = IF Len(chan[TopicOf[e]]) < Capacity[TopicOf[e]]
               THEN [chan EXCEPT ![TopicOf[e]] = Append(@, e)] ELSE chan
    /\ UNCHANGED <<subs, consVars, drained, drain>>

Subscribe(t, h) ==
  /\ \A i \in DOMAIN subs[t] : subs[t][i] # h
  /\ subs' = [subs EXCEPT ![t] = Append(@, h)]
  /\ UNCHANGED <<chan, pub, consVars, drained, drain>>

-----------------------------------------------------------------------------
(* The consumer of topic t.  Its select takes either branch that is ready.  *)

\* It receives an event and copies the handlers.
Receive(t) ==
  /\ cons[t] = "select" /\ chan[t] # <<>>
  /\ cur' = [cur EXCEPT ![t] = {Head(chan[t])}]
  /\ chan' = [chan EXCEPT ![t] = Tail(@)]
  /\ todo' = [todo EXCEPT ![t] = subs[t]]
  /\ cons' = [cons EXCEPT ![t] = "handle"]
  /\ UNCHANGED <<pub, subs, done, drained, drain>>

\* Mutant: the panic of a handler is not recovered and ends the goroutine.
CallHandlerUnsafe(t) ==
  /\ cons[t] = "handle" /\ todo[t] # <<>>
  /\ done' = [e \in Events |->
                IF e \in cur[t] THEN done[e] \cup {Head(todo[t])} ELSE done[e]]
  /\ todo' = [todo EXCEPT ![t] = Tail(@)]
  /\ cons' \in {cons, [cons EXCEPT ![t] = "gone"]}
  /\ UNCHANGED <<chan, pub, subs, cur, drained, drain>>

\* A handler returns, or panics and is recovered.
CallHandler(t) ==
  /\ cons[t] = "handle" /\ todo[t] # <<>>
  /\ done' = [e \in Events |->
                IF e \in cur[t] THEN done[e] \cup {Head(todo[t])} ELSE done[e]]
  /\ todo' = [todo EXCEPT ![t] = Tail(@)]
  /\ UNCHANGED <<chan, pub, subs, cons, cur, drained, drain>>

Handled(t) ==
  /\ cons[t] = "handle" /\ todo[t] = <<>>
  /\ cons' = [cons EXCEPT ![t] = "select"]
  /\ cur' = [cur EXCEPT ![t] = {}]
  /\ UNCHANGED <<chan, pub, subs, todo, done, drained, drain>>

SeeDrain(t) ==
  /\ cons[t] = "select" /\ drained
  /\ cons' = [cons EXCEPT ![t] = "discard"]
  /\ UNCHANGED <<chan, pub, subs, cur, todo, done, drained, drain>>

\* What is left in the channel is thrown away.
Discard(t) ==
  /\ cons[t] = "discard" /\ chan[t] # <<>>
  /\ chan' = [chan EXCEPT ![t] = Tail(@)]
  /\ UNCHANGED <<pub, subs, consVars, drained, drain>>

\* Mutant: the goroutine waits for another event instead of leaving.
LeaveBlocking(t) ==
  /\ cons[t] = "discard" /\ chan[t] # <<>>
  /\ cons' = [cons EXCEPT ![t] = "gone"]
  /\ UNCHANGED <<chan, pub, subs, cur, todo, done, drained, drain>>

Leave(t) ==
  /\ cons[t] = "discard" /\ chan[t] = <<>>
  /\ cons' = [cons EXCEPT ![t] = "gone"]
  /\ UNCHANGED <<chan, pub, subs, cur, todo, done, drained, drain>>

ConsumerStep(t) == \/ Receive(t) \/ CallHandler(t) \/ Handled(t)
                   \/ SeeDrain(t) \/ Discard(t) \/ Leave(t)

-----------------------------------------------------------------------------
(* Drain, by d. *)

CallDrain(d) ==
  /\ drain[d] = "idle"
  /\ drained' = TRUE
  /\ drain' = [drain EXCEPT ![d] = "waiting"]
  /\ UNCHANGED <<chan, pub, subs, consVars>>

\* Mutant: the WaitGroup counts one consumer instead of all of them.
DrainReturnsEarly(d) ==
  /\ drain[d] = "waiting" /\ \E t \in Topics : cons[t] = "gone"
  /\ drain' = [drain EXCEPT ![d] = "done"]
  /\ UNCHANGED <<chan, pub, subs, consVars, drained>>

\* Every consumer has left.
DrainReturns(d) ==
  /\ drain[d] = "waiting" /\ \A t \in Topics : cons[t] = "gone"
  /\ drain' = [drain EXCEPT ![d] = "done"]
  /\ UNCHANGED <<chan, pub, subs, consVars, drained>>

\* Its context expires first.
DrainExpires(d) ==
  /\ drain[d] = "waiting"
  /\ drain' = [drain EXCEPT ![d] = "expired"]
  /\ UNCHANGED <<chan, pub, subs, consVars, drained>>

BusNext ==
  \/ \E p \in Publishers : Offer(p) \/ \E e \in Events : FindOpen(p, e)
  \/ \E t \in Topics : ConsumerStep(t) \/ \E h \in Handlers : Subscribe(t, h)
  \/ \E d \in Drainers : CallDrain(d) \/ DrainReturns(d) \/ DrainExpires(d)

BusSpec == BusInit /\ [][BusNext]_busVars

\* Consumers are scheduled and handlers return; Drain notices that they left.
\* The select is fair to drainCh: Go picks a ready branch at random.
BusFairSpec ==
  /\ BusSpec
  /\ \A t \in Topics : WF_busVars(ConsumerStep(t)) /\ SF_busVars(SeeDrain(t))
  /\ \A d \in Drainers : WF_busVars(DrainReturns(d))

-----------------------------------------------------------------------------
(* Properties. *)

\* Once Drain has returned nil, no consumer runs and no handler is called any
\* more: what the handlers use may be closed (bus.go:181-199, the shutdown
\* stops the bus before the pools).
QuietAfterDrain ==
  \A d \in Drainers : drain[d] = "done" =>
    \A t \in Topics : cons[t] = "gone" /\ cur[t] = {}

Waits(t, e) == \E i \in DOMAIN chan[t] : chan[t][i] = e

\* A buffered event reaches every handler that is subscribed, whatever the
\* other handlers do, unless the bus is drained (bus.go consume*, safeCall).
BufferedIsHandled ==
  \A e \in Events, h \in Handlers :
    (Waits(TopicOf[e], e) /\ \E i \in DOMAIN subs[TopicOf[e]] : subs[TopicOf[e]][i] = h)
      ~> (h \in done[e] \/ drained)

\* Drain ends without the help of its timeout once the handlers return, even
\* though publishers go on (bus.go:183-199).
DrainEnds == \A d \in Drainers : (drain[d] = "waiting") ~> (drain[d] # "waiting")
=============================================================================
