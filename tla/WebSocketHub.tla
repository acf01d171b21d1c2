---------------------------- MODULE WebSocketHub ----------------------------
(***************************************************************************)
(* transport/websocket: upgrader.go decides who may connect, handler.go     *)
(* runs a reader and a writer for each connection, and hub.go holds the    *)
(* subscribers of each tenant, broadcasts to them and closes them.         *)
(*                                                                         *)
(* The time-outs of the code (a pong that is late, a write that takes too  *)
(* long, the five minutes of the writer's context) may pass at any time.   *)
(***************************************************************************)
EXTENDS Naturals

CONSTANTS
  Sockets,          \* connections
  WsTenants,
  Requests,         \* what a client may ask, see CheckOrigin
  NoOrigin,         \* an absent header
  AllowedOrigins,   \* the configuration of the upgrader
  AllowSameOrigin,
  TrustedProxy,
  SubscriberBuffer  \* room for messages of a subscriber

ASSUME HubAssumption == SubscriberBuffer \in Nat \ {0}

VARIABLES
  handler,   \* where ServeHTTP is, its reader included
  writer,    \* the goroutine of WritePump
  tenant,    \* tenant of a connection
  open,      \* the connection is open on this side
  peer,      \* the client is there and answers pings
  closed,    \* subscribers whose channel is closed
  queue,     \* messages in the channel of each subscriber
  members,   \* subscribers the hub knows
  hubClosed, \* Hub.closed
  closing,   \* subscribers Shutdown has still to close
  shutdown,  \* progress of Shutdown
  copy       \* subscribers the broadcast under way has still to reach

connVars == <<handler, tenant, members>>
hubVars  == <<handler, writer, tenant, open, peer, closed, queue, members,
              hubClosed, closing, shutdown, copy>>

HubTypeOK ==
  /\ handler \in [Sockets -> {"new", "refused", "upgraded", "checked",
                              "reading", "leaving", "gone"}]
  /\ writer \in [Sockets -> {"none", "running", "gone"}]
  /\ tenant \in [Sockets -> WsTenants]
  /\ open \subseteq Sockets /\ peer \subseteq Sockets /\ closed \subseteq Sockets
  /\ queue \in [Sockets -> 0 .. SubscriberBuffer]
  /\ members \subseteq Sockets /\ closing \subseteq Sockets /\ copy \subseteq Sockets
  /\ hubClosed \in BOOLEAN
  /\ shutdown \in {"idle", "waiting", "done", "expired"}

HubInit ==
  /\ handler = [s \in Sockets |-> "new"]
  /\ writer = [s \in Sockets |-> "none"]
  /\ tenant \in [Sockets -> WsTenants]
  /\ open = {} /\ peer = {} /\ closed = {}
  /\ queue = [s \in Sockets |-> 0]
  /\ members = {} /\ closing = {} /\ copy = {}
  /\ hubClosed = FALSE /\ shutdown = "idle"

-----------------------------------------------------------------------------
(* The upgrade. *)

Web == {"http", "https"}

WellFormed(o) == o.scheme \in Web /\ o.host # ""

\* The origins of the configuration that can be origins of a page.
NormalizedOrigins == {o \in AllowedOrigins : WellFormed(o)}

\* A proxy that is trusted speaks for the client.
OriginOf(r) == IF TrustedProxy /\ r.forwarded # NoOrigin THEN r.forwarded ELSE r.origin
SchemeOf(r) == IF TrustedProxy /\ r.proto \in Web THEN r.proto
               ELSE IF r.tls THEN "https" ELSE "http"

CheckOrigin(r) ==
  IF OriginOf(r) = NoOrigin THEN AllowSameOrigin
  ELSE /\ WellFormed(OriginOf(r))
       /\ \/ OriginOf(r) = [scheme |-> SchemeOf(r), host |-> r.host]
          \/ OriginOf(r) \in NormalizedOrigins

\* 401 without a session, 403 for a foreign origin, or the connection.
Upgrade(s) ==
  /\ handler[s] = "new"
  /\ \E r \in Requests :
       LET ok == r.session /\ CheckOrigin(r) IN
       /\ handler' = [handler EXCEPT ![s] = IF ok THEN "upgraded" ELSE "refused"]
       /\ open' = IF ok THEN open \cup {s} ELSE open
       /\ peer' = IF ok THEN peer \cup {s} ELSE peer
  /\ UNCHANGED <<writer, tenant, closed, queue, members, hubClosed, closing, shutdown, copy>>

-----------------------------------------------------------------------------
(* Subscribing looks at Hub.closed before and after it takes the lock. *)

\* The caller closes the connection of a subscriber that was refused.
RefuseSubscriber(s) ==
  /\ handler' = [handler EXCEPT ![s] = "refused"]
  /\ open' = open \ {s}
  /\ UNCHANGED <<writer, members>>

FirstLook(s) ==
  /\ handler[s] = "upgraded"
  /\ \/ hubClosed /\ RefuseSubscriber(s)
     \/ /\ ~hubClosed
        /\ handler' = [handler EXCEPT ![s] = "checked"]
        /\ UNCHANGED <<writer, open, members>>
  /\ UNCHANGED <<tenant, peer, closed, queue, hubClosed, closing, shutdown, copy>>

\* Mutant: there is no second look.
SubscribeUnderLockUnchecked(s) ==
  /\ handler[s] = "checked"
  /\ members' = members \cup {s}
  /\ handler' = [handler EXCEPT ![s] = "reading"]
  /\ writer' = [writer EXCEPT ![s] = "running"]
  /\ UNCHANGED <<open, tenant, peer, closed, queue, hubClosed, closing, shutdown, copy>>

\* Under the lock; ServeHTTP then starts the writer and reads.
SubscribeUnderLock(s) ==
  /\ handler[s] = "checked"
  /\ \/ hubClosed /\ RefuseSubscriber(s)
     \/ /\ ~hubClosed
        /\ members' = members \cup {s}
        /\ handler' = [handler EXCEPT ![s] = "reading"]
        /\ writer' = [writer EXCEPT ![s] = "running"]
        /\ UNCHANGED open
  /\ UNCHANGED <<tenant, peer, closed, queue, hubClosed, closing, shutdown, copy>>

-----------------------------------------------------------------------------
(* The two goroutines of a connection.  Whichever ends first closes it. *)

\* Mutant: the channel is closed and the connection forgotten.
CloseSubscriberChannel(s) ==
  /\ closed' = closed \cup {s}
  /\ open' = open

\* Idempotent.
CloseSubscriber(s) ==
  /\ closed' = closed \cup {s}
  /\ open' = open \ {s}

\* The client hangs up or falls silent.
PeerLeaves(s) ==
  /\ s \in peer \cap open
  /\ peer' = peer \ {s}
  /\ UNCHANGED <<connVars, writer, open, closed, queue, hubClosed, closing, shutdown, copy>>

\* A read fails because either side closed, or no pong came in time.
ReadPumpEnds(s) ==
  /\ handler[s] = "reading"
  /\ s \notin open \cap peer
  /\ CloseSubscriber(s)
  /\ handler' = [handler EXCEPT ![s] = "leaving"]
  /\ UNCHANGED <<writer, tenant, peer, queue, members, hubClosed, closing, shutdown, copy>>

Unsubscribe(s) ==
  /\ handler[s] = "leaving"
  /\ handler' = [handler EXCEPT ![s] = "gone"]
  /\ members' = members \ {s}
  /\ UNCHANGED <<writer, tenant, open, peer, closed, queue, hubClosed, closing, shutdown, copy>>

\* A message leaves the channel; a ping that is sent changes nothing.
WriteMessage(s) ==
  /\ writer[s] = "running" /\ queue[s] > 0 /\ s \in open
  /\ queue' = [queue EXCEPT ![s] = @ - 1]
  /\ UNCHANGED <<connVars, writer, open, peer, closed, hubClosed, closing, shutdown, copy>>

\* The channel is closed and empty, a write or a ping fails, or the five
\* minutes of its context are over.
WritePumpEnds(s) ==
  /\ writer[s] = "running"
  /\ CloseSubscriber(s)
  /\ writer' = [writer EXCEPT ![s] = "gone"]
  /\ UNCHANGED <<connVars, peer, queue, hubClosed, closing, shutdown, copy>>

-----------------------------------------------------------------------------
(* Broadcast and Shutdown. *)

\* The subscribers are copied under the lock.
Broadcast(t) ==
  /\ copy = {}
  /\ copy' = {s \in members : tenant[s] = t}
  /\ copy' # {}
  /\ UNCHANGED <<connVars, writer, open, peer, closed, queue, hubClosed, closing, shutdown>>

\* Without the lock: a full buffer drops the message, and a channel that was
\* closed meanwhile panics, which ends the broadcast.
BroadcastTo(s) ==
  /\ s \in copy
  /\ \/ s \in closed /\ copy' = {} /\ queue' = queue
     \/ /\ s \notin closed
        /\ copy' = copy \ {s}
        /\ queue' = IF queue[s] < SubscriberBuffer THEN [queue EXCEPT ![s] = @ + 1] ELSE queue
  /\ UNCHANGED <<connVars, writer, open, peer, closed, hubClosed, closing, shutdown>>

\* A second call returns at once.
BeginShutdown ==
  /\ ~hubClosed
  /\ hubClosed' = TRUE
  /\ closing' = members /\ members' = {}
  /\ shutdown' = "waiting"
  /\ UNCHANGED <<handler, writer, tenant, open, peer, closed, queue, copy>>

\* A goroutine for each of them, which goes on after a time-out.
ShutdownCloses(s) ==
  /\ s \in closing
  /\ CloseSubscriber(s)
  /\ closing' = closing \ {s}
  /\ UNCHANGED <<connVars, writer, peer, queue, hubClosed, shutdown, copy>>

HubShutdownReturns ==
  /\ shutdown = "waiting"
  /\ \/ closing = {} /\ shutdown' = "done"
     \/ closing # {} /\ shutdown' = "expired"
  /\ UNCHANGED <<connVars, writer, open, peer, closed, queue, hubClosed, closing, copy>>

ReaderStep(s) == FirstLook(s) \/ SubscribeUnderLock(s) \/ ReadPumpEnds(s) \/ Unsubscribe(s)

HubNext ==
  \/ \E s \in Sockets : \/ Upgrade(s) \/ ReaderStep(s) \/ PeerLeaves(s)
                        \/ WriteMessage(s) \/ WritePumpEnds(s)
                        \/ BroadcastTo(s) \/ ShutdownCloses(s)
  \/ \E t \in WsTenants : Broadcast(t)
  \/ BeginShutdown \/ HubShutdownReturns

HubSpec == HubInit /\ [][HubNext]_hubVars

\* The goroutines of a connection are scheduled and its deadlines pass.
HubFairSpec ==
  /\ HubSpec
  /\ \A s \in Sockets : WF_hubVars(ReaderStep(s)) /\ WF_hubVars(WritePumpEnds(s))

-----------------------------------------------------------------------------
(* Properties. *)

Served(s) == handler[s] = "reading" /\ s \notin closed

\* A connection that was upgraded while Shutdown ran is refused or closed by
\* it: when Shutdown has returned nil nobody is served (hub.go:127-171, and the
\* second look of hub.go:71-75).
NobodyOutlivesShutdown ==
  /\ hubClosed => \A s \in Sockets : Served(s) => s \in closing
  /\ shutdown = "done" => \A s \in Sockets : ~Served(s)

\* Whoever ends a connection (the client, the reader, the writer, Shutdown),
\* its other goroutine ends too and the hub forgets it, so that a broadcast
\* can run into its closed channel only for a while (handler.go:64-86,
\* hub.go:84-95, 243-255).
EndedIsForgotten ==
  \A s \in Sockets : (s \in closed)
    ~> (handler[s] = "gone" /\ writer[s] = "gone" /\ s \notin members)
=============================================================================
