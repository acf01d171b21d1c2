------------------------------ MODULE MCProcess ------------------------------
(***************************************************************************)
(* Instances of the parts of the process that start and stop with it:      *)
(* LifecycleRunner, Bus and WebSocketHub.  They share no variable: a       *)
(* behaviour moves one of them only, so that their states add up.          *)
(***************************************************************************)
EXTENDS LifecycleRunner, Bus, WebSocketHub

CONSTANTS relay, reconciler, http, inbound, acme

\* The wiring of the server, without the phases that have no goroutine:
\* pools 1, reconciler 2, relay 3, bus 4, http 5.
WiredBy == [g \in Goroutines |-> CASE g = reconciler -> 2
                                   [] g = relay      -> 3
                                   [] g = http       -> 5]

\* A runner of four phases, of which 3 and 4 have a Start and a Stop.
OfFour == [g \in Goroutines |-> CASE g = relay -> 3 [] g = http -> 4]

\* All events compete for the buffer of one topic; the other consumer idles.
AllInbound == [e \in Events |-> inbound]
One == [t \in Topics |-> 1]

Absent == [scheme |-> "none", host |-> "none"]
Page(scheme, host) == [scheme |-> scheme, host |-> host]
Asks(o, f, p, ses) == [origin |-> o, forwarded |-> f, proto |-> p, tls |-> TRUE,
                       host |-> "panel", session |-> ses]

\* The panel's own page, one the configuration lists, strangers, and a client
\* that is no browser.
SomeRequests ==
  {Asks(Page("https", "partner"), Absent, "none", ses) : ses \in BOOLEAN} \cup
  {Asks(Page("https", "panel"), Absent, p, TRUE) : p \in {"none", "http"}} \cup
  {Asks(o, Absent, "none", TRUE) : o \in {Absent, Page("https", "other"), Page("file", "partner")}} \cup
  {Asks(Absent, Page("https", "partner"), "none", TRUE)}

Configured == {Page("https", "partner"), Page("file", "partner"), Page("https", "")}

VARIABLE moves  \* the component that moves

allVars == <<vars, busVars, hubVars, moves>>

RunnerMoves == moves = "runner" /\ UNCHANGED <<busVars, hubVars, moves>>
BusMoves    == moves = "bus" /\ UNCHANGED <<vars, hubVars, moves>>
HubMoves    == moves = "hub" /\ UNCHANGED <<vars, busVars, moves>>

ProcessInit == Init /\ BusInit /\ HubInit /\ moves \in {"runner", "bus", "hub"}

ProcessNext ==
  \/ RunnerMoves /\ Next
  \/ BusMoves /\ BusNext
  \/ HubMoves /\ HubNext

\* The fairness of FairSpec, BusFairSpec and HubFairSpec.
ProcessSpec ==
  /\ ProcessInit /\ [][ProcessNext]_allVars
  /\ WF_allVars(RunnerMoves /\ CallBoot) /\ WF_allVars(RunnerMoves /\ BootStep)
  /\ \A c \in Callers : WF_allVars(RunnerMoves /\ ShutStep(c))
  /\ \A g \in Goroutines : WF_allVars(RunnerMoves /\ GoroutineObeys(g))
  /\ \A t \in Topics : /\ WF_allVars(BusMoves /\ ConsumerStep(t))
                       /\ SF_allVars(BusMoves /\ SeeDrain(t))
  /\ \A d \in Drainers : WF_allVars(BusMoves /\ DrainReturns(d))
  /\ \A s \in Sockets : /\ WF_allVars(HubMoves /\ ReaderStep(s))
                        /\ WF_allVars(HubMoves /\ WritePumpEnds(s))
=============================================================================
