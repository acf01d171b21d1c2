--------------------------- MODULE ProcessProofs ---------------------------
(***************************************************************************)
(* Proofs about the parts of the process: the runner of the phases, for any*)
(* number of them, every choice of Starts and Stops and any goroutines; the*)
(* bus, for any topics, buffers, publishers and callers of Drain; the hub  *)
(* of the WebSockets, for any connections, tenants and origins.            *)
(***************************************************************************)
EXTENDS LifecycleRunner, Bus, WebSocketHub, TLAPS, SequenceTheorems

-----------------------------------------------------------------------------
(* LifecycleRunner.                                                        *)

\* What one call of Shutdown may do, or two of them at the same time, seen from
\* the call c that makes the step.
LEMMA ShutStepType ==
  ASSUME TypeOK, NEW c \in Callers, ShutStep(c)
  PROVE  TypeOK'
<1> USE RunnerAssumption DEF RunnerAssumption, Phases, Callers, BootState, ShutState,
        bootVars, shutVars
<1>0. /\ N \in Nat /\ si \in [Callers -> 0 .. N] /\ spc \in [Callers -> ShutState]
      /\ si[c] \in 0 .. N
  BY DEF TypeOK
<1>1. CASE Skip(c)
  <2>1. si[c] > 0 /\ si' = [si EXCEPT ![c] = @ - 1] /\ spc[c] = "scan"
    BY <1>1 DEF Skip
  <2>2. si[c] - 1 \in 0 .. N
    BY <1>0, <2>1
  <2>3. si' \in [Callers -> 0 .. N]
    BY <1>0, <2>1, <2>2
  <2>4. \A d \in Callers : spc[d] = "stop" => si'[d] = si[d]
    BY <1>0, <2>1
  <2> QED
    BY <1>1, <2>3, <2>4 DEF TypeOK, Skip
<1>2. CASE StopPhase(c)
  BY <1>2 DEF TypeOK, StopPhase
<1>3. CASE StopReturns(c)
  <2>1. /\ si[c] \in HasStop /\ spc[c] = "stop"
        /\ si' = [si EXCEPT ![c] = @ - 1] /\ spc' = [spc EXCEPT ![c] = "scan"]
        /\ up' \subseteq up
    BY <1>3 DEF TypeOK, StopReturns
  <2>2. si[c] - 1 \in 0 .. N
    BY <1>0, <2>1
  <2>3. si' \in [Callers -> 0 .. N] /\ spc' \in [Callers -> ShutState]
    BY <1>0, <2>1, <2>2
  <2>4. \A d \in Callers : spc'[d] = "stop" => spc[d] = "stop" /\ si'[d] = si[d]
    BY <1>0, <2>1
  <2> QED
    BY <1>3, <2>1, <2>3, <2>4 DEF TypeOK, StopReturns
<1>4. CASE ShutdownReturns(c)
  BY <1>4 DEF TypeOK, ShutdownReturns
<1>5. QED
  BY <1>1, <1>2, <1>3, <1>4 DEF ShutStep

\* A call of Shutdown keeps the types of what it assigns, and stops nothing.
LEMMA CallType ==
  ASSUME TypeOK, NEW c \in Callers, Call(c)
  PROVE  /\ begun' \in BOOLEAN
         /\ spc' \in [Callers -> ShutState]
         /\ si' \in [Callers -> 0 .. N]
         /\ \A d \in Callers : spc'[d] = "stop" => spc[d] = "stop" /\ si'[d] = si[d]
BY RunnerAssumption DEF TypeOK, Call, RunnerAssumption, ShutState

\* Boot keeps the types, and marks each phase before it attempts it.
LEMMA BootStepType ==
  ASSUME TypeOK, BootStep
  PROVE  TypeOK'
<1> USE RunnerAssumption DEF RunnerAssumption, Phases, BootState, shutVars, bootVars
<1>1. CASE SkipStart
  BY <1>1 DEF TypeOK, SkipStart
<1>2. CASE StartPhase
  BY <1>2 DEF TypeOK, StartPhase
<1>3. CASE StartOK
  BY <1>3 DEF TypeOK, StartOK
<1>4. CASE StartFails
  <2>1. "boot" \in Callers
    BY DEF Callers
  <2>2. Call("boot")
    BY <1>4 DEF StartFails
  <2>3. QED
    BY <1>4, <2>1, <2>2, CallType DEF TypeOK, StartFails
<1>5. CASE BootFails
  BY <1>5 DEF TypeOK, BootFails
<1>6. CASE BootDone
  BY <1>6 DEF TypeOK, BootDone
<1>7. QED
  BY <1>1, <1>2, <1>3, <1>4, <1>5, <1>6 DEF BootStep

\* Every step keeps the types.
LEMMA NextType == TypeOK /\ [Next]_vars => TypeOK'
<1> SUFFICES ASSUME TypeOK, [Next]_vars
             PROVE  TypeOK'
  OBVIOUS
<1> USE DEF bootVars, shutVars
<1>1. CASE CallBoot
  BY <1>1 DEF TypeOK, CallBoot, BootState
<1>2. CASE BootStep
  BY <1>2, BootStepType
<1>3. CASE SignalShutdown
  <2>1. "signal" \in Callers
    BY DEF Callers
  <2>2. Call("signal")
    BY <1>3 DEF SignalShutdown
  <2>3. QED
    BY <1>3, <2>1, <2>2, CallType DEF TypeOK, SignalShutdown
<1>4. ASSUME NEW c \in Callers, ShutStep(c)
      PROVE  TypeOK'
  BY <1>4, ShutStepType
<1>5. ASSUME NEW g \in Goroutines, Launch(g) \/ GoroutineEnds(g)
      PROVE  TypeOK'
  BY <1>5 DEF TypeOK, Launch, GoroutineEnds
<1>6. CASE CallWait \/ WaitDrained \/ WaitExpires
  BY <1>6 DEF TypeOK, CallWait, WaitDrained, WaitExpires
<1>7. CASE UNCHANGED vars
  BY <1>7 DEF TypeOK, vars
<1>8. QED
  BY <1>1, <1>2, <1>3, <1>4, <1>5, <1>6, <1>7 DEF Next

\* The types hold at the start.
LEMMA InitType == Init => TypeOK
<1> SUFFICES ASSUME Init
             PROVE  TypeOK
  OBVIOUS
<1>1. bi \in 1 .. N + 1 /\ up \subseteq Phases
  BY RunnerAssumption DEF Init, RunnerAssumption
<1>2. /\ spc \in [Callers -> ShutState] /\ si \in [Callers -> 0 .. N]
      /\ stops \in [Phases -> Nat]
      /\ routine \in [Goroutines -> {"none", "running", "over"}]
  BY RunnerAssumption DEF Init, RunnerAssumption, ShutState
<1>3. \A c \in Callers : spc[c] # "stop"
  BY DEF Init
<1>4. QED
  BY <1>1, <1>2, <1>3 DEF Init, TypeOK, BootState

\* Every variable keeps its type; what was attempted was marked, and a Stop
\* that runs is that of a marked phase.
THEOREM RunnerTypeCorrect == Spec => []TypeOK
BY InitType, NextType, PTL DEF Spec

-----------------------------------------------------------------------------
(* No Stop is called twice. *)

OnceInv == OneAtWork /\ FreshBelow /\ StopOnce

\* A step that leaves Shutdown alone cannot disturb the invariant.
LEMMA OnceFrame ==
  ASSUME OnceInv, UNCHANGED <<begun, spc, si, stops>>
  PROVE  OnceInv'
BY DEF OnceInv, OneAtWork, FreshBelow, StopOnce, Active, Seen

\* A call of Shutdown finds nothing stopped, or returns at once.
LEMMA OnceCall ==
  ASSUME TypeOK, OnceInv, NEW c \in Callers, Call(c), UNCHANGED stops
  PROVE  OnceInv'
<1>1. CASE begun
  BY <1>1 DEF TypeOK, OnceInv, OneAtWork, FreshBelow, StopOnce, Active, Seen, Call
<1>2. CASE ~begun
  <2>1. \A d \in Callers : ~Active(d) /\ (Active(d)' => d = c)
    BY <1>2 DEF TypeOK, OnceInv, OneAtWork, Active, Call
  <2>2. begun'
    BY DEF Call
  <2>3. \A i \in Phases : stops'[i] = 0
    BY <1>2 DEF OnceInv, FreshBelow
  <2>4. QED
    BY <2>1, <2>2, <2>3 DEF OnceInv, OneAtWork, FreshBelow, StopOnce
<1>3. QED
  BY <1>1, <1>2 DEF TypeOK

\* The call at work goes down the phases and stops the one it comes to.
LEMMA OnceShutStep ==
  ASSUME TypeOK, OnceInv, NEW c \in Callers, ShutStep(c)
  PROVE  OnceInv'
<1> USE RunnerAssumption DEF RunnerAssumption
<1>1. Active(c) /\ begun /\ begun' = begun
  BY DEF ShutStep, Skip, StopPhase, StopReturns, ShutdownReturns, OnceInv, OneAtWork, Active
<1>2. \A d \in Callers \ {c} : ~Active(d) /\ spc'[d] = spc[d] /\ si'[d] = si[d]
  BY <1>1 DEF TypeOK, OnceInv, OneAtWork, ShutStep, Skip, StopPhase, StopReturns, ShutdownReturns
<1>3. OneAtWork'
  BY <1>1, <1>2 DEF OneAtWork, Active
<1>4. CASE Skip(c)
  BY <1>1, <1>2, <1>3, <1>4 DEF Skip, TypeOK, OnceInv, FreshBelow, StopOnce, Active, Seen, Phases
<1>5. CASE StopPhase(c)
  <2>1. si[c] \in Phases /\ stops[si[c]] = 0
    BY <1>1, <1>5 DEF StopPhase, TypeOK, OnceInv, FreshBelow, Seen, Phases
  <2>2. \A i \in Phases : stops'[i] = IF i = si[c] THEN 1 ELSE stops[i]
    BY <1>5, <2>1 DEF StopPhase, TypeOK
  <2>3. spc'[c] = "stop" /\ si' = si
    BY <1>5 DEF StopPhase, TypeOK
  <2>4. QED
    BY <1>1, <1>2, <1>3, <1>5, <2>1, <2>2, <2>3
    DEF StopPhase, TypeOK, OnceInv, FreshBelow, StopOnce, Active, Seen, Phases
<1>6. CASE StopReturns(c)
  BY <1>1, <1>2, <1>3, <1>6
  DEF StopReturns, TypeOK, OnceInv, FreshBelow, StopOnce, Active, Seen, Phases
<1>7. CASE ShutdownReturns(c)
  BY <1>1, <1>2, <1>3, <1>7
  DEF ShutdownReturns, TypeOK, OnceInv, FreshBelow, StopOnce, Active, Seen, Phases
<1>8. QED
  BY <1>4, <1>5, <1>6, <1>7 DEF ShutStep

\* Every step keeps the invariant.
LEMMA OnceNext == TypeOK /\ OnceInv /\ [Next]_vars => OnceInv'
<1> SUFFICES ASSUME TypeOK, OnceInv, [Next]_vars
             PROVE  OnceInv'
  OBVIOUS
<1> USE DEF bootVars, shutVars
<1>1. CASE CallBoot
  BY <1>1, OnceFrame DEF CallBoot
<1>2. CASE BootStep
  <2>1. CASE StartFails
    BY <2>1, OnceCall DEF StartFails, Callers
  <2>2. CASE SkipStart \/ StartPhase \/ StartOK \/ BootFails \/ BootDone
    BY <2>2, OnceFrame DEF SkipStart, StartPhase, StartOK, BootFails, BootDone
  <2>3. QED
    BY <1>2, <2>1, <2>2 DEF BootStep
<1>3. CASE SignalShutdown
  BY <1>3, OnceCall DEF SignalShutdown, Callers
<1>4. ASSUME NEW c \in Callers, ShutStep(c)
      PROVE  OnceInv'
  BY <1>4, OnceShutStep
<1>5. ASSUME NEW g \in Goroutines, Launch(g) \/ GoroutineEnds(g)
      PROVE  OnceInv'
  BY <1>5, OnceFrame DEF Launch, GoroutineEnds
<1>6. CASE CallWait \/ WaitDrained \/ WaitExpires
  BY <1>6, OnceFrame DEF CallWait, WaitDrained, WaitExpires
<1>7. CASE UNCHANGED vars
  BY <1>7, OnceFrame DEF vars
<1>8. QED
  BY <1>1, <1>2, <1>3, <1>4, <1>5, <1>6, <1>7 DEF Next

\* However the signal and a failing Boot interleave, no Stop is called twice
\* (runner.go:219-228).
THEOREM StopsOnce == Spec => []StopOnce
<1>1. Init => OnceInv
  BY DEF Init, OnceInv, OneAtWork, FreshBelow, StopOnce, Active
<1>2. OnceInv => StopOnce
  BY DEF OnceInv
<1>3. QED
  BY <1>1, <1>2, OnceNext, RunnerTypeCorrect, PTL DEF Spec

-----------------------------------------------------------------------------
(* Unless Shutdown was called in the middle of Boot, the order and the       *)
(* completeness of the shutdown.                                             *)

OrderInv == OnceInv /\ (~overlap => SeenAbove)

\* A step of neither Boot nor Shutdown cannot disturb the invariant.
LEMMA OrderFrame ==
  ASSUME SeenAbove, UNCHANGED <<boot, marked, begun, ended, spc, si, stops>>
  PROVE  SeenAbove'
BY DEF SeenAbove, Active, Seen

\* A call of Shutdown by one whose Boot is over starts above the last phase.
LEMMA OrderCall ==
  ASSUME TypeOK, SeenAbove, NEW c \in Callers, Call(c), ~begun,
         UNCHANGED <<marked, ended, stops>>, boot' \notin {"next", "start"},
         OneAtWork
  PROVE  SeenAbove'
<1>1. begun' /\ ~ended' /\ spc'[c] = "scan" /\ si'[c] = N
  BY DEF Call, TypeOK, SeenAbove
<1>2. \A d \in Callers : Active(d)' => d = c
  BY DEF TypeOK, OneAtWork, Active, Call
<1>3. \A j \in HasStop \cap marked : ~Seen(c, j)'
  BY <1>1, RunnerAssumption DEF Seen, RunnerAssumption, Phases
<1>4. Active(c)'
  BY <1>1 DEF Active
<1>5. QED
  BY <1>1, <1>2, <1>3, <1>4 DEF SeenAbove

\* A call that finds another one at work returns at once.
LEMMA OrderCallAgain ==
  ASSUME TypeOK, SeenAbove, NEW c \in Callers, Call(c), begun, ~Active(c),
         UNCHANGED <<boot, marked, ended, stops>>
  PROVE  SeenAbove'
<1>1. begun' /\ \A d \in Callers : Active(d)' <=> Active(d)
  BY DEF Call, TypeOK, Active
<1>2. \A d \in Callers, j \in Phases : Active(d) => (Seen(d, j)' <=> Seen(d, j))
  BY DEF Call, TypeOK, Active, Seen
<1>3. QED
  BY <1>1, <1>2, RunnerAssumption DEF SeenAbove, RunnerAssumption

\* The call at work leaves nothing above it unstopped.
LEMMA OrderShutStep ==
  ASSUME TypeOK, OnceInv, SeenAbove, NEW c \in Callers, ShutStep(c)
  PROVE  SeenAbove'
<1> USE RunnerAssumption DEF RunnerAssumption
<1>1. Active(c) /\ begun /\ begun' = begun /\ marked' = marked /\ boot' = boot
  BY DEF ShutStep, Skip, StopPhase, StopReturns, ShutdownReturns, OnceInv, OneAtWork, Active,
         bootVars
<1>2. \A d \in Callers \ {c} : ~Active(d)' /\ ~Active(d)
  BY <1>1 DEF TypeOK, OnceInv, OneAtWork, ShutStep, Skip, StopPhase, StopReturns,
     ShutdownReturns, Active
<1>3. \A j \in Phases : stops[j] > 0 => stops'[j] > 0
  BY DEF TypeOK, ShutStep, Skip, StopPhase, StopReturns, ShutdownReturns
<1>4. si[c] \in 0 .. N
  BY DEF TypeOK
<1>5. CASE Skip(c)
  <2>1. Active(c)' /\ ended' = ended /\ stops' = stops
    BY <1>1, <1>5 DEF Skip, Active
  <2>2. \A j \in HasStop \cap marked : Seen(c, j)' => Seen(c, j)
    BY <1>4, <1>5 DEF Skip, Seen, TypeOK, Phases
  <2>3. QED
    BY <1>1, <1>2, <2>1, <2>2 DEF SeenAbove
<1>6. CASE StopPhase(c)
  <2>1. Active(c)' /\ ended' = ended
    BY <1>6 DEF StopPhase, Active, TypeOK
  <2>2. \A j \in HasStop \cap marked : Seen(c, j)' => Seen(c, j) \/ j = si[c]
    BY <1>4, <1>6 DEF StopPhase, Seen, TypeOK, Phases
  <2>3. si[c] \in Phases /\ stops'[si[c]] > 0
    BY <1>6 DEF StopPhase, TypeOK
  <2>4. QED
    BY <1>1, <1>2, <1>3, <2>1, <2>2, <2>3 DEF SeenAbove
<1>7. CASE StopReturns(c)
  <2>1. Active(c)' /\ ended' = ended /\ stops' = stops
    BY <1>7 DEF StopReturns, Active, TypeOK
  <2>2. \A j \in HasStop \cap marked : Seen(c, j)' => Seen(c, j)
    BY <1>4, <1>7 DEF StopReturns, Seen, TypeOK, Phases
  <2>3. QED
    BY <1>1, <1>2, <2>1, <2>2 DEF SeenAbove
<1>8. CASE ShutdownReturns(c)
  <2>1. ended' /\ ~Active(c)' /\ stops' = stops
    BY <1>8 DEF ShutdownReturns, Active, TypeOK
  <2>2. \A j \in HasStop \cap marked : Seen(c, j)
    BY <1>8 DEF ShutdownReturns, Seen, Phases
  <2>3. QED
    BY <1>1, <1>2, <2>1, <2>2 DEF SeenAbove
<1>9. QED
  BY <1>5, <1>6, <1>7, <1>8 DEF ShutStep

\* Boot moves on only while no Shutdown has begun.
LEMMA OrderBootStep ==
  ASSUME TypeOK, OnceInv, SeenAbove, CallBoot \/ BootStep
  PROVE  SeenAbove'
<1> USE DEF bootVars, shutVars
<1>1. CASE StartFails
  <2>1. ~begun /\ Call("boot")
    BY <1>1 DEF StartFails, SeenAbove
  <2>2. UNCHANGED <<marked, ended, stops>> /\ boot' = "failed"
    BY <1>1 DEF StartFails
  <2>3. QED
    BY <2>1, <2>2, OrderCall DEF Callers, OnceInv
<1>2. CASE BootFails
  BY <1>2 DEF BootFails, SeenAbove, Active, Seen
<1>3. CASE SkipStart \/ StartPhase \/ StartOK \/ BootDone \/ (CallBoot /\ ~begun)
  <2>1. ~begun
    BY <1>3 DEF SkipStart, StartPhase, StartOK, BootDone, SeenAbove
  <2>2. UNCHANGED shutVars
    BY <1>3 DEF CallBoot, SkipStart, StartPhase, StartOK, BootDone
  <2>3. \A c \in Callers : ~Active(c) /\ ~Active(c)'
    BY <2>1, <2>2 DEF OnceInv, OneAtWork, Active
  <2>4. ~begun' /\ ~ended'
    BY <2>1, <2>2 DEF SeenAbove
  <2>5. QED
    BY <2>3, <2>4 DEF SeenAbove
<1>4. CASE CallBoot /\ begun
  BY <1>4 DEF CallBoot, SeenAbove, Active, Seen
<1>5. QED
  BY <1>1, <1>2, <1>3, <1>4 DEF BootStep

\* Every step keeps the invariant.
LEMMA OrderNext == TypeOK /\ OrderInv /\ [Next]_vars => OrderInv'
<1>0. TypeOK /\ [Next]_vars /\ ~overlap' => ~overlap
  BY DEF Next, vars, bootVars, CallBoot, BootStep, SkipStart, StartPhase, StartOK, StartFails,
         BootFails, BootDone, SignalShutdown, ShutStep, Skip, StopPhase, StopReturns,
         ShutdownReturns, Launch, GoroutineEnds, CallWait, WaitDrained, WaitExpires
<1> SUFFICES ASSUME TypeOK, OnceInv, SeenAbove, [Next]_vars, ~overlap'
             PROVE  SeenAbove'
  BY <1>0, OnceNext DEF OrderInv
<1> USE DEF bootVars, shutVars
<1>1. CASE CallBoot \/ BootStep
  BY <1>1, OrderBootStep
<1>2. CASE SignalShutdown
  <2>1. /\ Call("signal") /\ "signal" \in Callers /\ ~Active("signal")
        /\ UNCHANGED <<boot, marked, ended, stops>>
    BY <1>2 DEF SignalShutdown, Callers, Active
  <2>2. boot' \notin {"next", "start"}
    BY <1>2 DEF SignalShutdown, TypeOK
  <2>3. CASE begun
    BY <2>1, <2>3, OrderCallAgain
  <2>4. CASE ~begun
    BY <2>1, <2>2, <2>4, OrderCall DEF OnceInv
  <2>5. QED
    BY <2>3, <2>4
<1>3. ASSUME NEW c \in Callers, ShutStep(c)
      PROVE  SeenAbove'
  BY <1>3, OrderShutStep
<1>4. ASSUME NEW g \in Goroutines, Launch(g) \/ GoroutineEnds(g)
      PROVE  SeenAbove'
  BY <1>4, OrderFrame DEF Launch, GoroutineEnds
<1>5. CASE CallWait \/ WaitDrained \/ WaitExpires
  BY <1>5, OrderFrame DEF CallWait, WaitDrained, WaitExpires
<1>6. CASE UNCHANGED vars
  BY <1>6, OrderFrame DEF vars
<1>7. QED
  BY <1>1, <1>2, <1>3, <1>4, <1>5, <1>6 DEF Next

\* The invariant holds at the start.
LEMMA OrderInit == Init => OrderInv
BY DEF Init, OrderInv, OnceInv, OneAtWork, FreshBelow, StopOnce, SeenAbove, Active

\* Every phase whose Start was called has had its Stop called once Boot and
\* Shutdown are through (runner.go:167-171).
THEOREM AttemptedPhasesAreStopped == Spec => []AttemptedIsStopped
<1>1. TypeOK /\ OrderInv => AttemptedIsStopped
  BY DEF TypeOK, OrderInv, SeenAbove, AttemptedIsStopped, Settled
<1>2. QED
  BY <1>1, OrderInit, OrderNext, RunnerTypeCorrect, PTL DEF Spec

\* No phase is stopped before a later one that runs (phase.go:8, LIFO).
THEOREM LaterPhasesStopFirst == Spec => []LaterStoppedFirst
<1>1. TypeOK /\ OrderInv => LaterStoppedFirst
  <2> SUFFICES ASSUME TypeOK, OrderInv, ~overlap,
                      NEW i \in Phases, stops[i] > 0,
                      NEW j \in i + 1 .. N, j \in up \cap attempted \cap HasStop
               PROVE  stops[j] > 0
    BY DEF LaterStoppedFirst
  <2>1. j \in HasStop \cap marked
    BY DEF TypeOK
  <2>2. begun
    BY DEF OrderInv, OnceInv, FreshBelow
  <2>3. CASE ended
    BY <2>1, <2>3 DEF OrderInv, SeenAbove
  <2>4. ASSUME NEW c \in Callers, Active(c)
        PROVE  stops[j] > 0
    <3>1. Seen(c, i)
      BY <2>4 DEF OrderInv, OnceInv, FreshBelow
    <3>2. Seen(c, j)
      BY <3>1, RunnerAssumption DEF Seen, TypeOK, Phases, RunnerAssumption
    <3>3. QED
      BY <2>1, <2>4, <3>2 DEF OrderInv, SeenAbove
  <2>5. QED
    BY <2>2, <2>3, <2>4 DEF OrderInv, SeenAbove
<1>2. QED
  BY <1>1, OrderInit, OrderNext, RunnerTypeCorrect, PTL DEF Spec

-----------------------------------------------------------------------------
(* Bus.                                                                    *)

\* A send that finds room keeps the channel typed and within its capacity.
LEMMA OfferTyped ==
  ASSUME BusTypeOK, NEW p \in Publishers, Offer(p)
  PROVE  BusTypeOK'
<1>1. PICK e \in pub[p] :
        /\ pub' = [pub EXCEPT ![p] = {}]
        /\ chan' = IF Len(chan[TopicOf[e]]) < Capacity[TopicOf[e]]
                   THEN [chan EXCEPT ![TopicOf[e]] = Append(@, e)] ELSE chan
        /\ UNCHANGED <<subs, cons, cur, todo, done, drained, drain>>
  BY DEF Offer, consVars
<1>2. e \in Events /\ TopicOf[e] \in Topics
  BY <1>1, BusAssumption DEF BusTypeOK
<1> DEFINE s == TopicOf[e]
<1>3. chan[s] \in Seq(Events) /\ Capacity[s] \in Nat \ {0} /\ Len(chan[s]) \in Nat
  BY <1>2, BusAssumption DEF BusTypeOK
<1>4. Append(chan[s], e) \in Seq(Events) /\ Len(Append(chan[s], e)) = Len(chan[s]) + 1
  BY <1>2, <1>3
<1>5. chan' \in [Topics -> Seq(Events)]
  BY <1>1, <1>2, <1>4 DEF BusTypeOK
<1>6. ASSUME NEW t \in Topics PROVE Len(chan'[t]) <= Capacity[t]
  <2>1. CASE Len(chan[s]) < Capacity[s]
    <3>1. chan' = [chan EXCEPT ![s] = Append(@, e)]
      BY <1>1, <2>1
    <3>2. CASE t = s
      BY <3>1, <3>2, <2>1, <1>2, <1>3, <1>4 DEF BusTypeOK
    <3>3. CASE t # s
      BY <3>1, <3>3, <1>2 DEF BusTypeOK
    <3> QED BY <3>2, <3>3
  <2>2. CASE ~(Len(chan[s]) < Capacity[s])
    BY <1>1, <2>2 DEF BusTypeOK
  <2> QED BY <2>1, <2>2
<1>7. pub' \in [Publishers -> SUBSET Events]
  BY <1>1 DEF BusTypeOK
<1> QED BY <1>1, <1>5, <1>6, <1>7 DEF BusTypeOK

\* Taking the oldest event keeps the channel typed and within its capacity.
LEMMA TailTyped ==
  ASSUME BusTypeOK, NEW t \in Topics, chan[t] # <<>>,
         chan' = [chan EXCEPT ![t] = Tail(@)]
  PROVE  /\ chan' \in [Topics -> Seq(Events)]
         /\ \A u \in Topics : Len(chan'[u]) <= Capacity[u]
         /\ Head(chan[t]) \in Events
<1>1. chan[t] \in Seq(Events) /\ chan[t] # <<>> /\ Capacity[t] \in Nat
  BY BusAssumption DEF BusTypeOK
<1>2. /\ Head(chan[t]) \in Events /\ Tail(chan[t]) \in Seq(Events)
      /\ Len(Tail(chan[t])) = Len(chan[t]) - 1 /\ Len(chan[t]) \in Nat
  BY <1>1, HeadTailProperties
<1>3. chan' \in [Topics -> Seq(Events)]
  BY <1>2 DEF BusTypeOK
<1>4. ASSUME NEW u \in Topics PROVE Len(chan'[u]) <= Capacity[u]
  <2>1. CASE u = t
    <3>1. Len(chan'[u]) = Len(chan[t]) - 1
      BY <2>1, <1>2 DEF BusTypeOK
    <3>2. Len(chan[t]) <= Capacity[t]
      BY DEF BusTypeOK
    <3> QED BY <3>1, <3>2, <1>1, <1>2, <2>1
  <2>2. CASE u # t
    BY <2>2 DEF BusTypeOK
  <2> QED BY <2>1, <2>2
<1> QED BY <1>2, <1>3, <1>4

\* The consumer that receives an event copies the handlers of its topic.
LEMMA ReceiveTyped ==
  ASSUME BusTypeOK, NEW t \in Topics, Receive(t)
  PROVE  BusTypeOK'
<1>1. /\ chan' \in [Topics -> Seq(Events)]
      /\ \A u \in Topics : Len(chan'[u]) <= Capacity[u]
      /\ Head(chan[t]) \in Events
  BY TailTyped DEF Receive
<1> QED BY <1>1 DEF Receive, BusTypeOK

\* The consumer that calls a handler notes it for the event it works on.
LEMMA CallHandlerTyped ==
  ASSUME BusTypeOK, NEW t \in Topics, CallHandler(t)
  PROVE  BusTypeOK'
<1>1. todo[t] \in Seq(Handlers) /\ todo[t] # <<>>
  BY DEF BusTypeOK, CallHandler
<1>2. Head(todo[t]) \in Handlers /\ Tail(todo[t]) \in Seq(Handlers)
  BY <1>1, HeadTailProperties
<1>3. done' \in [Events -> SUBSET Handlers]
  BY <1>2 DEF CallHandler, BusTypeOK
<1>4. todo' \in [Topics -> Seq(Handlers)]
  BY <1>2 DEF CallHandler, BusTypeOK
<1> QED BY <1>3, <1>4 DEF CallHandler, BusTypeOK

\* A drained consumer that throws an event away keeps the channel typed.
LEMMA DiscardTyped ==
  ASSUME BusTypeOK, NEW t \in Topics, Discard(t)
  PROVE  BusTypeOK'
<1>1. /\ chan' \in [Topics -> Seq(Events)]
      /\ \A u \in Topics : Len(chan'[u]) <= Capacity[u]
  BY TailTyped DEF Discard
<1> QED BY <1>1 DEF Discard, BusTypeOK, consVars

\* A step of any goroutine preserves the types.
LEMMA NextTyped == BusTypeOK /\ [BusNext]_busVars => BusTypeOK'
<1> SUFFICES ASSUME BusTypeOK, [BusNext]_busVars PROVE BusTypeOK'
  OBVIOUS
<1>1. ASSUME NEW p \in Publishers, Offer(p) PROVE BusTypeOK'
  BY <1>1, OfferTyped
<1>2. ASSUME NEW p \in Publishers, NEW e \in Events, FindOpen(p, e) PROVE BusTypeOK'
  BY <1>2 DEF FindOpen, BusTypeOK, consVars
<1>3. ASSUME NEW t \in Topics, ConsumerStep(t) PROVE BusTypeOK'
  <2>1. CASE Receive(t)      BY <2>1, ReceiveTyped
  <2>2. CASE CallHandler(t)  BY <2>2, CallHandlerTyped
  <2>3. CASE Handled(t)      BY <2>3 DEF Handled, BusTypeOK
  <2>4. CASE SeeDrain(t)     BY <2>4 DEF SeeDrain, BusTypeOK
  <2>5. CASE Discard(t)      BY <2>5, DiscardTyped
  <2>6. CASE Leave(t)        BY <2>6 DEF Leave, BusTypeOK
  <2> QED BY <1>3, <2>1, <2>2, <2>3, <2>4, <2>5, <2>6 DEF ConsumerStep
<1>4. ASSUME NEW t \in Topics, NEW h \in Handlers, Subscribe(t, h) PROVE BusTypeOK'
  <2>1. Append(subs[t], h) \in Seq(Handlers)
    BY DEF BusTypeOK
  <2>2. subs' \in [Topics -> Seq(Handlers)]
    BY <1>4, <2>1 DEF Subscribe, BusTypeOK
  <2> QED BY <1>4, <2>2 DEF Subscribe, BusTypeOK, consVars
<1>5. ASSUME NEW d \in Drainers, CallDrain(d) \/ DrainReturns(d) \/ DrainExpires(d)
      PROVE  BusTypeOK'
  <2>1. CASE CallDrain(d)     BY <2>1 DEF CallDrain, BusTypeOK, consVars
  <2>2. CASE DrainReturns(d)  BY <2>2 DEF DrainReturns, BusTypeOK, consVars
  <2>3. CASE DrainExpires(d)  BY <2>3 DEF DrainExpires, BusTypeOK, consVars
  <2> QED BY <1>5, <2>1, <2>2, <2>3
<1>6. CASE UNCHANGED busVars
  BY <1>6 DEF busVars, BusTypeOK
<1> QED BY <1>1, <1>2, <1>3, <1>4, <1>5, <1>6 DEF BusNext

\* A bus fresh from NewBus is well typed: its channels are empty.
LEMMA InitTyped == BusInit => BusTypeOK
<1> SUFFICES ASSUME BusInit PROVE BusTypeOK
  OBVIOUS
<1>1. chan \in [Topics -> Seq(Events)]
  BY DEF BusInit
<1>2. ASSUME NEW t \in Topics PROVE Len(chan[t]) <= Capacity[t]
  <2>1. chan[t] = <<>> /\ Capacity[t] \in Nat \ {0}
    BY BusAssumption DEF BusInit
  <2> QED BY <2>1
<1>3. subs \in [Topics -> Seq(Handlers)] /\ todo \in [Topics -> Seq(Handlers)]
  BY DEF BusInit
<1> QED BY <1>1, <1>2, <1>3 DEF BusInit, BusTypeOK

\* Every variable keeps its type; in particular no channel ever holds more than
\* its capacity, whatever the publishers do (bus.go:84-149).
THEOREM BusTypeCorrect == BusSpec => []BusTypeOK
<1>1. BusInit => BusTypeOK
  BY InitTyped
<1>2. BusTypeOK /\ [BusNext]_busVars => BusTypeOK'
  BY NextTyped
<1> QED BY <1>1, <1>2, PTL DEF BusSpec

-----------------------------------------------------------------------------
(* QuietAfterDrain needs that a consumer that has left has nothing in hand: *)
(* an event is in hand between Receive and Handled only.                    *)

EmptyHanded == \A t \in Topics : cur[t] # {} => cons[t] = "handle"

QuietInv == BusTypeOK /\ EmptyHanded /\ QuietAfterDrain

\* Only the consumer of t moves cons[t] and cur[t], and never once it has left.
LEMMA GoneStays ==
  ASSUME BusTypeOK, EmptyHanded, NEW t \in Topics, ConsumerStep(t)
  PROVE  /\ cons[t] # "gone"
         /\ \A u \in Topics : u # t => cons'[u] = cons[u] /\ cur'[u] = cur[u]
         /\ cur'[t] # {} => cons'[t] = "handle"
         /\ drain' = drain
<1>1. CASE Receive(t)      BY <1>1 DEF Receive, BusTypeOK, EmptyHanded
<1>2. CASE CallHandler(t)  BY <1>2 DEF CallHandler, BusTypeOK, EmptyHanded
<1>3. CASE Handled(t)      BY <1>3 DEF Handled, BusTypeOK, EmptyHanded
<1>4. CASE SeeDrain(t)     BY <1>4 DEF SeeDrain, BusTypeOK, EmptyHanded
<1>5. CASE Discard(t)      BY <1>5 DEF Discard, BusTypeOK, EmptyHanded, consVars
<1>6. CASE Leave(t)        BY <1>6 DEF Leave, BusTypeOK, EmptyHanded
<1> QED BY <1>1, <1>2, <1>3, <1>4, <1>5, <1>6 DEF ConsumerStep

\* The strengthened invariant is inductive.
LEMMA QuietStep == QuietInv /\ [BusNext]_busVars => QuietInv'
<1> SUFFICES ASSUME QuietInv, [BusNext]_busVars PROVE EmptyHanded' /\ QuietAfterDrain'
  BY NextTyped DEF QuietInv
<1> USE DEF QuietInv
<1>1. ASSUME NEW t \in Topics, ConsumerStep(t) PROVE EmptyHanded' /\ QuietAfterDrain'
  <2>1. /\ cons[t] # "gone" /\ drain' = drain
        /\ \A u \in Topics : u # t => cons'[u] = cons[u] /\ cur'[u] = cur[u]
        /\ cur'[t] # {} => cons'[t] = "handle"
    BY <1>1, GoneStays
  <2>2. EmptyHanded'
    BY <2>1 DEF EmptyHanded
  <2>3. \A d \in Drainers : drain[d] # "done"
    BY <2>1 DEF QuietAfterDrain
  <2> QED BY <2>1, <2>2, <2>3 DEF QuietAfterDrain
<1>2. ASSUME NEW p \in Publishers, Offer(p) \/ \E e \in Events : FindOpen(p, e)
      PROVE  EmptyHanded' /\ QuietAfterDrain'
  BY <1>2 DEF Offer, FindOpen, consVars, EmptyHanded, QuietAfterDrain
<1>3. ASSUME NEW t \in Topics, NEW h \in Handlers, Subscribe(t, h)
      PROVE  EmptyHanded' /\ QuietAfterDrain'
  BY <1>3 DEF Subscribe, consVars, EmptyHanded, QuietAfterDrain
<1>4. ASSUME NEW d \in Drainers, CallDrain(d) \/ DrainReturns(d) \/ DrainExpires(d)
      PROVE  EmptyHanded' /\ QuietAfterDrain'
  <2>1. UNCHANGED <<cons, cur>>
    BY <1>4 DEF CallDrain, DrainReturns, DrainExpires, consVars
  <2>2. EmptyHanded'
    BY <2>1 DEF EmptyHanded
  <2>3. CASE CallDrain(d)
    BY <2>1, <2>2, <2>3 DEF CallDrain, BusTypeOK, QuietAfterDrain
  <2>4. CASE DrainReturns(d)
    BY <2>1, <2>2, <2>4 DEF DrainReturns, BusTypeOK, EmptyHanded, QuietAfterDrain
  <2>5. CASE DrainExpires(d)
    BY <2>1, <2>2, <2>5 DEF DrainExpires, BusTypeOK, QuietAfterDrain
  <2> QED BY <1>4, <2>2, <2>3, <2>4, <2>5
<1>5. CASE UNCHANGED busVars
  BY <1>5 DEF busVars, EmptyHanded, QuietAfterDrain
<1> QED BY <1>1, <1>2, <1>3, <1>4, <1>5 DEF BusNext

\* Once a Drain has returned nil, no consumer runs and no handler is called,
\* for any number of topics, publishers and calls of Drain (bus.go:183-199).
THEOREM DrainedBusIsQuiet == BusSpec => []QuietAfterDrain
<1>1. BusInit => QuietInv
  BY InitTyped DEF BusInit, QuietInv, EmptyHanded, QuietAfterDrain
<1>2. QuietInv /\ [BusNext]_busVars => QuietInv'
  BY QuietStep
<1>3. QuietInv => QuietAfterDrain
  BY DEF QuietInv
<1> QED BY <1>1, <1>2, <1>3, PTL DEF BusSpec

-----------------------------------------------------------------------------
(* WebSocketHub.                                                           *)

\* While the hub is open nothing is being closed by Shutdown; once it is closed
\* it knows nobody, and Shutdown that has ended has closed them all.
ClosedIsEmpty ==
  /\ ~hubClosed => closing = {} /\ shutdown = "idle"
  /\ hubClosed => members = {}
  /\ shutdown = "done" => closing = {}

\* Whoever reads is known to the hub, is about to be closed by Shutdown, or has
\* been closed.
ReaderIsKnown ==
  \A s \in Sockets : handler[s] = "reading" => s \in members \cup closing \cup closed

HubInv == HubTypeOK /\ ClosedIsEmpty /\ ReaderIsKnown

LEMMA InitHubInv == HubInit => HubInv
<1> SUFFICES ASSUME HubInit PROVE HubInv
  OBVIOUS
<1>1. queue \in [Sockets -> 0 .. SubscriberBuffer]
  <2>1. 0 \in 0 .. SubscriberBuffer
    BY HubAssumption
  <2> QED BY <2>1 DEF HubInit
<1>2. HubTypeOK
  BY <1>1 DEF HubInit, HubTypeOK
<1>3. ClosedIsEmpty /\ ReaderIsKnown
  BY DEF HubInit, ClosedIsEmpty, ReaderIsKnown
<1> QED BY <1>2, <1>3 DEF HubInv

\* The upgrade adds a connection nobody reads from yet.
LEMMA UpgradeKeeps ==
  ASSUME HubInv, NEW s \in Sockets, Upgrade(s)
  PROVE  HubInv'
BY DEF Upgrade, HubInv, HubTypeOK, ClosedIsEmpty, ReaderIsKnown

\* The two looks of Subscribe: a reader starts as a member of an open hub.
LEMMA SubscribeKeeps ==
  ASSUME HubInv, NEW s \in Sockets, FirstLook(s) \/ SubscribeUnderLock(s)
  PROVE  HubInv'
<1>1. CASE FirstLook(s)
  BY <1>1 DEF FirstLook, RefuseSubscriber, HubInv, HubTypeOK, ClosedIsEmpty, ReaderIsKnown
<1>2. CASE SubscribeUnderLock(s)
  <2>1. CASE hubClosed /\ RefuseSubscriber(s)
    BY <1>2, <2>1 DEF SubscribeUnderLock, RefuseSubscriber, HubInv, HubTypeOK,
                      ClosedIsEmpty, ReaderIsKnown
  <2>2. CASE /\ ~hubClosed
             /\ members' = members \cup {s}
             /\ handler' = [handler EXCEPT ![s] = "reading"]
             /\ writer' = [writer EXCEPT ![s] = "running"]
             /\ UNCHANGED open
    BY <1>2, <2>2 DEF SubscribeUnderLock, HubInv, HubTypeOK, ClosedIsEmpty, ReaderIsKnown
  <2> QED BY <1>2, <2>1, <2>2 DEF SubscribeUnderLock
<1> QED BY <1>1, <1>2

\* The end of a connection: the reader leaves after it has closed, and only who
\* has left is forgotten.
LEMMA LeavingKeeps ==
  ASSUME HubInv, NEW s \in Sockets,
         PeerLeaves(s) \/ ReadPumpEnds(s) \/ Unsubscribe(s) \/ WritePumpEnds(s)
  PROVE  HubInv'
<1>1. CASE PeerLeaves(s)
  BY <1>1 DEF PeerLeaves, connVars, HubInv, HubTypeOK, ClosedIsEmpty, ReaderIsKnown
<1>2. CASE ReadPumpEnds(s)
  BY <1>2 DEF ReadPumpEnds, CloseSubscriber, HubInv, HubTypeOK, ClosedIsEmpty, ReaderIsKnown
<1>3. CASE Unsubscribe(s)
  BY <1>3 DEF Unsubscribe, HubInv, HubTypeOK, ClosedIsEmpty, ReaderIsKnown
<1>4. CASE WritePumpEnds(s)
  BY <1>4 DEF WritePumpEnds, CloseSubscriber, connVars, HubInv, HubTypeOK, ClosedIsEmpty,
              ReaderIsKnown
<1> QED BY <1>1, <1>2, <1>3, <1>4

\* Messages only fill and empty the buffers.
LEMMA MessagesKeep ==
  ASSUME HubInv, NEW s \in Sockets, WriteMessage(s) \/ BroadcastTo(s)
  PROVE  HubInv'
<1>1. queue[s] \in 0 .. SubscriberBuffer /\ SubscriberBuffer \in Nat \ {0}
  BY HubAssumption DEF HubInv, HubTypeOK
<1>2. CASE WriteMessage(s)
  <2>1. queue[s] - 1 \in 0 .. SubscriberBuffer
    BY <1>1, <1>2 DEF WriteMessage
  <2> QED BY <1>2, <2>1 DEF WriteMessage, connVars, HubInv, HubTypeOK, ClosedIsEmpty,
                            ReaderIsKnown
<1>3. CASE BroadcastTo(s)
  <2>1. queue' \in [Sockets -> 0 .. SubscriberBuffer] /\ copy' \subseteq Sockets
    <3>1. CASE queue[s] < SubscriberBuffer
      <4>1. queue[s] + 1 \in 0 .. SubscriberBuffer
        BY <1>1, <3>1
      <4> QED BY <1>3, <4>1 DEF BroadcastTo, HubInv, HubTypeOK
    <3>2. CASE ~(queue[s] < SubscriberBuffer)
      BY <1>3, <3>2 DEF BroadcastTo, HubInv, HubTypeOK
    <3> QED BY <3>1, <3>2
  <2> QED BY <1>3, <2>1 DEF BroadcastTo, connVars, HubInv, HubTypeOK, ClosedIsEmpty,
                            ReaderIsKnown
<1> QED BY <1>2, <1>3

\* Shutdown takes everyone the hub knows and closes them one by one.
LEMMA ShutdownKeeps ==
  ASSUME HubInv, \/ BeginShutdown \/ HubShutdownReturns
                 \/ \E s \in Sockets : ShutdownCloses(s)
  PROVE  HubInv'
<1>1. CASE BeginShutdown
  BY <1>1 DEF BeginShutdown, HubInv, HubTypeOK, ClosedIsEmpty, ReaderIsKnown
<1>2. CASE HubShutdownReturns
  BY <1>2 DEF HubShutdownReturns, connVars, HubInv, HubTypeOK, ClosedIsEmpty, ReaderIsKnown
<1>3. ASSUME NEW s \in Sockets, ShutdownCloses(s) PROVE HubInv'
  BY <1>3 DEF ShutdownCloses, CloseSubscriber, connVars, HubInv, HubTypeOK, ClosedIsEmpty,
              ReaderIsKnown
<1> QED BY <1>1, <1>2, <1>3

\* The inductive step.
LEMMA NextHubInv == HubInv /\ [HubNext]_hubVars => HubInv'
<1> SUFFICES ASSUME HubInv, [HubNext]_hubVars PROVE HubInv'
  OBVIOUS
<1>1. ASSUME NEW s \in Sockets,
             \/ Upgrade(s) \/ ReaderStep(s) \/ PeerLeaves(s) \/ WriteMessage(s)
             \/ WritePumpEnds(s) \/ BroadcastTo(s) \/ ShutdownCloses(s)
      PROVE  HubInv'
  BY <1>1, UpgradeKeeps, SubscribeKeeps, LeavingKeeps, MessagesKeep, ShutdownKeeps
     DEF ReaderStep
<1>2. ASSUME NEW t \in WsTenants, Broadcast(t) PROVE HubInv'
  BY <1>2 DEF Broadcast, connVars, HubInv, HubTypeOK, ClosedIsEmpty, ReaderIsKnown
<1>3. CASE UNCHANGED hubVars
  BY <1>3 DEF hubVars, HubInv, HubTypeOK, ClosedIsEmpty, ReaderIsKnown
<1> QED BY <1>1, <1>2, <1>3, ShutdownKeeps DEF HubNext

THEOREM HubInvariant == HubSpec => []HubInv
BY InitHubInv, NextHubInv, PTL DEF HubSpec

\* Every variable of the hub keeps its type, and no buffer holds more than its
\* size, whatever the order of broadcasts and writers.
THEOREM HubTypeCorrect == HubSpec => []HubTypeOK
<1>1. HubInv => HubTypeOK
  BY DEF HubInv
<1> QED BY <1>1, HubInvariant, PTL

\* Nobody is served once Shutdown has returned nil, and until then whoever is
\* served is about to be closed: the look of Subscribe under the lock
\* (hub.go:73) leaves no connection behind.
THEOREM NobodyIsLeftServed == HubSpec => []NobodyOutlivesShutdown
<1>1. HubInv => NobodyOutlivesShutdown
  BY DEF HubInv, ClosedIsEmpty, ReaderIsKnown, NobodyOutlivesShutdown, Served
<1> QED BY <1>1, HubInvariant, PTL
=============================================================================
