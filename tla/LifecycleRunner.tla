--------------------------- MODULE LifecycleRunner ---------------------------
(***************************************************************************)
(* pkg/lifecycle/runner.go and its use in cmd/server/wire.go: phases are   *)
(* started in order, stopped in reverse order, and goroutines launched by  *)
(* Run are waited for.  Boot runs in one goroutine; Shutdown is called by  *)
(* Boot when a phase fails and by whoever sees the signal.                 *)
(***************************************************************************)
EXTENDS Integers, FiniteSets

CONSTANTS
  N,           \* number of phases, in the order of AddPhase
  HasStart,    \* phases with a Start
  HasStop,     \* phases with a Stop
  Goroutines,  \* goroutines launched by Runner.Run once Boot is done
  EndedBy      \* the phase whose Stop ends a goroutine

Phases == 1 .. N

ASSUME RunnerAssumption ==
  /\ N \in Nat
  /\ HasStart \subseteq Phases /\ HasStop \subseteq Phases
  /\ EndedBy \in [Goroutines -> Phases]

Callers == {"boot", "signal"}  \* who may call Shutdown

VARIABLES
  boot,        \* progress of Boot
  bi,          \* phase Boot has reached
  marked,      \* startedSet
  attempted,   \* phases whose Start was invoked
  overlap,     \* history: Shutdown was called from outside while Boot was
               \* between its first phase and its end
  up,          \* phases that run
  begun,       \* shutdownStarted
  ended,       \* shutdown
  spc,         \* progress of each call of Shutdown
  si,          \* phase each call of Shutdown has reached
  stops,       \* how often the Stop of each phase was called
  routine,     \* state of each goroutine
  wait         \* progress of Wait

bootVars == <<boot, bi, marked, attempted, overlap>>
shutVars == <<begun, ended, spc, si, stops>>
vars     == <<boot, bi, marked, attempted, overlap, up, begun, ended, spc, si,
              stops, routine, wait>>

BootState == {"idle", "next", "start", "failed", "ok", "error", "refused"}
ShutState == {"idle", "scan", "stop", "returned"}

TypeOK ==
  /\ boot \in BootState
  /\ bi \in 1 .. N + 1
  /\ marked \subseteq HasStart /\ attempted \subseteq marked
  /\ overlap \in BOOLEAN
  /\ up \subseteq Phases
  /\ begun \in BOOLEAN /\ ended \in BOOLEAN
  /\ spc \in [Callers -> ShutState]
  /\ si \in [Callers -> 0 .. N]
  /\ stops \in [Phases -> Nat]
  /\ routine \in [Goroutines -> {"none", "running", "over"}]
  /\ wait \in {"idle", "waiting", "drained", "expired"}
  /\ boot = "start" => bi \in HasStart
  /\ \A c \in Callers : spc[c] = "stop" => si[c] \in HasStop \cap marked

\* wireServices has built the objects of the phases without a Start.
Init ==
  /\ boot = "idle" /\ bi = 1 /\ marked = {} /\ attempted = {}
  /\ overlap = FALSE
  /\ up = Phases \ HasStart
  /\ begun = FALSE /\ ended = FALSE
  /\ spc = [c \in Callers |-> "idle"]
  /\ si = [c \in Callers |-> 0]
  /\ stops = [i \in Phases |-> 0]
  /\ routine = [g \in Goroutines |-> "none"]
  /\ wait = "idle"

-----------------------------------------------------------------------------
(* Shutdown, as called by c. *)

\* The call returns at once when another one has begun, finished or not.
Call(c) ==
  /\ begun' = TRUE
  /\ spc' = [spc EXCEPT ![c] = IF begun THEN "returned" ELSE "scan"]
  /\ si' = [si EXCEPT ![c] = IF begun THEN @ ELSE N]

\* Whoever handles the signal may call Shutdown, whatever Boot is doing.
SignalShutdown ==
  /\ spc["signal"] = "idle"
  /\ Call("signal")
  /\ overlap' = (overlap \/ boot \in {"next", "start"})
  /\ UNCHANGED <<boot, bi, marked, attempted, up, ended, stops, routine, wait>>

\* A phase without a Stop, or that Boot has not marked.
Skip(c) ==
  /\ spc[c] = "scan" /\ si[c] > 0
  /\ si[c] \notin HasStop \cap marked
  /\ si' = [si EXCEPT ![c] = @ - 1]
  /\ UNCHANGED <<bootVars, up, begun, ended, spc, stops, routine, wait>>

\* Mutant: the phases are stopped in the order of Boot.
StopPhaseForward(c) ==
  /\ spc[c] = "scan" /\ si[c] > 0
  /\ si[c] \in HasStop \cap marked
  /\ stops' = [stops EXCEPT ![N + 1 - si[c]] = @ + 1]
  /\ spc' = [spc EXCEPT ![c] = "stop"]
  /\ UNCHANGED <<bootVars, up, begun, ended, si, routine, wait>>

\* The Stop of a phase is called.
StopPhase(c) ==
  /\ spc[c] = "scan" /\ si[c] > 0
  /\ si[c] \in HasStop \cap marked
  /\ stops' = [stops EXCEPT ![si[c]] = @ + 1]
  /\ spc' = [spc EXCEPT ![c] = "stop"]
  /\ UNCHANGED <<bootVars, up, begun, ended, si, routine, wait>>

\* Mutant: an error of a Stop ends the shutdown.
StopReturnsOrAborts(c) ==
  /\ spc[c] = "stop"
  /\ \/ up' = up \ {si[c]} /\ si' = [si EXCEPT ![c] = @ - 1]
     \/ UNCHANGED up /\ si' = [si EXCEPT ![c] = 0]
  /\ spc' = [spc EXCEPT ![c] = "scan"]
  /\ UNCHANGED <<bootVars, begun, ended, stops, routine, wait>>

\* It returns, panics or fails (the phase may then still run): on to the next.
StopReturns(c) ==
  /\ spc[c] = "stop"
  /\ up' \in {up, up \ {si[c]}}
  /\ si' = [si EXCEPT ![c] = @ - 1]
  /\ spc' = [spc EXCEPT ![c] = "scan"]
  /\ UNCHANGED <<bootVars, begun, ended, stops, routine, wait>>

ShutdownReturns(c) ==
  /\ spc[c] = "scan" /\ si[c] = 0
  /\ ended' = TRUE
  /\ spc' = [spc EXCEPT ![c] = "returned"]
  /\ UNCHANGED <<bootVars, up, begun, si, stops, routine, wait>>

ShutStep(c) == Skip(c) \/ StopPhase(c) \/ StopReturns(c) \/ ShutdownReturns(c)

-----------------------------------------------------------------------------
(* Boot. *)

\* Boot refuses to run after a Shutdown has begun.
CallBoot ==
  /\ boot = "idle"
  /\ boot' = IF begun \/ ended THEN "refused" ELSE "next"
  /\ UNCHANGED <<bi, marked, attempted, overlap, up, shutVars, routine, wait>>

SkipStart ==
  /\ boot = "next" /\ bi <= N /\ bi \notin HasStart
  /\ bi' = bi + 1
  /\ UNCHANGED <<boot, marked, attempted, overlap, up, shutVars, routine, wait>>

\* Mutant: the phase is marked only when its Start has succeeded.
StartPhaseUnmarked ==
  /\ boot = "next" /\ bi \in HasStart
  /\ boot' = "start"
  /\ attempted' = attempted \cup {bi}
  /\ UNCHANGED <<bi, marked, overlap, up, shutVars, routine, wait>>

\* The phase is marked before its Start is called.
StartPhase ==
  /\ boot = "next" /\ bi \in HasStart
  /\ boot' = "start"
  /\ marked' = marked \cup {bi}
  /\ attempted' = attempted \cup {bi}
  /\ UNCHANGED <<bi, overlap, up, shutVars, routine, wait>>

StartOK ==
  /\ boot = "start"
  /\ boot' = "next" /\ bi' = bi + 1
  /\ up' = up \cup {bi}
  /\ UNCHANGED <<marked, attempted, overlap, shutVars, routine, wait>>

\* Start returns an error, panics or times out, perhaps half started: Boot
\* calls Shutdown.
StartFails ==
  /\ boot = "start"
  /\ boot' = "failed"
  /\ up' \in {up, up \cup {bi}}
  /\ Call("boot")
  /\ UNCHANGED <<bi, marked, attempted, overlap, ended, stops, routine, wait>>

BootFails ==
  /\ boot = "failed" /\ spc["boot"] = "returned"
  /\ boot' = "error"
  /\ UNCHANGED <<bi, marked, attempted, overlap, up, shutVars, routine, wait>>

BootDone ==
  /\ boot = "next" /\ bi = N + 1
  /\ boot' = "ok"
  /\ UNCHANGED <<bi, marked, attempted, overlap, up, shutVars, routine, wait>>

BootStep == \/ SkipStart \/ StartPhase \/ StartOK \/ StartFails \/ BootFails
            \/ BootDone

-----------------------------------------------------------------------------
(* Run and Wait. *)

\* runWithGracefulShutdown launches its goroutines after Boot, before it
\* listens to the signal.
Launch(g) ==
  /\ boot = "ok" /\ routine[g] = "none" /\ spc["signal"] = "idle"
  /\ routine' = [routine EXCEPT ![g] = "running"]
  /\ UNCHANGED <<bootVars, up, shutVars, wait>>

\* The goroutine returns or panics of itself (recovered), or after its Stop.
GoroutineEnds(g) ==
  /\ routine[g] = "running"
  /\ routine' = [routine EXCEPT ![g] = "over"]
  /\ UNCHANGED <<bootVars, up, shutVars, wait>>

GoroutineObeys(g) == stops[EndedBy[g]] > 0 /\ GoroutineEnds(g)

CallWait ==
  /\ spc["signal"] = "returned" /\ wait = "idle"
  /\ wait' = "waiting"
  /\ UNCHANGED <<bootVars, up, shutVars, routine>>

WaitDrained ==
  /\ wait = "waiting" /\ \A g \in Goroutines : routine[g] # "running"
  /\ wait' = "drained"
  /\ UNCHANGED <<bootVars, up, shutVars, routine>>

WaitExpires ==
  /\ wait = "waiting"
  /\ wait' = "expired"
  /\ UNCHANGED <<bootVars, up, shutVars, routine>>

Next ==
  \/ CallBoot \/ BootStep
  \/ SignalShutdown \/ \E c \in Callers : ShutStep(c)
  \/ \E g \in Goroutines : Launch(g) \/ GoroutineEnds(g)
  \/ CallWait \/ WaitDrained \/ WaitExpires

Spec == Init /\ [][Next]_vars

\* Boot and Shutdown are not abandoned by their goroutine, a Start and a Stop
\* return (they get a context with a timeout), a goroutine obeys its Stop.
FairSpec ==
  /\ Spec /\ WF_vars(CallBoot) /\ WF_vars(BootStep)
  /\ \A c \in Callers : WF_vars(ShutStep(c))
  /\ \A g \in Goroutines : WF_vars(GoroutineObeys(g))

-----------------------------------------------------------------------------
(* Properties. *)

Settled ==
  /\ boot \in {"ok", "error"} /\ ended
  /\ \A c \in Callers : spc[c] \in {"idle", "returned"}

\* Once Boot and Shutdown are through, every phase whose Start was called, even
\* one that failed half way, had its Stop called (runner.go:167-171: marked
\* before Start, so that Shutdown stops it if Start fails or panics).  A
\* Shutdown called from outside in the middle of Boot may miss phases.
AttemptedIsStopped ==
  (Settled /\ ~overlap) => \A i \in attempted \cap HasStop : stops[i] > 0

\* Whoever calls Shutdown, and whenever, no Stop is called twice
\* (runner.go:219-228).
StopOnce == \A i \in Phases : stops[i] <= 1

\* A phase is stopped only when the Stop of every later phase that runs was
\* called: nobody loses a dependency under its feet (phase.go:8, LIFO).
LaterStoppedFirst ==
  ~overlap => \A i \in Phases : stops[i] > 0 =>
    \A j \in i + 1 .. N : j \in up \cap attempted \cap HasStop => stops[j] > 0

\* Shutdown gets every goroutine of Run to end (runner.go:312-313: Wait after
\* Shutdown drains everything).
GoroutinesDrain ==
  (spc["signal"] = "returned") ~> (\A g \in Goroutines : routine[g] # "running")

\* What Shutdown relies on between two steps: one call at work, which has seen
\* to the phases above si and to none below; and, unless a call overlapped with
\* Boot, a Boot that is out of the way and phases above si that were stopped.
Active(c) == spc[c] \in {"scan", "stop"}
Seen(c, j) == j > si[c] \/ (spc[c] = "stop" /\ j = si[c])

OneAtWork ==
  /\ \A c \in Callers : Active(c) => begun
  /\ \A c, d \in Callers : Active(c) /\ Active(d) => c = d
FreshBelow ==
  /\ ~begun => \A i \in Phases : stops[i] = 0
  /\ \A c \in Callers : Active(c) =>
       \A i \in Phases : ~Seen(c, i) => stops[i] = 0
SeenAbove ==
  /\ begun => boot \notin {"next", "start"}
  /\ begun => ended \/ \E c \in Callers : Active(c)
  /\ ended => begun /\ \A j \in HasStop \cap marked : stops[j] > 0
  /\ \A c \in Callers : Active(c) =>
       \A j \in HasStop \cap marked : Seen(c, j) => stops[j] > 0

\* A phase without a Start is there for its Stop alone, which Shutdown calls
\* (runner.go:23-24; wire.go:474-475: the phases only register a Stop).
StopOnlyIsStopped ==
  (Settled /\ boot = "ok" /\ ~overlap) => \A i \in HasStop : stops[i] > 0
=============================================================================
