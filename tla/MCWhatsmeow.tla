----------------------------- MODULE MCWhatsmeow -----------------------------
(***************************************************************************)
(* Instances of WhatsmeowManager and WhatsmeowPacing.  Clients, warm-up    *)
(* and throttle share no variable but the clock of the last two: a         *)
(* behaviour moves one of them only, so that their states add up.          *)
(***************************************************************************)
EXTENDS WhatsmeowManager, WhatsmeowPacing, TLC

\* The factory that SetClientFactory installs for a send, and the stub that
\* CurrentQR passes.  The wiring passes the stub for a send as well
\* (boot.go:137-139), so that the installed factory is never used there: stubs
\* alone would show less of the manager, which handles both.
RealSends == [send |-> "real", qr |-> "stub"]

\* A ramp of two days: nothing on the first, one message on the second.
ShortRamp == <<0, 1>>

\* Goroutines and tenants are only compared; no liveness is checked with this.
Same == Permutations(Callers) \cup Permutations(Tenants) \cup Permutations(Senders)

VARIABLE moves  \* the component that moves

AllInit == Init /\ PacingInit /\ moves \in {"clients", "warmup", "throttle"}

AllNext ==
  \/ /\ moves = "clients" /\ Next
     /\ UNCHANGED <<clock, warmupVars, throttle, moves>>
  \/ moves = "warmup" /\ WarmupNext /\ UNCHANGED <<vars, throttle, moves>>
  \/ moves = "throttle" /\ ThrottleNext /\ UNCHANGED <<vars, warmupVars, moves>>

AllSpec == AllInit /\ [][AllNext]_<<vars, clock, warmupVars, throttle, moves>>
=============================================================================
