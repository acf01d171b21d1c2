----------------------------- MODULE DurableInbox -----------------------------
(***************************************************************************)
(* What the inbound path promises a provider, without requests, bus,       *)
(* reconciler or crashes: an event is answered with 2xx only once it is    *)
(* stored, a stored event is never lost, and it is routed once.            *)
(***************************************************************************)
CONSTANT Events

VARIABLES state, acked

ivars == <<state, acked>>

IInit == state = [e \in Events |-> "absent"] /\ acked = {}

Store(e) ==
  /\ state[e] = "absent"
  /\ state' = [state EXCEPT ![e] = "received"]
  /\ UNCHANGED acked

Route(e) ==
  /\ state[e] = "received"
  /\ state' = [state EXCEPT ![e] = "routed"]
  /\ UNCHANGED acked

Ack(e) ==
  /\ state[e] # "absent"
  /\ acked' = acked \cup {e}
  /\ UNCHANGED state

INext == \E e \in Events : Store(e) \/ Route(e) \/ Ack(e)

ISpec == IInit /\ [][INext]_ivars
=============================================================================
