---------------------------- MODULE DurableQueue ----------------------------
(***************************************************************************)
(* What the outbox promises, without relay, batches, attempts or crashes:  *)
(* an append-only table of entries.  An entry is queued, and is settled    *)
(* exactly once: as sent, which needs a delivery of its message, or as     *)
(* dead.  A message is delivered only when it was queued before.           *)
(***************************************************************************)
EXTENDS Naturals, Sequences

CONSTANT Messages

VARIABLES entries, deliveries

qvars == <<entries, deliveries>>

QInit == /\ entries = <<>>
         /\ deliveries = [m \in Messages |-> 0]

\* The entries of m that are still queued become settled as s.
Settled(m, s) ==
  [k \in DOMAIN entries |->
     IF entries[k].msg = m /\ entries[k].state = "queued"
     THEN [msg |-> m, state |-> s] ELSE entries[k]]

Accept(m) ==
  /\ entries' = Append(entries, [msg |-> m, state |-> "queued"])
  /\ UNCHANGED deliveries

Deliver(m) ==
  /\ \E k \in DOMAIN entries : entries[k].msg = m
  /\ deliveries' = [deliveries EXCEPT ![m] = @ + 1]
  /\ UNCHANGED entries

Confirm(m) ==
  /\ deliveries[m] > 0
  /\ entries' = Settled(m, "sent")
  /\ UNCHANGED deliveries

Bury(m) ==
  /\ entries' = Settled(m, "dead")
  /\ UNCHANGED deliveries

QNext == \E m \in Messages : Accept(m) \/ Deliver(m) \/ Confirm(m) \/ Bury(m)

QSpec == QInit /\ [][QNext]_qvars
=============================================================================
