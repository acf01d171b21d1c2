--------------------------- MODULE WhatsmeowPacing ---------------------------
(***************************************************************************)
(* adapter/provider/whatsmeow/reconnect.go: the Warmup of one account, a   *)
(* quota per day that grows over ten days, and the ReconnectThrottle.      *)
(* AllowSend, the send and RecordSent are separate steps of a sender, and  *)
(* the row is saved from a snapshot after the lock is released.  A crash   *)
(* forgets the memory; the next process loads the row and starts the ramp  *)
(* of the quota again.  Warmup and throttle only have the clock in common. *)
(***************************************************************************)
EXTENDS Integers, Sequences, FiniteSets

CONSTANTS
  Senders,        \* goroutines that send from the account
  Ramp, Steady,   \* warmupQuota, which starts with 0 and only grows, and warmupSteady
  DayLength,      \* ticks of a day
  LockTicks,      \* ticks of a timelock, 24h
  MinInterval, MaxBackoff,
  MaxHealth,      \* health of an account without penalties
  MaxClock        \* bound: ticks of the clock

ASSUME PacingAssumption ==
  /\ IsFiniteSet(Senders) /\ Senders # {}
  /\ Ramp \in Seq(Nat) /\ Steady \in Nat /\ Ramp # <<>> /\ Ramp[1] = 0
  /\ \A i, j \in 1 .. Len(Ramp) : i <= j => Ramp[i] <= Ramp[j] /\ Ramp[j] <= Steady
  /\ DayLength \in Nat \ {0} /\ LockTicks \in Nat
  /\ MinInterval \in Nat \ {0} /\ MaxBackoff \in Nat /\ MaxBackoff >= MinInterval
  /\ MaxClock \in Nat /\ MaxHealth \in Nat \ {0}

VARIABLES
  clock,
  start,      \* when the process created the Warmup
  mem,        \* daySent, dayAnchor, timelock and health of the Warmup
  row,        \* the same in whatsapp_account_state
  send,       \* what each sender is at
  today,      \* history: messages sent on the current day
  throttle    \* backoff and last of the ReconnectThrottle; last < 0 if zero

warmupVars == <<start, mem, row, send, today>>

DayOf(t) == t \div DayLength
Fresh    == [sent |-> 0, anchor |-> DayOf(clock), until |-> 0, health |-> MaxHealth]

PacingTypeOK ==
  LET Account == [sent : Nat, anchor : Nat, until : Nat, health : 0 .. MaxHealth] IN
  /\ clock \in 0 .. MaxClock /\ start \in 0 .. MaxClock
  /\ mem \in Account /\ row \in Account
  /\ today \in Nat
  /\ throttle \in [backoff : 0 .. MaxBackoff, last : Nat \cup {-1}]

Resting == [at |-> "nothing"]

PacingInit ==
  /\ clock = 0 /\ start = 0
  /\ mem = Fresh /\ row = Fresh
  /\ send = [s \in Senders |-> Resting]
  /\ today = 0
  /\ throttle = [backoff |-> 0, last |-> -1]

-----------------------------------------------------------------------------
(* Warmup.                                                                 *)

\* rollDay.
Rolled == IF mem.anchor = DayOf(clock) THEN mem
          ELSE [mem EXCEPT !.anchor = DayOf(clock), !.sent = 0]

\* quota: the day of the ramp is counted from the start of the process.
QuotaNow ==
  LET d == DayOf(clock - start) IN IF d < Len(Ramp) THEN Ramp[d + 1] ELSE Steady

\* AllowSend rolls the day without saving it.  A contact that is not known
\* has to wait for the end of the timelock.
AllowSend(s, unknown) ==
  /\ send[s].at = "nothing"
  /\ ~(unknown /\ clock < mem.until)
  /\ mem' = Rolled
  /\ Rolled.sent < QuotaNow
  /\ send' = [send EXCEPT ![s].at = "send"]
  /\ UNCHANGED <<clock, start, row, today>>

\* The send itself; one that fails is not recorded.
SendOut(s) ==
  /\ send[s].at = "send"
  /\ \/ today' = today + 1 /\ send' = [send EXCEPT ![s].at = "record"]
     \/ today' = today /\ send' = [send EXCEPT ![s] = Resting]
  /\ UNCHANGED <<clock, start, mem, row>>

\* A change of the Warmup, and the snapshot that is saved when the lock is free.
Changes(s, m) ==
  /\ mem' = m
  /\ send' = [send EXCEPT ![s] =
                [at |-> "save", snapshot |-> m]]
  /\ UNCHANGED <<clock, start, row, today>>

\* Mutant: the day is not rolled before the send is counted.
SentUnrolled == [mem EXCEPT !.sent = @ + 1]

SentOne == [Rolled EXCEPT !.sent = @ + 1]

RecordSent(s) == send[s].at = "record" /\ Changes(s, SentOne)

\* TriggerTimelock never shortens a timelock.
TimeLocked ==
  LET until == clock + LockTicks IN
  [mem EXCEPT !.until = IF until > @ THEN until ELSE @]

TriggerTimelock(s) == send[s].at = "nothing" /\ Changes(s, TimeLocked)

\* Penalize.
Penalize(s) ==
  /\ send[s].at = "nothing" /\ mem.health > 0
  /\ Changes(s, [mem EXCEPT !.health = @ - 1])

\* The whole snapshot is written, over a newer one if that was faster.
SaveWarmupState(s) ==
  /\ send[s].at = "save"
  /\ row' = send[s].snapshot
  /\ send' = [send EXCEPT ![s] = Resting]
  /\ UNCHANGED <<clock, start, mem, today>>

\* Its error is ignored.
SaveFails(s) ==
  /\ send[s].at = "save"
  /\ send' = [send EXCEPT ![s] = Resting]
  /\ UNCHANGED <<clock, start, mem, row, today>>

\* The process dies; the next one calls NewWarmup and Load.
Restart ==
  /\ start' = clock
  /\ mem' = [row EXCEPT !.health = IF @ > 0 THEN @ ELSE MaxHealth]
  /\ send' = [s \in Senders |-> Resting]
  /\ UNCHANGED <<clock, row, today>>

WarmupTick ==
  /\ clock < MaxClock
  /\ clock' = clock + 1
  /\ today' = IF DayOf(clock') = DayOf(clock) THEN today ELSE 0
  /\ UNCHANGED <<start, mem, row, send>>

WarmupNext ==
  \/ \E s \in Senders :
       \/ \E unknown \in BOOLEAN : AllowSend(s, unknown)
       \/ SendOut(s) \/ RecordSent(s) \/ TriggerTimelock(s) \/ Penalize(s)
       \/ SaveWarmupState(s) \/ SaveFails(s)
  \/ WarmupTick \/ Restart

-----------------------------------------------------------------------------
(* ReconnectThrottle.                                                      *)

Larger(a, b)  == IF a >= b THEN a ELSE b
Smaller(a, b) == IF a <= b THEN a ELSE b

\* 429 and 515 double the backoff; any other reason clears it.
Backoff(refused) ==
  IF ~refused THEN 0
  ELSE IF throttle.backoff = 0 THEN MinInterval
       ELSE Smaller(2 * throttle.backoff, MaxBackoff)

\* Mutant: the wait is counted from now on, whenever the last one ends.
WaitFromNow(base) == IF throttle.last < 0 \/ clock < throttle.last THEN base ELSE 0

\* last is the end of the wait before this one and may be still to come.
Wait(base) ==
  IF throttle.last < 0 THEN base ELSE Larger(0, base - (clock - throttle.last))

NextReconnect(refused) ==
  LET backoff == Backoff(refused) IN
  /\ throttle.last <= MaxClock
  /\ throttle' = [backoff |-> backoff,
                  last |-> clock + Wait(Larger(MinInterval, backoff))]
  /\ UNCHANGED clock

ResetThrottle ==
  /\ throttle.backoff # 0
  /\ throttle' = [throttle EXCEPT !.backoff = 0]
  /\ UNCHANGED clock

Restarted ==
  /\ throttle' = [backoff |-> 0, last |-> -1]
  /\ UNCHANGED clock

ThrottleTick ==
  /\ clock < MaxClock
  /\ clock' = clock + 1
  /\ UNCHANGED throttle

ThrottleNext ==
  \/ \E refused \in BOOLEAN : NextReconnect(refused)
  \/ ResetThrottle \/ Restarted \/ ThrottleTick

-----------------------------------------------------------------------------
(* Warmup and throttle of one account, side by side: a tick of the one is  *)
(* a tick of the other.                                                    *)

PacingVars == <<clock, warmupVars, throttle>>

PacingNext ==
  \/ WarmupNext /\ UNCHANGED throttle
  \/ ThrottleNext /\ UNCHANGED <<clock, warmupVars>>

PacingSpec == PacingInit /\ [][PacingNext]_PacingVars

-----------------------------------------------------------------------------
(* Properties.                                                             *)

\* Of all the messages a day sees, every sender but one may be beyond the
\* quota: they all pass AllowSend before the first is recorded.  That a crash
\* loses counts adds nothing, because it sends the ramp back to its first day.
QuotaHolds ==
  [][today' > today =>
       today' <= Larger(QuotaNow, 1) + Cardinality(Senders) - 1]_<<clock, warmupVars>>

\* The instants at which Next allows a reconnection are at least MinInterval
\* apart, also when they are asked for while an earlier one is still to come.
ReconnectsAreSpaced ==
  [][throttle.last >= 0 /\ throttle'.last >= 0 /\ throttle'.last # throttle.last
       => throttle'.last >= throttle.last + MinInterval]_throttle
=============================================================================
