----------------------------- MODULE Scheduler ------------------------------
(***************************************************************************)
(* The main loop: protocol callbacks at the times they ask for, and        *)
(* Update_All in between.                                                  *)
(*                                                                         *)
(* Timer 1 runs freely and wraps; compare A sets the flag OCF1A when the   *)
(* timer meets OCR1A, and the loop polls that flag.  Only the distance     *)
(* from the timer to OCR1A matters, so that is the state kept.  Time is    *)
(* what Update_All and the callbacks take; the steps of the loop itself    *)
(* take none, and waiting takes until the flag is set.                     *)
(***************************************************************************)
EXTENDS Integers, FiniteSetsExt

CONSTANTS
  PERIOD,        \* Ticks until the timer wraps: 65536.
  WAIT,          \* Ticks in one wait of the delay loop: 2000us.
  LEAVE,         \* Ticks that must be left to run Update_All: 200us.
  Protocols,     \* The protocols this firmware knows; any other is 0.
  Timings,       \* What a callback may take and ask for: <<takes, asks>>.
                 \* It asks in 16 bits of microseconds, two timer periods.
  UpdateTimes,   \* What Update_All may take.
  InitTimes      \* What a protocol's init may ask for.

ASSUME TimerAssumption ==
  /\ PERIOD \in Nat /\ WAIT \in Nat \ {0} /\ LEAVE \in Nat
  /\ 4 * WAIT < PERIOD - 1 /\ 2 * LEAVE < PERIOD
  /\ 0 \notin Protocols
  /\ Timings \subseteq Nat \X (0 .. 2 * PERIOD - 1) /\ UpdateTimes \subseteq Nat
  /\ UpdateTimes # {}
  /\ InitTimes \subseteq 0 .. PERIOD - 1

VARIABLES
  pc,
  ahead,             \* OCR1A - TCNT1, modulo the timer's period.
  OCF1A,             \* The compare A match flag.
  next_callback,     \* What is left to wait, in ticks.
  diff,              \* OCR1A - TCNT1 as it was read at the end of the wait.
  remote_callback,   \* The protocol whose callback is called, 0 for none.
  INPUT_SIGNAL,      \* 1 while stick positions arrive.
  due,               \* Time left until the callback was asked for; negative
                     \* when it is late.  Not below -PERIOD.
  fresh,             \* 1 from protocol_init to the first callback.
  overran            \* 1 once a callback has taken longer than it may.

timer == <<ahead, OCF1A>>
vars  == <<pc, timer, next_callback, diff, remote_callback, INPUT_SIGNAL, due,
           fresh, overran>>

-----------------------------------------------------------------------------
(***************************************************************************)
(* Time.                                                                   *)
(***************************************************************************)
\* The time to the next compare match, and minus the time since the last one.
UntilCompare == IF ahead = 0 THEN PERIOD ELSE ahead
SinceCompare == IF ahead = 0 THEN 0 ELSE ahead - PERIOD

\* The timer meets OCR1A within d ticks.  A match at the very tick OCR1A was
\* written in is gone: the loop clears the flag after it writes OCR1A.
Meets(d) == d >= UntilCompare

Pass(d) ==
  /\ ahead' = (ahead - d) % PERIOD
  /\ OCF1A' = IF Meets(d) THEN 1 ELSE OCF1A

Later(t, d) == Max({t - d, -PERIOD})

\* Poll the flag until it is set.
UntilMatch == IF OCF1A = 1 THEN 0 ELSE UntilCompare
WaitForMatch ==
  /\ Pass(UntilMatch)
  /\ due' = Later(due, UntilMatch)

-----------------------------------------------------------------------------
(***************************************************************************)
(* Update_All: frames are decoded, telemetry is sent, the failsafe timer   *)
(* is checked; and, when another protocol or binding is asked for, the     *)
(* modules are reset and protocol_init makes the first appointment.        *)
(***************************************************************************)
SignalSeen == INPUT_SIGNAL' \in {0, 1}

KeepProtocol ==
  /\ \E d \in UpdateTimes : Pass(d) /\ due' = Later(due, d)
  /\ UNCHANGED <<remote_callback, fresh>>

protocol_init ==
  /\ \/ remote_callback' \in Protocols /\ \E n \in InitTimes : ahead' = n
     \/ remote_callback' = 0 /\ ahead' = 0
  /\ OCF1A' = 0 /\ due' = ahead' /\ fresh' = 1

Update_All == SignalSeen /\ (KeepProtocol \/ protocol_init)

-----------------------------------------------------------------------------
(***************************************************************************)
(* loop.                                                                   *)
(***************************************************************************)
\* There is time for Update_All, or no protocol to run.
CallbackOnlyTwiceThat == remote_callback # 0 /\ diff <= 2 * LEAVE
CallbackOnly          == remote_callback # 0 /\ diff <= LEAVE
SkipUpdate ==
  /\ pc = "top" /\ CallbackOnly /\ pc' = "sync"
  /\ UNCHANGED <<timer, next_callback, diff, remote_callback, INPUT_SIGNAL,
                 due, fresh, overran>>
UpdateThen(there) ==
  /\ pc \in {"top", "idle"} /\ (pc = "top" => ~CallbackOnly)
  /\ Update_All
  /\ pc' = there
  /\ UNCHANGED <<next_callback, diff, overran>>
UpdateOnce == UpdateThen("sync")
Update     == UpdateThen(IF remote_callback' = 0 THEN "idle" ELSE "sync")

\* The appointment is missed: now is the new sync point.
SyncLate ==
  /\ pc = "sync" /\ OCF1A = 1
  /\ ahead' = 0 /\ pc' = "callback"
  /\ UNCHANGED <<OCF1A, next_callback, diff, remote_callback, INPUT_SIGNAL,
                 due, fresh, overran>>
SyncInTime ==
  /\ pc = "sync" /\ OCF1A = 0
  /\ WaitForMatch /\ pc' = "callback"
  /\ UNCHANGED <<next_callback, diff, remote_callback, INPUT_SIGNAL, fresh,
                 overran>>

\* The next appointment is counted from compare A: from now, or, after an
\* overrun, from the appointment that is already past.
Half == PERIOD \div 2
From == IF ahead >= Half THEN ahead - PERIOD ELSE ahead
\* What a callback may take: less than it asks for, and less than one wait
\* when it asks for a wait.
Fits(takes, asks) == takes < asks /\ (asks > 2 * WAIT => takes < WAIT)
RunCallback ==
  /\ pc = "callback" /\ INPUT_SIGNAL = 1
  /\ \E t \in Timings :
       /\ Pass(t[1]) /\ next_callback' = t[2]
       /\ due' = Later(From + t[2], t[1])
       /\ overran' = IF Fits(t[1], t[2]) THEN overran ELSE 1
  /\ pc' = "delay" /\ fresh' = 0
  /\ UNCHANGED <<diff, remote_callback, INPUT_SIGNAL>>

\* No signal: nothing is transmitted, look again in 2ms.
NoSignal ==
  /\ pc = "callback" /\ INPUT_SIGNAL = 0
  /\ next_callback' = WAIT /\ due' = From + WAIT
  /\ pc' = "delay" /\ fresh' = 0
  /\ UNCHANGED <<timer, diff, remote_callback, INPUT_SIGNAL, overran>>

\* More than 4ms to wait: 2ms of it here, beginning with Update_All.
SetWaitFor(d, left) ==
  /\ pc = "delay" /\ next_callback > 2 * WAIT
  /\ next_callback' = left
  /\ ahead' = d % PERIOD /\ OCF1A' = 0
  /\ pc' = "wait_update"
  /\ UNCHANGED <<diff, remote_callback, INPUT_SIGNAL, due, fresh, overran>>
SetWaitFromNow == SetWaitFor(WAIT, next_callback - WAIT)
SetWait        == SetWaitFor(ahead + WAIT, next_callback - WAIT)
UpdateInWait ==
  /\ pc = "wait_update"
  /\ Update_All
  /\ pc' = "wait"
  /\ UNCHANGED <<next_callback, diff, overran>>
Wait2ms ==
  /\ pc = "wait"
  /\ WaitForMatch /\ pc' = "delay"
  /\ UNCHANGED <<next_callback, diff, remote_callback, INPUT_SIGNAL, fresh,
                 overran>>

\* The appointment with the callback; if it is past, keep it at once.
SetCallbackFlag(flag, compare) ==
  /\ pc = "delay" /\ next_callback <= 2 * WAIT
  /\ ahead' = compare /\ OCF1A' = flag
  /\ diff' = ahead'
  /\ pc' = IF diff' >= Half THEN "callback" ELSE "top"
  /\ UNCHANGED <<next_callback, remote_callback, INPUT_SIGNAL, due, fresh, overran>>
Appointment == ahead + next_callback
SetCallbackKeepsFlag == SetCallbackFlag(OCF1A, Appointment % PERIOD)
SetCallbackNoWrap    == SetCallbackFlag(0, Appointment)
SetCallback          == SetCallbackFlag(0, Appointment % PERIOD)

-----------------------------------------------------------------------------
\* In serial mode nothing is selected until the first frame; in PPM mode
\* setup has called protocol_init.
Init ==
  /\ pc = "top" /\ diff = PERIOD - 1 /\ next_callback = 0
  /\ \/ remote_callback = 0 /\ ahead = 0 /\ fresh = 0
     \/ remote_callback \in Protocols /\ ahead \in InitTimes /\ fresh = 1
  /\ OCF1A = 0 /\ INPUT_SIGNAL = 0 /\ due = ahead /\ overran = 0

Next == \/ SkipUpdate \/ Update \/ SyncLate \/ SyncInTime \/ RunCallback
        \/ NoSignal \/ SetWait \/ UpdateInWait \/ Wait2ms \/ SetCallback

Spec     == Init /\ [][Next]_vars
\* The CPU runs: the loop never stops.
FairSpec == Spec /\ WF_vars(Next)

-----------------------------------------------------------------------------
\* Type correctness; in particular the distance to OCR1A stays within the 16
\* bits of the timer.
TypeOK ==
  /\ pc \in {"top", "idle", "sync", "callback", "delay", "wait_update",
             "wait"}
  /\ ahead \in 0 .. PERIOD - 1 /\ OCF1A \in {0, 1}
  /\ next_callback \in 0 .. 2 * PERIOD - 1 /\ diff \in 0 .. PERIOD - 1
  /\ remote_callback \in Protocols \cup {0} /\ INPUT_SIGNAL \in {0, 1}
  /\ due \in Int /\ due >= -PERIOD /\ {fresh, overran} \subseteq {0, 1}

\* The loop never calls through remote_callback while no protocol is
\* selected, although Update_All may deselect it in the middle of a wait.
CallsAProtocol == pc = "callback" => remote_callback # 0

\* A callback never runs before the time it asked for (frames would be sent
\* before the receiver listens), however late earlier ones were.
NeverEarly == pc = "callback" => due <= 0

(***************************************************************************)
(* Why NeverEarly and CallsAProtocol hold, whatever callbacks take.        *)
(***************************************************************************)
\* Every step of the loop leaves enough of the time the callback asked for:
\* before compare A, in next_callback, or in both.
TimeIsLeft ==
  /\ pc \in {"top", "idle", "sync"} => due <= UntilMatch
  /\ pc = "callback" => due <= 0 /\ (ahead = 0 \/ ahead >= Half)
  /\ pc = "delay" => due <= SinceCompare + next_callback
  /\ pc \in {"wait_update", "wait"} =>
       due <= next_callback + IF OCF1A = 1 THEN SinceCompare ELSE UntilCompare

\* Where no protocol is left in the middle of a wait, the wait ends exactly at
\* compare A, so that the next appointment cannot read as missed.
NoneLeftInWait ==
  /\ pc \in {"sync", "callback"} => remote_callback # 0
  /\ remote_callback = 0 =>
       /\ pc = "delay" => ahead = 0
       /\ pc = "wait_update" => ahead = WAIT /\ OCF1A = 0
       /\ pc = "wait" => OCF1A = 0 \/ ahead = 0

\* A callback that is not the first of its protocol is late by no more than
\* what one run of Update_All takes beyond the time that was left for it, also
\* after a long wait with many of them: lateness does not add up.  (While no
\* callback has taken longer than it may.)
Allowed == Max({0, Max(UpdateTimes) - (LEAVE + 1)})
OnTime ==
  pc = "callback" /\ fresh = 0 /\ overran = 0 => due >= -Allowed

(***************************************************************************)
(* Why OnTime holds, when Update_All takes no longer than one wait.        *)
(***************************************************************************)
\* Compare A is never further in the past than the delay loop can make up
\* for: the wait it sets next, and the appointment, are still to come.
StillToCome == overran = 0 =>
  /\ pc = "callback" => ahead = 0
  /\ pc = "delay" => /\ SinceCompare + next_callback > 0
                     /\ next_callback > 2 * WAIT => SinceCompare > -WAIT
  /\ pc = "wait_update" => OCF1A = 0 /\ ahead \in 1 .. WAIT
  /\ pc = "wait" /\ OCF1A = 1 => SinceCompare > -WAIT
  /\ pc \in {"wait_update", "wait"} => next_callback > WAIT
  /\ pc = "idle" => remote_callback = 0

\* Until its appointment is set a callback has exactly the time left that the
\* loop has still to wait; then only the last Update_All can make it late.
TimeIsExact == overran = 0 /\ fresh = 0 =>
  /\ pc = "delay" => due = SinceCompare + next_callback
  /\ pc \in {"wait_update", "wait"} =>
       due = next_callback + IF OCF1A = 1 THEN SinceCompare ELSE UntilCompare
  /\ pc = "top" /\ remote_callback # 0
       => OCF1A = 0 /\ due = ahead /\ diff = ahead /\ ahead > 0
  /\ pc = "sync" /\ OCF1A = 0 => due = ahead /\ ahead > 0
  /\ pc = "sync" /\ OCF1A = 1 => due >= -Allowed
  /\ pc = "callback" => due >= -Allowed

\* The inductive invariant of the safety properties.
SchedulerInvariant ==
  /\ TypeOK /\ TimeIsLeft /\ NoneLeftInWait
  /\ StillToCome /\ TimeIsExact

\* A callback that leaves more than LEAVE of the time it asked for is followed by
\* Update_All, however late it came: stick positions are refreshed and the
\* failsafe timer is checked.  (Callbacks that fit but leave less, every time,
\* do starve Update_All: the loop is then a loop of SkipUpdate and callbacks.)
UpdateRuns ==
  pc = "delay" /\ due > LEAVE ~> pc = "wait_update" \/ (pc = "top" /\ ~CallbackOnly)

\* A selected protocol is called, unless it is deselected.
CallbackHappens == remote_callback # 0 ~> pc = "callback" \/ remote_callback = 0
LoopServesBoth == UpdateRuns /\ CallbackHappens
=============================================================================
