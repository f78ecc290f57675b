--------------------------- MODULE Scheduler_proofs -------------------------
(***************************************************************************)
(* The main loop never calls a protocol early, whatever the callbacks and  *)
(* Update_All take and however often the timer wraps meanwhile; and it     *)
(* never calls through a null pointer and is never later than one run of   *)
(* Update_All can make it, provided that Update_All takes no longer than   *)
(* one wait and, for the latter, that no callback has overrun.             *)
(***************************************************************************)
EXTENDS Scheduler, WellFoundedInduction, TLAPS

UpdatesFit == \A d \in UpdateTimes : d <= WAIT

-----------------------------------------------------------------------------
(***************************************************************************)
(* Remainders and the larger of two numbers.                               *)
(***************************************************************************)
LEMMA Remainder ==
  ASSUME NEW p \in Nat \ {0}, NEW x \in Int
  PROVE  x % p \in 0 .. p - 1
OBVIOUS

LEMMA SmallRemainder ==
  ASSUME NEW p \in Nat \ {0}, NEW x \in 0 .. p - 1
  PROVE  x % p = x
OBVIOUS

LEMMA BackRemainder ==
  ASSUME NEW p \in Nat \ {0}, NEW x \in Int, -p <= x, x < 0
  PROVE  x % p = x + p
OBVIOUS

LEMMA NextRemainder ==
  ASSUME NEW p \in Nat \ {0}, NEW x \in Int, p <= x, x < 2 * p
  PROVE  x % p = x - p
OBVIOUS

LEMMA Division ==
  ASSUME NEW p \in Nat \ {0}, NEW x \in Int
  PROVE  x \div p \in Int /\ x = (p * (x \div p)) + (x % p)
OBVIOUS

LEMMA NegativeMultiple ==
  ASSUME NEW p \in Nat \ {0}, NEW k \in Int, NEW n \in {1, 2}, k <= -n
  PROVE  p * k <= -(n * p)
OBVIOUS

\* Of all the numbers that are the same on the timer as one in the past, the
\* latest one in the past is not before it, and a whole period after it when
\* the number is that far in the past.
LEMMA PastRemainder ==
  ASSUME NEW p \in Nat \ {0}, NEW x \in Int, x <= 0
  PROVE  /\ (x % p) = 0 \/ (x % p) - p >= x
         /\ x <= -p => (x % p) = 0 \/ (x % p) - p >= x + p
<1> DEFINE k == x \div p
           r == x % p
<1>1. k \in Int /\ x = (p * k) + r BY Division
<1>2. r \in 0 .. p - 1 BY Remainder
<1>3. p * k \in Int BY <1>1
<1>4. k <= -1 => p * k <= -p BY <1>1, NegativeMultiple
<1>5. k <= -2 => p * k <= -(2 * p) BY <1>1, NegativeMultiple
<1>6. k >= 0 => p * k >= 0 BY <1>1
<1>7. k = -1 => p * k = -p BY <1>1
<1> HIDE DEF k, r
<1>8. k <= -2 \/ k = -1 \/ k >= 0 BY <1>1
<1>9. /\ r = 0 \/ r - p >= x
      /\ x <= -p => r = 0 \/ r - p >= x + p
  BY <1>1, <1>2, <1>3, <1>4, <1>5, <1>6, <1>7, <1>8
<1> QED BY <1>9 DEF r

\* Sums, for the provers.
LEMMA Sums ==
  ASSUME NEW n \in Nat, NEW t \in Int, NEW x \in Int, NEW y \in Int,
         NEW d \in Nat
  PROVE  /\ t <= x => t <= n + x
         /\ t <= n + x /\ x - d <= y => t - d <= n + y
OBVIOUS

LEMMA LaterIs ==
  ASSUME NEW t \in Int, NEW d \in Int, PERIOD \in Nat
  PROVE  Later(t, d) = IF t - d < -PERIOD THEN -PERIOD ELSE t - d
<1> DEFINE a == t - d
           b == -PERIOD
           m == IF a < b THEN b ELSE a
<1>1. m \in {a, b} /\ \A y \in {a, b} : m >= y OBVIOUS
<1>2. \A x \in {a, b} : (\A y \in {a, b} : x >= y) => x = m OBVIOUS
<1> QED BY <1>1, <1>2 DEF Later, Max

-----------------------------------------------------------------------------
(***************************************************************************)
(* The timer.                                                              *)
(***************************************************************************)
\* The values of the constants and of the timer.
TimerType == ahead \in 0 .. PERIOD - 1 /\ OCF1A \in {0, 1} /\ due \in Int

LEMMA PeriodType == PERIOD \in Nat \ {0}
BY TimerAssumption

LEMMA HalfIsLong ==
  Half \in Nat \ {0} /\ 2 * WAIT < Half /\ Half < PERIOD
BY TimerAssumption DEF Half

\* What d ticks do to the distance to compare A and to the flag.
LEMMA PassTime ==
  ASSUME TimerType, NEW d \in Nat, Pass(d)
  PROVE  /\ ahead' \in 0 .. PERIOD - 1 /\ OCF1A' \in {0, 1}
         /\ OCF1A = 1 => OCF1A' = 1
         /\ OCF1A' = 0 => UntilCompare' = UntilCompare - d
         /\ SinceCompare' >= SinceCompare - d
         /\ OCF1A = 0 /\ OCF1A' = 1 => SinceCompare' >= UntilCompare - d
<1> USE PeriodType DEF TimerType
<1> DEFINE x == ahead - d
<1>1. x \in Int /\ ahead' = x % PERIOD BY DEF Pass
<1>2. ahead' \in 0 .. PERIOD - 1 BY <1>1, Remainder
<1>3. /\ OCF1A' \in {0, 1} /\ (OCF1A = 1 => OCF1A' = 1)
      /\ OCF1A' = 0 => d < UntilCompare
      /\ OCF1A = 0 /\ OCF1A' = 1 => d >= UntilCompare
  BY DEF Pass, Meets, UntilCompare
<1>4. CASE x > 0
  <2>1. ahead' = x BY <1>1, <1>4, SmallRemainder
  <2> QED BY <1>2, <1>3, <1>4, <2>1 DEF UntilCompare, SinceCompare
<1>5. CASE x <= 0
  <2>1. /\ ahead' = 0 \/ ahead' - PERIOD >= x
        /\ x <= -PERIOD => ahead' = 0 \/ ahead' - PERIOD >= x + PERIOD
    BY <1>1, <1>5, PastRemainder
  <2>2. SinceCompare' >= SinceCompare - d
    BY <1>1, <1>2, <2>1 DEF SinceCompare
  <2>3. d >= UntilCompare => SinceCompare' >= UntilCompare - d
    BY <1>1, <1>2, <1>5, <2>1 DEF SinceCompare, UntilCompare
  <2>4. ASSUME d < UntilCompare PROVE UntilCompare' = UntilCompare - d
    <3>1. ahead = 0 BY <1>5, <2>4 DEF UntilCompare
    <3>2. CASE d = 0
      <4>1. ahead' = 0 BY <1>1, <3>1, <3>2, SmallRemainder
      <4> QED BY <3>1, <3>2, <4>1 DEF UntilCompare
    <3>3. CASE d > 0
      <4>1. ahead' = x + PERIOD
        BY <1>1, <2>4, <3>1, <3>3, BackRemainder DEF UntilCompare
      <4> QED BY <2>4, <3>1, <3>3, <4>1 DEF UntilCompare
    <3> QED BY <3>2, <3>3
  <2> QED BY <1>2, <1>3, <2>2, <2>3, <2>4
<1> QED BY <1>1, <1>4, <1>5

\* Waiting for the flag ends exactly at compare A, unless it was set before.
LEMMA WaitTime ==
  ASSUME TimerType, WaitForMatch
  PROVE  /\ UntilMatch \in Nat /\ Pass(UntilMatch)
         /\ due' = Later(due, UntilMatch)
         /\ OCF1A' = 1
         /\ OCF1A = 1 => ahead' = ahead
         /\ OCF1A = 0 => ahead' = 0
<1> USE PeriodType DEF TimerType, WaitForMatch
<1>1. UntilMatch \in Nat BY DEF UntilMatch, UntilCompare
<1>2. OCF1A' = 1 BY DEF Pass, Meets, UntilMatch, UntilCompare
<1>3. ASSUME OCF1A = 1 PROVE ahead' = ahead
  <2>1. ahead' = (ahead - 0) % PERIOD BY <1>3 DEF Pass, UntilMatch
  <2> QED BY <2>1, SmallRemainder
<1>4. ASSUME OCF1A = 0 PROVE ahead' = 0
  <2>1. ahead' = (ahead - UntilCompare) % PERIOD
    BY <1>4 DEF Pass, UntilMatch
  <2>2. CASE ahead = 0
    <3>1. (ahead - UntilCompare) = -PERIOD BY <2>2 DEF UntilCompare
    <3> QED BY <2>1, <3>1, BackRemainder
  <2>3. CASE ahead # 0
    <3>1. (ahead - UntilCompare) = 0 BY <2>3 DEF UntilCompare
    <3> QED BY <2>1, <3>1, SmallRemainder
  <2> QED BY <2>2, <2>3
<1> QED BY <1>1, <1>2, <1>3, <1>4

\* The next appointment, counted from compare A and up to two waits away,
\* falls in the second half of the period exactly when it is past.
LEMMA AppointmentIs ==
  ASSUME TimerType, next_callback \in 0 .. 2 * WAIT,
         NEW a, a = Appointment % PERIOD
  PROVE  /\ a \in 0 .. PERIOD - 1
         /\ SinceCompare + next_callback >= 0 =>
              a = SinceCompare + next_callback /\ a < Half
         /\ ahead = 0 => a = next_callback
<1> USE PeriodType DEF TimerType
<1> DEFINE x == Appointment
<1>1. x \in Nat /\ x = ahead + next_callback /\ next_callback < Half
  BY HalfIsLong, TimerAssumption DEF Appointment
<1>2. a = x % PERIOD OBVIOUS
<1> HIDE DEF x
<1>3. a \in 0 .. PERIOD - 1
  <2>1. x \in Int /\ PERIOD \in Nat \ {0} BY <1>1
  <2>2. x % PERIOD \in 0 .. PERIOD - 1 BY <2>1, Remainder
  <2> QED BY <1>2, <2>2
<1>4. ASSUME ahead = 0 PROVE a = next_callback
  <2>1. x \in 0 .. PERIOD - 1 BY <1>1, <1>4, HalfIsLong
  <2>2. x % PERIOD = x BY <2>1, SmallRemainder
  <2> QED BY <1>1, <1>2, <1>4, <2>2
<1>5. ASSUME ahead # 0, SinceCompare + next_callback >= 0
      PROVE  a = SinceCompare + next_callback
  <2>1. x \in Int /\ PERIOD <= x /\ x < 2 * PERIOD
    BY <1>1, <1>5, HalfIsLong DEF SinceCompare
  <2>2. x % PERIOD = x - PERIOD BY <2>1, NextRemainder
  <2> QED BY <1>1, <1>2, <1>5, <2>2 DEF SinceCompare
<1>6. SinceCompare <= 0 /\ SinceCompare \in Int BY DEF SinceCompare
<1> QED BY <1>1, <1>3, <1>4, <1>5, <1>6, HalfIsLong DEF SinceCompare

LEMMA LaterBounds ==
  ASSUME NEW t \in Int, NEW d \in Int
  PROVE  /\ Later(t, d) \in Int /\ Later(t, d) >= -PERIOD
         /\ \A b \in Int : -PERIOD <= b /\ t - d <= b => Later(t, d) <= b
<1>1. PERIOD \in Nat BY PeriodType
<1>2. Later(t, d) = IF t - d < -PERIOD THEN -PERIOD ELSE t - d
  BY <1>1, LaterIs
<1> QED BY <1>1, <1>2

LEMMA FromIs ==
  ASSUME TimerType, ahead = 0 \/ ahead >= Half
  PROVE  From = SinceCompare
<1>1. ahead = 0 => From = 0 BY HalfIsLong DEF From
<1>2. ahead # 0 => From = ahead - PERIOD BY DEF From
<1> QED BY <1>1, <1>2 DEF SinceCompare

-----------------------------------------------------------------------------
(***************************************************************************)
(* Type correctness.                                                       *)
(***************************************************************************)
LEMMA TypeOKInit == Init => TypeOK
<1> SUFFICES ASSUME Init PROVE TypeOK OBVIOUS
<1>1. PERIOD \in Nat \ {0} /\ InitTimes \subseteq 0 .. PERIOD - 1
  BY TimerAssumption
<1>2. due = ahead /\ (ahead = 0 \/ ahead \in InitTimes) BY DEF Init
<1>3. 0 \in 0 .. PERIOD - 1 BY <1>1
<1>4. ahead \in 0 .. PERIOD - 1 BY <1>1, <1>2, <1>3
<1>5. due \in Int /\ due >= -PERIOD BY <1>1, <1>2, <1>4
<1>6. next_callback \in 0 .. 2 * PERIOD - 1 /\ diff \in 0 .. PERIOD - 1
  BY <1>1 DEF Init
<1> QED BY <1>4, <1>5, <1>6 DEF Init, TypeOK

\* What Update_All leaves behind.
LEMMA UpdateAllType ==
  ASSUME TypeOK, Update_All
  PROVE  /\ ahead' \in 0 .. PERIOD - 1 /\ OCF1A' \in {0, 1}
         /\ due' \in Int /\ due' >= -PERIOD
         /\ remote_callback' \in Protocols \cup {0}
         /\ INPUT_SIGNAL' \in {0, 1} /\ fresh' \in {0, 1}
<1> USE DEF TypeOK
<1>1. INPUT_SIGNAL' \in {0, 1} BY DEF Update_All, SignalSeen
<1>2. CASE KeepProtocol
  <2>1. PICK d \in UpdateTimes : Pass(d) /\ due' = Later(due, d)
    BY <1>2 DEF KeepProtocol
  <2>2. d \in Nat BY TimerAssumption
  <2>3. ahead' \in 0 .. PERIOD - 1 /\ OCF1A' \in {0, 1}
    BY <2>1, <2>2, PassTime DEF TimerType
  <2>4. due' \in Int /\ due' >= -PERIOD BY <2>1, <2>2, LaterBounds
  <2> QED BY <1>1, <1>2, <2>3, <2>4 DEF KeepProtocol
<1>3. CASE protocol_init
  <2>1. ahead' \in 0 .. PERIOD - 1
    BY <1>3, TimerAssumption DEF protocol_init
  <2> QED BY <1>1, <1>3, <2>1, TimerAssumption DEF protocol_init
<1> QED BY <1>2, <1>3 DEF Update_All

LEMMA WaitType ==
  ASSUME TypeOK, WaitForMatch
  PROVE  /\ ahead' \in 0 .. PERIOD - 1 /\ OCF1A' \in {0, 1}
         /\ due' \in Int /\ due' >= -PERIOD
<1>1. TimerType BY DEF TypeOK, TimerType
<1>2. UntilMatch \in Nat /\ Pass(UntilMatch) /\ due' = Later(due, UntilMatch)
  BY <1>1, WaitTime
<1>3. due' \in Int /\ due' >= -PERIOD BY <1>1, <1>2, LaterBounds DEF TimerType
<1> QED BY <1>1, <1>2, <1>3, PassTime

LEMMA TypeOKNext == TypeOK /\ [Next]_vars => TypeOK'
<1> SUFFICES ASSUME TypeOK, [Next]_vars PROVE TypeOK' OBVIOUS
<1> USE DEF TypeOK, timer
<1>1. CASE SkipUpdate BY <1>1 DEF SkipUpdate
<1>2. CASE Update BY <1>2, UpdateAllType DEF Update, UpdateThen
<1>3. CASE SyncLate BY <1>3, TimerAssumption DEF SyncLate
<1>4. CASE SyncInTime BY <1>4, WaitType DEF SyncInTime
<1>5. CASE RunCallback
  <2>1. PICK t \in Timings :
          /\ Pass(t[1]) /\ next_callback' = t[2]
          /\ due' = Later(From + t[2], t[1])
          /\ overran' = IF Fits(t[1], t[2]) THEN overran ELSE 1
    BY <1>5 DEF RunCallback
  <2>2. t[1] \in Nat /\ t[2] \in 0 .. 2 * PERIOD - 1 BY TimerAssumption
  <2>3. From + t[2] \in Int BY <2>2, TimerAssumption DEF From
  <2>4. due' \in Int /\ due' >= -PERIOD
    <3>1. t[1] \in Int BY <2>2
    <3>2. Later(From + t[2], t[1]) \in Int /\ Later(From + t[2], t[1]) >= -PERIOD
      BY <2>3, <3>1, LaterBounds
    <3> QED BY <2>1, <3>2
  <2>5. ahead' \in 0 .. PERIOD - 1 /\ OCF1A' \in {0, 1}
    BY <2>1, <2>2, PassTime DEF TimerType
  <2>6. overran' \in {0, 1} BY <2>1
  <2> QED BY <1>5, <2>1, <2>2, <2>4, <2>5, <2>6 DEF RunCallback
<1>6. CASE NoSignal
  <2>1. due' \in Int /\ due' >= -PERIOD
    BY <1>6, TimerAssumption DEF NoSignal, From, Half
  <2> QED BY <1>6, <2>1, TimerAssumption DEF NoSignal
<1>7. CASE SetWait
  <2>1. ahead' \in 0 .. PERIOD - 1
    <3>1. ahead + WAIT \in Int BY TimerAssumption
    <3>2. ahead' = (ahead + WAIT) % PERIOD
      BY <1>7 DEF SetWait, SetWaitFor
    <3> QED BY <3>1, <3>2, PeriodType, Remainder
  <2>2. next_callback' \in 0 .. 2 * PERIOD - 1
    BY <1>7, TimerAssumption DEF SetWait, SetWaitFor
  <2> QED BY <1>7, <2>1, <2>2 DEF SetWait, SetWaitFor
<1>8. CASE UpdateInWait BY <1>8, UpdateAllType DEF UpdateInWait
<1>9. CASE Wait2ms BY <1>9, WaitType DEF Wait2ms
<1>10. CASE SetCallback
  <2>1. next_callback \in 0 .. 2 * WAIT /\ ahead' = Appointment % PERIOD
    BY <1>10 DEF SetCallback, SetCallbackFlag
  <2>2. ahead' \in 0 .. PERIOD - 1 BY <2>1, AppointmentIs DEF TimerType
  <2> QED BY <1>10, <2>2 DEF SetCallback, SetCallbackFlag
<1>11. CASE UNCHANGED vars BY <1>11 DEF vars
<1> QED BY <1>1, <1>2, <1>3, <1>4, <1>5, <1>6, <1>7, <1>8, <1>9, <1>10, <1>11
     DEF Next

\* Type correctness: no arithmetic on the timer leaves its 16 bits, whatever
\* the callbacks take and ask for.
THEOREM SchedulerTypeOK == Spec => []TypeOK
BY TypeOKInit, TypeOKNext, PTL DEF Spec

-----------------------------------------------------------------------------
(***************************************************************************)
(* No callback is early.                                                   *)
(***************************************************************************)
\* How the time that is left shrinks while Update_All keeps the protocol.
LEMMA KeepTime ==
  ASSUME TypeOK, NEW d \in Nat, Pass(d), due' = Later(due, d),
         NEW n \in Nat
  PROVE  /\ due <= UntilMatch => due' <= UntilMatch'
         /\ due <= n + (IF OCF1A = 1 THEN SinceCompare ELSE UntilCompare) =>
              due' <= n + (IF OCF1A' = 1 THEN SinceCompare'
                                         ELSE UntilCompare')
<1> USE DEF TypeOK
<1>1. PERIOD \in Nat \ {0} BY PeriodType
<1>2. /\ ahead' \in 0 .. PERIOD - 1 /\ OCF1A' \in {0, 1}
      /\ OCF1A = 1 => OCF1A' = 1
      /\ OCF1A' = 0 => UntilCompare' = UntilCompare - d
      /\ SinceCompare' >= SinceCompare - d
      /\ OCF1A = 0 /\ OCF1A' = 1 => SinceCompare' >= UntilCompare - d
  BY PassTime DEF TimerType
<1>3. due' \in Int /\ \A b \in Int : -PERIOD <= b /\ due - d <= b => due' <= b
  BY LaterBounds
<1>4. /\ UntilCompare' \in 1 .. PERIOD /\ UntilCompare \in 1 .. PERIOD
      /\ SinceCompare' \in -PERIOD .. 0 /\ SinceCompare \in -PERIOD .. 0
      /\ OCF1A = 0 /\ OCF1A' = 1 => UntilCompare <= d
  BY <1>1, <1>2 DEF UntilCompare, SinceCompare, Pass, Meets
<1>5. ASSUME due <= UntilMatch PROVE due' <= UntilMatch'
  <2>1. UntilMatch' \in Int /\ -PERIOD <= UntilMatch'
    BY <1>1, <1>4 DEF UntilMatch
  <2>2. due - d <= UntilMatch' BY <1>2, <1>4, <1>5 DEF UntilMatch
  <2> QED BY <1>3, <2>1, <2>2
<1>6. ASSUME due <= n + (IF OCF1A = 1 THEN SinceCompare ELSE UntilCompare)
      PROVE  due' <= n + (IF OCF1A' = 1 THEN SinceCompare' ELSE UntilCompare')
  <2> DEFINE b == n + (IF OCF1A' = 1 THEN SinceCompare' ELSE UntilCompare')
  <2>1. /\ OCF1A' = 0 => b = n + UntilCompare'
        /\ OCF1A' = 1 => b = n + SinceCompare'
    OBVIOUS
  <2>2. due <= n + UntilCompare \/ (OCF1A = 1 /\ due <= n + SinceCompare)
    BY <1>6
  <2>3. due <= n + SinceCompare => due <= n + UntilCompare
    BY <1>1, <1>4
  <2> HIDE DEF b
  <2>4. b \in Int /\ -PERIOD <= b BY <1>1, <1>2, <1>4, <2>1
  <2> SUFFICES due' <= b BY DEF b
  <2>5. CASE OCF1A' = 0
    <3>1. due <= n + UntilCompare BY <2>2, <2>3
    <3>2. due - d <= b BY <1>1, <1>2, <1>4, <2>1, <2>5, <3>1
    <3> QED BY <1>3, <2>1, <2>4, <2>5, <3>2
  <2>6. CASE OCF1A' = 1 /\ OCF1A = 1
    <3>1. due <= n + SinceCompare BY <1>6, <2>6
    <3>2. SinceCompare \in Int /\ SinceCompare' \in Int BY <1>1, <1>4
    <3>3. SinceCompare - d <= SinceCompare' /\ due \in Int
      BY <1>2, <3>2
    <3>4. due - d <= n + SinceCompare' BY <3>1, <3>2, <3>3, Sums
    <3> QED BY <1>3, <2>1, <2>4, <2>6, <3>4
  <2>7. CASE OCF1A' = 1 /\ OCF1A = 0
    <3>1. due <= n + UntilCompare BY <2>2, <2>3
    <3>2. UntilCompare \in Int /\ SinceCompare' \in Int BY <1>1, <1>4
    <3>3. UntilCompare - d <= SinceCompare' /\ due \in Int
      BY <1>2, <2>7, <3>2
    <3>4. due - d <= n + SinceCompare' BY <3>1, <3>2, <3>3, Sums
    <3> QED BY <1>3, <2>1, <2>4, <2>7, <3>4
  <2> QED BY <1>2, <2>5, <2>6, <2>7
<1> QED BY <1>5, <1>6

\* A new appointment is met exactly when its flag will be set.
LEMMA InitTime ==
  ASSUME TypeOK, protocol_init, NEW n \in Nat
  PROVE  due' <= UntilMatch' /\ OCF1A' = 0 /\ due' <= n + UntilCompare'
<1>1. ahead' \in 0 .. PERIOD - 1
  BY TimerAssumption DEF protocol_init
<1>2. OCF1A' = 0 /\ due' = ahead' BY DEF protocol_init
<1>3. UntilCompare' >= ahead' /\ UntilCompare' \in Int
  BY <1>1, PeriodType DEF UntilCompare
<1>4. UntilMatch' = UntilCompare' BY <1>2 DEF UntilMatch
<1>5. due' <= UntilCompare' BY <1>2, <1>3
<1>6. ahead' \in Int BY <1>1, PeriodType
<1>7. due' <= n + UntilCompare' BY <1>2, <1>3, <1>6, Sums
<1> QED BY <1>2, <1>4, <1>5, <1>7

LEMMA UpdateThenTime ==
  ASSUME TypeOK, TimeIsLeft, Update
  PROVE  TimeIsLeft'
<1>1. pc' \in {"idle", "sync"} /\ due <= UntilMatch
  BY DEF Update, UpdateThen, TimeIsLeft
<1>2. CASE KeepProtocol
  <2>1. PICK d \in UpdateTimes : Pass(d) /\ due' = Later(due, d)
    BY <1>2 DEF KeepProtocol
  <2>2. d \in Nat BY TimerAssumption
  <2>3. due' <= UntilMatch' BY <1>1, <2>1, <2>2, KeepTime
  <2> QED BY <1>1, <2>3 DEF TimeIsLeft
<1>3. CASE protocol_init
  <2>1. due' <= UntilMatch' BY <1>3, InitTime
  <2> QED BY <1>1, <2>1 DEF TimeIsLeft
<1> QED BY <1>2, <1>3 DEF Update, UpdateThen, Update_All

LEMMA UpdateInWaitTime ==
  ASSUME TypeOK, TimeIsLeft, UpdateInWait
  PROVE  TimeIsLeft'
<1>1. /\ pc' = "wait" /\ next_callback' = next_callback
      /\ next_callback \in Nat
      /\ due <= next_callback + IF OCF1A = 1 THEN SinceCompare ELSE UntilCompare
  BY DEF UpdateInWait, TimeIsLeft, TypeOK
<1>2. CASE KeepProtocol
  <2>1. PICK d \in UpdateTimes : Pass(d) /\ due' = Later(due, d)
    BY <1>2 DEF KeepProtocol
  <2>2. d \in Nat BY TimerAssumption
  <2>3. due' <= next_callback
                + IF OCF1A' = 1 THEN SinceCompare' ELSE UntilCompare'
    BY <1>1, <2>1, <2>2, KeepTime
  <2> QED BY <1>1, <2>3 DEF TimeIsLeft
<1>3. CASE protocol_init
  <2>1. OCF1A' = 0 /\ due' <= next_callback + UntilCompare'
    BY <1>1, <1>3, InitTime
  <2> QED BY <1>1, <2>1 DEF TimeIsLeft
<1> QED BY <1>2, <1>3 DEF UpdateInWait, Update_All

\* The flag was set, or is awaited now: nothing is left.
LEMMA SyncInTimeTime ==
  ASSUME TypeOK, TimeIsLeft, SyncInTime
  PROVE  TimeIsLeft'
<1>1. TimerType /\ PERIOD \in Nat \ {0}
  BY PeriodType DEF TypeOK, TimerType
<1>2. /\ pc' = "callback" /\ due <= UntilMatch /\ OCF1A = 0
      /\ WaitForMatch
  BY DEF SyncInTime, TimeIsLeft
<1>3. /\ ahead' = 0 /\ UntilMatch \in Nat /\ due' = Later(due, UntilMatch)
  BY <1>1, <1>2, WaitTime
<1>4. due - UntilMatch <= 0 /\ due \in Int BY <1>2, <1>3 DEF TypeOK
<1>5. due' <= 0 BY <1>1, <1>3, <1>4, LaterBounds
<1> QED BY <1>2, <1>3, <1>5 DEF TimeIsLeft

\* A callback asks for its time counted from compare A.
LEMMA RunCallbackTime ==
  ASSUME TypeOK, TimeIsLeft, RunCallback
  PROVE  TimeIsLeft'
<1>1. TimerType /\ PERIOD \in Nat \ {0}
  BY PeriodType DEF TypeOK, TimerType
<1>2. PICK t \in Timings :
          /\ Pass(t[1]) /\ next_callback' = t[2]
          /\ due' = Later(From + t[2], t[1])
  BY DEF RunCallback
<1> DEFINE takes == t[1]
           asks  == t[2]
<1>3. takes \in Nat /\ asks \in Nat BY TimerAssumption
<1>4. From = SinceCompare
  <2>1. ahead = 0 \/ ahead >= Half BY DEF RunCallback, TimeIsLeft
  <2> QED BY <1>1, <2>1, FromIs
<1>5. /\ Pass(takes) /\ next_callback' = asks
      /\ due' = Later(SinceCompare + asks, takes)
  BY <1>2, <1>4
<1> HIDE DEF takes, asks
<1>6. ahead' \in 0 .. PERIOD - 1 /\ SinceCompare' >= SinceCompare - takes
  BY <1>1, <1>3, <1>5, PassTime
<1>7. PICK since \in Int : since = SinceCompare
  BY <1>1 DEF SinceCompare, TimerType
<1>8. SinceCompare' \in -PERIOD .. 0
  <2>1. PICK a \in 0 .. PERIOD - 1 : a = ahead' BY <1>6
  <2>2. SinceCompare' = IF a = 0 THEN 0 ELSE a - PERIOD
    BY <2>1 DEF SinceCompare
  <2> QED BY <1>1, <2>2
<1>9. PICK now \in -PERIOD .. 0 : now = SinceCompare' BY <1>8
<1>10. now \in Int /\ -PERIOD <= now BY <1>1
<1>11. since - takes <= now BY <1>6, <1>7, <1>9
<1>12. now + asks \in Int /\ -PERIOD <= now + asks BY <1>1, <1>3, <1>10
<1>13. since + asks \in Int /\ (since + asks) - takes <= now + asks
  BY <1>3, <1>10, <1>11
<1>14. due' = Later(since + asks, takes) BY <1>5, <1>7
<1>15. due' <= now + asks BY <1>3, <1>12, <1>13, <1>14, LaterBounds
<1>16. due' <= SinceCompare' + next_callback' BY <1>5, <1>9, <1>15
<1>17. pc' = "delay" BY DEF RunCallback
<1> QED BY <1>16, <1>17 DEF TimeIsLeft

LEMMA NoSignalTime ==
  ASSUME TypeOK, TimeIsLeft, NoSignal
  PROVE  TimeIsLeft'
<1>1. From = SinceCompare
  BY FromIs DEF NoSignal, TimeIsLeft, TypeOK, TimerType
<1>2. ahead' = ahead /\ next_callback' = WAIT /\ pc' = "delay"
  BY DEF NoSignal, timer
<1>3. SinceCompare' = SinceCompare BY <1>2 DEF SinceCompare
<1>4. SinceCompare \in Int BY PeriodType DEF SinceCompare, TypeOK
<1>5. due' = SinceCompare + WAIT BY <1>1 DEF NoSignal
<1>6. WAIT \in Nat BY TimerAssumption
<1>7. due' <= SinceCompare' + next_callback'
  BY <1>2, <1>3, <1>4, <1>5, <1>6
<1> QED BY <1>2, <1>7 DEF TimeIsLeft

\* A wait of the delay loop moves compare A by what it takes from
\* next_callback.
LEMMA SetWaitTime ==
  ASSUME TypeOK, TimeIsLeft, SetWait
  PROVE  TimeIsLeft'
<1>1. /\ PERIOD \in Nat \ {0} /\ WAIT \in Nat \ {0} /\ WAIT < PERIOD
      /\ ahead \in 0 .. PERIOD - 1 /\ due \in Int /\ next_callback \in Nat
  BY TimerAssumption DEF TypeOK
<1>2. /\ pc' = "wait_update" /\ OCF1A' = 0 /\ due' = due
      /\ next_callback' = next_callback - WAIT
      /\ ahead' = (ahead + WAIT) % PERIOD
      /\ due <= SinceCompare + next_callback
  BY DEF SetWait, SetWaitFor, TimeIsLeft
<1>3. PICK x \in Nat : x = ahead + WAIT BY <1>1
<1>4. SinceCompare + WAIT <= UntilCompare' /\ UntilCompare' \in Int
  <2>1. CASE x < PERIOD
    <3>1. ahead' = x BY <1>1, <1>2, <1>3, <2>1, SmallRemainder
    <3> QED BY <1>1, <1>3, <3>1 DEF SinceCompare, UntilCompare
  <2>2. CASE x >= PERIOD
    <3>1. x \in Int /\ PERIOD <= x /\ x < 2 * PERIOD BY <1>1, <1>3, <2>2
    <3>2. ahead' = x - PERIOD BY <1>1, <1>2, <1>3, <3>1, NextRemainder
    <3> QED BY <1>1, <1>3, <3>1, <3>2 DEF SinceCompare, UntilCompare
  <2> QED BY <1>1, <2>1, <2>2
<1>5. PICK since \in Int : since = SinceCompare BY <1>1 DEF SinceCompare
<1>6. PICK until \in Int : until = UntilCompare' BY <1>4
<1>7. since + WAIT <= until BY <1>4, <1>5, <1>6
<1>8. due <= since + next_callback BY <1>2, <1>5
<1>9. due <= (next_callback - WAIT) + until BY <1>1, <1>7, <1>8
<1>10. due' <= next_callback' + UntilCompare' BY <1>2, <1>6, <1>9
<1> QED BY <1>2, <1>10 DEF TimeIsLeft

LEMMA Wait2msTime ==
  ASSUME TypeOK, TimeIsLeft, Wait2ms
  PROVE  TimeIsLeft'
<1>1. TimerType /\ PERIOD \in Nat \ {0} /\ next_callback \in Nat
  BY PeriodType DEF TypeOK, TimerType
<1>2. /\ pc' = "delay" /\ next_callback' = next_callback /\ WaitForMatch
      /\ due <= next_callback + IF OCF1A = 1 THEN SinceCompare ELSE UntilCompare
  BY DEF Wait2ms, TimeIsLeft
<1>3. /\ OCF1A' = 1 /\ UntilMatch \in Nat /\ Pass(UntilMatch)
      /\ due' = Later(due, UntilMatch)
  BY <1>1, <1>2, WaitTime
<1>4. OCF1A' = 1 /\ due' <= next_callback + SinceCompare'
  BY <1>1, <1>2, <1>3, KeepTime
<1>5. ahead' \in 0 .. PERIOD - 1 BY <1>1, <1>3, PassTime
<1>6. SinceCompare' \in Int BY <1>1, <1>5 DEF SinceCompare
<1>7. next_callback + SinceCompare' = SinceCompare' + next_callback
  BY <1>1, <1>6
<1>8. due' <= SinceCompare' + next_callback' BY <1>2, <1>4, <1>7
<1> QED BY <1>2, <1>8 DEF TimeIsLeft

\* An appointment reads as past only when it is.
LEMMA SetCallbackTime ==
  ASSUME TypeOK, TimeIsLeft, SetCallback
  PROVE  TimeIsLeft'
<1>1. TimerType /\ PERIOD \in Nat \ {0} /\ due \in Int
  BY PeriodType DEF TypeOK, TimerType
<1>2. /\ next_callback \in 0 .. 2 * WAIT /\ ahead' = Appointment % PERIOD
      /\ OCF1A' = 0 /\ due' = due /\ pc' \in {"callback", "top"}
      /\ pc' = "callback" <=> ahead' >= Half
      /\ due <= SinceCompare + next_callback
  BY DEF SetCallback, SetCallbackFlag, TimeIsLeft, TypeOK
<1>3. SinceCompare \in Int /\ next_callback \in Nat
  BY <1>1, <1>2, TimerAssumption DEF SinceCompare, TimerType
<1> DEFINE left == SinceCompare + next_callback
<1> left \in Int BY <1>3
<1>4. ahead' \in 0 .. PERIOD - 1 /\ (left >= 0 => ahead' = left /\ ahead' < Half)
  BY <1>1, <1>2, AppointmentIs
<1>5. due <= left BY <1>2
<1> HIDE DEF left
<1>6. UntilMatch' = UntilCompare' BY <1>2 DEF UntilMatch
<1>7. CASE left >= 0
  <2>1. pc' = "top" BY <1>1, <1>2, <1>4, <1>7, HalfIsLong
  <2>2. due' <= UntilCompare' BY <1>1, <1>2, <1>4, <1>5, <1>7 DEF UntilCompare
  <2> QED BY <1>6, <2>1, <2>2 DEF TimeIsLeft
<1>8. CASE left < 0
  <2>1. due' <= 0 BY <1>1, <1>2, <1>5, <1>8
  <2>2. due' <= UntilCompare'
    BY <1>1, <1>2, <1>4, <1>5, <1>8 DEF UntilCompare
  <2> QED BY <1>2, <1>6, <2>1, <2>2 DEF TimeIsLeft
<1> QED BY <1>7, <1>8

LEMMA TimeIsLeftInit == Init => TimeIsLeft
<1> SUFFICES ASSUME Init PROVE TimeIsLeft OBVIOUS
<1>1. /\ pc = "top" /\ due = ahead /\ OCF1A = 0 /\ ahead \in 0 .. PERIOD - 1
      /\ PERIOD \in Nat
  BY TypeOKInit, PeriodType DEF Init, TypeOK
<1>2. due <= UntilMatch BY <1>1 DEF UntilMatch, UntilCompare
<1> QED BY <1>1, <1>2 DEF TimeIsLeft

LEMMA TimeIsLeftNext == TypeOK /\ TimeIsLeft /\ [Next]_vars => TimeIsLeft'
<1> SUFFICES ASSUME TypeOK, TimeIsLeft, [Next]_vars PROVE TimeIsLeft' OBVIOUS
<1>1. CASE SkipUpdate
  BY <1>1 DEF SkipUpdate, TimeIsLeft, timer, UntilMatch, UntilCompare
<1>2. CASE SyncLate
  BY <1>2 DEF SyncLate, TimeIsLeft, UntilMatch
<1>3. CASE UNCHANGED vars
  BY <1>3 DEF vars, timer, TimeIsLeft, UntilMatch, UntilCompare, SinceCompare
<1> QED BY <1>1, <1>2, <1>3, UpdateThenTime, SyncInTimeTime, RunCallbackTime,
           NoSignalTime, SetWaitTime, UpdateInWaitTime, Wait2msTime,
           SetCallbackTime DEF Next

\* The loop never calls a protocol before the time it asked for, whatever the
\* callbacks and Update_All take, and however late earlier callbacks were.
THEOREM CallbacksAreNeverEarly == Spec => []NeverEarly
<1>1. Init => TypeOK /\ TimeIsLeft BY TypeOKInit, TimeIsLeftInit
<1>2. (TypeOK /\ TimeIsLeft) /\ [Next]_vars => (TypeOK /\ TimeIsLeft)'
  BY TypeOKNext, TimeIsLeftNext
<1>3. TypeOK /\ TimeIsLeft => NeverEarly BY DEF TimeIsLeft, NeverEarly
<1> QED BY <1>1, <1>2, <1>3, PTL DEF Spec

-----------------------------------------------------------------------------
(***************************************************************************)
(* No call through a null pointer.                                         *)
(***************************************************************************)
LEMMA NoneLeftInit == Init => NoneLeftInWait
BY DEF Init, NoneLeftInWait

\* Update_All fits the wait: when it leaves no protocol, the flag is not set,
\* or the timer is exactly at compare A.
LEMMA UpdateInWaitNone ==
  ASSUME UpdatesFit, TypeOK, NoneLeftInWait, UpdateInWait
  PROVE  NoneLeftInWait'
<1>1. pc' = "wait" /\ pc = "wait_update" BY DEF UpdateInWait
<1>2. CASE KeepProtocol
  <2>1. PICK d \in UpdateTimes : Pass(d) BY <1>2 DEF KeepProtocol
  <2>2. d \in Nat /\ d <= WAIT /\ WAIT \in Nat \ {0}
    BY TimerAssumption DEF UpdatesFit
  <2>3. ASSUME remote_callback' = 0 PROVE OCF1A' = 0 \/ ahead' = 0
    <3>1. ahead = WAIT /\ OCF1A = 0
      BY <1>1, <1>2, <2>3 DEF KeepProtocol, NoneLeftInWait
    <3>2. CASE d = WAIT
      <4>1. ahead' = (WAIT - WAIT) % PERIOD BY <2>1, <3>1, <3>2 DEF Pass
      <4>2. 0 \in 0 .. PERIOD - 1 BY PeriodType
      <4> QED BY <2>2, <4>1, <4>2, PeriodType, SmallRemainder
    <3>3. CASE d < WAIT
      BY <2>1, <2>2, <3>1, <3>3 DEF Pass, Meets, UntilCompare
    <3> QED BY <2>2, <3>2, <3>3
  <2> QED BY <1>1, <2>3 DEF NoneLeftInWait
<1>3. CASE protocol_init
  BY <1>1, <1>3 DEF protocol_init, NoneLeftInWait
<1> QED BY <1>2, <1>3 DEF UpdateInWait, Update_All

LEMMA NoneLeftNext ==
  ASSUME UpdatesFit
  PROVE  TypeOK /\ NoneLeftInWait /\ [Next]_vars => NoneLeftInWait'
<1> SUFFICES ASSUME TypeOK, NoneLeftInWait, [Next]_vars
             PROVE  NoneLeftInWait'
  OBVIOUS
<1>1. TimerType /\ 0 \in 0 .. PERIOD - 1 BY PeriodType DEF TypeOK, TimerType
<1>2. CASE SkipUpdate
  BY <1>2 DEF SkipUpdate, CallbackOnly, NoneLeftInWait, timer
<1>3. CASE Update BY <1>3 DEF Update, UpdateThen, NoneLeftInWait
<1>4. CASE SyncLate BY <1>4 DEF SyncLate, NoneLeftInWait
<1>5. CASE SyncInTime BY <1>5 DEF SyncInTime, NoneLeftInWait
<1>6. CASE RunCallback BY <1>6 DEF RunCallback, NoneLeftInWait
<1>7. CASE NoSignal BY <1>7 DEF NoSignal, NoneLeftInWait
<1>8. CASE SetWait
  <2>1. /\ pc = "delay" /\ pc' = "wait_update" /\ OCF1A' = 0
        /\ remote_callback' = remote_callback
        /\ ahead' = (ahead + WAIT) % PERIOD
    BY <1>8 DEF SetWait, SetWaitFor
  <2>2. ASSUME remote_callback = 0 PROVE ahead' = WAIT
    <3>1. ahead = 0 BY <2>1, <2>2 DEF NoneLeftInWait
    <3>2. WAIT \in 0 .. PERIOD - 1 /\ 0 + WAIT = WAIT BY TimerAssumption
    <3> QED BY <2>1, <3>1, <3>2, PeriodType, SmallRemainder
  <2> QED BY <2>1, <2>2 DEF NoneLeftInWait
<1>9. CASE UpdateInWait BY <1>9, UpdateInWaitNone
<1>10. CASE Wait2ms
  <2>1. /\ pc = "wait" /\ pc' = "delay" /\ WaitForMatch
        /\ remote_callback' = remote_callback
    BY <1>10 DEF Wait2ms
  <2>2. (OCF1A = 1 => ahead' = ahead) /\ (OCF1A = 0 => ahead' = 0)
    BY <1>1, <2>1, WaitTime
  <2>3. OCF1A \in {0, 1} BY DEF TypeOK
  <2> QED BY <2>1, <2>2, <2>3 DEF NoneLeftInWait
<1>11. CASE SetCallback
  <2>1. /\ pc = "delay" /\ ahead' = Appointment % PERIOD
        /\ pc' = IF ahead' >= Half THEN "callback" ELSE "top"
        /\ remote_callback' = remote_callback
        /\ next_callback \in 0 .. 2 * WAIT
    BY <1>11 DEF SetCallback, SetCallbackFlag, TypeOK
  <2>2. ASSUME remote_callback = 0 PROVE pc' = "top"
    <3>1. ahead = 0 BY <2>1, <2>2 DEF NoneLeftInWait
    <3>2. ahead' = next_callback BY <1>1, <2>1, <3>1, AppointmentIs
    <3>3. ~(ahead' >= Half)
      BY <2>1, <3>2, HalfIsLong, TimerAssumption
    <3> QED BY <2>1, <3>3
  <2> QED BY <2>1, <2>2 DEF NoneLeftInWait
<1>12. CASE UNCHANGED vars BY <1>12 DEF vars, timer, NoneLeftInWait
<1> QED BY <1>2, <1>3, <1>4, <1>5, <1>6, <1>7, <1>8, <1>9, <1>10, <1>11, <1>12
     DEF Next

\* The loop never calls through remote_callback while no protocol is
\* selected, although Update_All may deselect it in the middle of a wait:
\* provided that Update_All, while it keeps the protocol, fits one wait.
THEOREM ProtocolIsCalled ==
  ASSUME UpdatesFit
  PROVE  Spec => []CallsAProtocol
<1>1. Init => TypeOK /\ NoneLeftInWait BY TypeOKInit, NoneLeftInit
<1>2. (TypeOK /\ NoneLeftInWait) /\ [Next]_vars => (TypeOK /\ NoneLeftInWait)'
  BY TypeOKNext, NoneLeftNext
<1>3. NoneLeftInWait => CallsAProtocol BY DEF NoneLeftInWait, CallsAProtocol
<1> QED BY <1>1, <1>2, <1>3, PTL DEF Spec

-----------------------------------------------------------------------------
(***************************************************************************)
(* The largest of a bounded set of numbers, from the well-foundedness of   *)
(* the natural numbers.                                                    *)
(***************************************************************************)
LEMMA LeastNumber ==
  ASSUME NEW T \in SUBSET Nat, T # {}
  PROVE  \E x \in T : \A y \in T : x <= y
<1> DEFINE R == {ss \in Nat \X Nat : ss[1] < ss[2]}
<1>1. IsWellFoundedOn(R, Nat) BY NatLessThanWellFounded DEF OpToRel
<1> HIDE DEF R
<1>2. PICK x \in T : \A y \in T : ~ (<<y, x>> \in R) BY <1>1, WFMin
<1>3. ASSUME NEW y \in T PROVE x <= y
  <2>1. x \in Nat /\ y \in Nat OBVIOUS
  <2>2. ~ (<<y, x>> \in R) BY <1>2
  <2>3. y < x => <<y, x>> \in R BY <2>1 DEF R
  <2> QED BY <2>1, <2>2, <2>3
<1> QED BY <1>2, <1>3

LEMMA LargestNumber ==
  ASSUME NEW T \in SUBSET Nat, T # {}, NEW b \in Nat, \A x \in T : x <= b
  PROVE  \E m \in T : \A x \in T : m >= x
<1> DEFINE U == {n \in Nat : \A x \in T : x <= n}
<1>1. U \in SUBSET Nat /\ b \in U OBVIOUS
<1>2. PICK m \in U : \A n \in U : m <= n
  <2> HIDE DEF U
  <2> QED BY <1>1, LeastNumber
<1>3. ASSUME m \notin T PROVE FALSE
  <2>1. \A x \in T : x \in Nat /\ x <= m /\ x # m BY <1>3
  <2>2. m # 0
    <3>1. PICK x \in T : TRUE OBVIOUS
    <3> QED BY <2>1, <3>1
  <2>3. m - 1 \in Nat /\ \A x \in T : x <= m - 1 BY <2>1, <2>2
  <2> QED BY <1>2, <2>3
<1> QED BY <1>3

\* The longest Update_All bounds how late a callback may be.
LEMMA AllowedIs ==
  ASSUME UpdatesFit
  PROVE  /\ Allowed \in Nat
         /\ \A d \in UpdateTimes : d - (LEAVE + 1) <= Allowed
<1>1. /\ UpdateTimes \in SUBSET Nat /\ UpdateTimes # {} /\ WAIT \in Nat
      /\ \A d \in UpdateTimes : d <= WAIT /\ LEAVE \in Nat
  BY TimerAssumption DEF UpdatesFit
<1>2. \E m \in UpdateTimes : \A d \in UpdateTimes : m >= d
  BY <1>1, LargestNumber
<1>3. /\ Max(UpdateTimes) \in UpdateTimes
      /\ \A d \in UpdateTimes : Max(UpdateTimes) >= d
  BY <1>2 DEF Max
<1> DEFINE a == Max(UpdateTimes) - (LEAVE + 1)
           m == IF a > 0 THEN a ELSE 0
<1>4. LEAVE \in Nat BY TimerAssumption
<1>5. a \in Int /\ \A d \in UpdateTimes : d - (LEAVE + 1) <= a
  <2>1. PICK n \in UpdateTimes : n = Max(UpdateTimes) BY <1>3
  <2>2. n \in Nat /\ \A d \in UpdateTimes : d \in Nat /\ n >= d
    BY <1>1, <1>3, <2>1
  <2>3. a = n - (LEAVE + 1) BY <2>1
  <2> HIDE DEF a
  <2> QED BY <1>4, <2>2, <2>3
<1> HIDE DEF a
<1>6. m \in {0, a} /\ \A y \in {0, a} : m >= y BY <1>5
<1>7. \A x \in {0, a} : (\A y \in {0, a} : x >= y) => x = m BY <1>5
<1>8. Allowed = m BY <1>6, <1>7 DEF Allowed, Max, a
<1> QED BY <1>1, <1>4, <1>5, <1>8

-----------------------------------------------------------------------------
(***************************************************************************)
(* Callbacks are on time.                                                  *)
(***************************************************************************)
\* What a short time does to the distance to compare A: before it, the
\* distance shrinks; after it, compare A is that far in the past.
LEMMA PassShort ==
  ASSUME TimerType, NEW d \in Nat, Pass(d), d < UntilCompare + PERIOD,
         NEW u \in Nat, u = UntilCompare
  PROVE  /\ d < u => OCF1A' = OCF1A /\ ahead' = IF d = 0 THEN ahead ELSE u - d
         /\ d >= u => OCF1A' = 1 /\ (ahead # 0 => SinceCompare' = u - d)
<1> USE PeriodType DEF TimerType
<1>1. ahead' = (ahead - d) % PERIOD BY DEF Pass
<1>2. /\ d < u => OCF1A' = OCF1A
      /\ d >= u => OCF1A' = 1
  BY DEF Pass, Meets, UntilCompare
<1>3. ahead \in 0 .. PERIOD - 1 /\ u = IF ahead = 0 THEN PERIOD ELSE ahead
  BY DEF UntilCompare
<1>4. ASSUME d < u PROVE ahead' = IF d = 0 THEN ahead ELSE u - d
  <2>1. CASE d <= ahead
    <3>1. ahead - d \in 0 .. PERIOD - 1 BY <1>3, <2>1
    <3>2. ahead' = ahead - d BY <1>1, <3>1, SmallRemainder
    <3> QED BY <1>3, <1>4, <2>1, <3>2
  <2>2. CASE d > ahead
    <3>1. ahead = 0 /\ u = PERIOD BY <1>3, <1>4, <2>2
    <3>2. ahead - d \in Int /\ -PERIOD <= ahead - d /\ ahead - d < 0
      BY <1>4, <2>2, <3>1
    <3>3. ahead' = (ahead - d) + PERIOD BY <1>1, <3>2, BackRemainder
    <3> QED BY <2>2, <3>1, <3>3
  <2> QED BY <1>3, <2>1, <2>2
<1>5. ASSUME d >= u, ahead # 0 PROVE SinceCompare' = u - d
  <2>1. d < u + PERIOD OBVIOUS
  <2>2. u = ahead /\ -PERIOD <= ahead - d BY <1>3, <1>5, <2>1
  <2>3. CASE d = u
    <3>1. ahead' = 0 % PERIOD BY <1>1, <2>2, <2>3
    <3>2. 0 \in 0 .. PERIOD - 1 OBVIOUS
    <3>3. ahead' = 0 BY <3>1, <3>2, SmallRemainder
    <3> QED BY <2>3, <3>3 DEF SinceCompare
  <2>4. CASE d > u
    <3>1. ahead - d < 0 /\ ahead - d \in Int BY <2>2, <2>4
    <3>2. ahead' = (ahead - d) + PERIOD BY <1>1, <2>2, <3>1, BackRemainder
    <3> QED BY <1>3, <2>2, <2>4, <3>1, <3>2 DEF SinceCompare
  <2> QED BY <1>5, <2>3, <2>4
<1> QED BY <1>2, <1>4, <1>5

LEMMA StillToComeInit == Init => StillToCome /\ TimeIsExact
BY TimerAssumption DEF Init, StillToCome, TimeIsExact

\* The values of the constants and of the state in a step that is no overrun.
LEMMA PunctualTypes ==
  ASSUME TypeOK
  PROVE  /\ TimerType /\ PERIOD \in Nat \ {0} /\ WAIT \in Nat \ {0}
         /\ LEAVE \in Nat /\ 4 * WAIT < PERIOD - 1
         /\ next_callback \in Nat /\ SinceCompare \in Int
         /\ UntilCompare \in Nat
BY TimerAssumption
   DEF TypeOK, TimerType, SinceCompare, UntilCompare

LEMMA LaterExact ==
  ASSUME NEW t \in Int, NEW d \in Int, t - d >= -PERIOD
  PROVE  Later(t, d) = t - d
<1>1. PERIOD \in Nat BY PeriodType
<1> QED BY <1>1, LaterIs

\* A callback that fits leaves the time it asked for.
LEMMA RunCallbackExact ==
  ASSUME TypeOK, StillToCome, RunCallback, overran' = 0
  PROVE  StillToCome' /\ TimeIsExact'
<1> USE PunctualTypes
<1>1. PICK t \in Timings :
          /\ Pass(t[1]) /\ next_callback' = t[2]
          /\ due' = Later(From + t[2], t[1])
          /\ overran' = IF Fits(t[1], t[2]) THEN overran ELSE 1
  BY DEF RunCallback
<1> DEFINE takes == t[1]
           asks  == t[2]
<1>2. takes \in Nat /\ asks \in Nat BY TimerAssumption
<1>3. overran = 0 /\ takes < asks /\ (asks > 2 * WAIT => takes < WAIT)
  BY <1>1 DEF Fits
<1>4. pc' = "delay" /\ ahead = 0 BY <1>3 DEF RunCallback, StillToCome
<1>5. From = 0 BY <1>4, HalfIsLong DEF From
<1>6. /\ Pass(takes) /\ next_callback' = asks
      /\ due' = Later(From + asks, takes)
  BY <1>1
<1> HIDE DEF takes, asks
<1>7. takes < PERIOD BY <1>2, <1>3
<1>8. SinceCompare' = -takes
  <2>1. UntilCompare = PERIOD BY <1>4 DEF UntilCompare
  <2>2. takes < UntilCompare + PERIOD BY <1>2, <1>7, <2>1
  <2>3. ahead' = IF takes = 0 THEN ahead ELSE PERIOD - takes
    BY <1>2, <1>6, <1>7, <2>1, <2>2, PassShort
  <2> QED BY <1>2, <1>4, <1>7, <2>3 DEF SinceCompare
<1>9. due' = asks - takes
  <2>1. due' = Later(0 + asks, takes) BY <1>5, <1>6
  <2>2. 0 + asks \in Int /\ takes \in Int /\ PERIOD \in Nat BY <1>2
  <2> QED BY <1>2, <1>3, <2>1, <2>2, LaterIs
<1> QED
  BY <1>2, <1>3, <1>4, <1>6, <1>8, <1>9 DEF StillToCome, TimeIsExact

LEMMA NoSignalExact ==
  ASSUME TypeOK, StillToCome, NoSignal, overran' = 0
  PROVE  StillToCome' /\ TimeIsExact'
<1> USE PunctualTypes
<1>1. ahead = 0 /\ pc' = "delay" /\ ahead' = ahead
  BY DEF NoSignal, StillToCome, timer
<1>2. From = 0 /\ SinceCompare' = 0
  BY <1>1, HalfIsLong DEF From, SinceCompare
<1>3. next_callback' = WAIT /\ due' = WAIT BY <1>2 DEF NoSignal
<1> QED BY <1>1, <1>2, <1>3 DEF StillToCome, TimeIsExact

\* The next wait of the delay loop ends at most one wait from now, and not
\* before now.
LEMMA SetWaitExact ==
  ASSUME TypeOK, StillToCome, TimeIsExact, SetWait, overran' = 0
  PROVE  StillToCome' /\ TimeIsExact'
<1> USE PunctualTypes
<1>1. /\ pc = "delay" /\ pc' = "wait_update" /\ OCF1A' = 0 /\ due' = due
      /\ overran = 0 /\ fresh' = fresh
      /\ next_callback > 2 * WAIT /\ next_callback' = next_callback - WAIT
      /\ ahead' = (ahead + WAIT) % PERIOD
  BY DEF SetWait, SetWaitFor
<1>2. SinceCompare > -WAIT BY <1>1 DEF StillToCome
<1>3. ahead' = SinceCompare + WAIT
  <2>1. CASE ahead = 0
    <3>1. ahead + WAIT \in 0 .. PERIOD - 1 BY <2>1
    <3>2. ahead' = ahead + WAIT BY <1>1, <3>1, SmallRemainder
    <3> QED BY <2>1, <3>2 DEF SinceCompare
  <2>2. CASE ahead # 0
    <3>1. /\ ahead + WAIT \in Int /\ PERIOD <= ahead + WAIT
          /\ ahead + WAIT < 2 * PERIOD
      BY <1>2, <2>2 DEF SinceCompare, TimerType
    <3>2. ahead' = (ahead + WAIT) - PERIOD BY <1>1, <3>1, NextRemainder
    <3> QED BY <2>2, <3>2 DEF SinceCompare, TimerType
  <2> QED BY <2>1, <2>2
<1>4. SinceCompare <= 0 BY DEF SinceCompare, TimerType
<1>5. ahead' \in 1 .. WAIT BY <1>2, <1>3, <1>4
<1>6. UntilCompare' = ahead' BY <1>5 DEF UntilCompare
<1>7. next_callback' > WAIT BY <1>1
<1>8. StillToCome' BY <1>1, <1>5, <1>7 DEF StillToCome
<1>9. fresh = 0 => due = SinceCompare + next_callback
  BY <1>1 DEF TimeIsExact
<1>10. fresh = 0 => due' = next_callback' + UntilCompare'
  BY <1>1, <1>3, <1>6, <1>9
<1> QED BY <1>1, <1>8, <1>10 DEF TimeIsExact

\* Update_All fits the wait, so that compare A is at most one wait past.
LEMMA UpdateInWaitExact ==
  ASSUME UpdatesFit, TypeOK, StillToCome, TimeIsExact, UpdateInWait,
         overran' = 0
  PROVE  StillToCome' /\ TimeIsExact'
<1> USE PunctualTypes
<1>1. /\ pc = "wait_update" /\ pc' = "wait" /\ overran = 0
      /\ next_callback' = next_callback
  BY DEF UpdateInWait
<1>2. OCF1A = 0 /\ ahead \in 1 .. WAIT /\ next_callback > WAIT
  BY <1>1 DEF StillToCome
<1>3. UntilCompare = ahead BY <1>2 DEF UntilCompare
<1>4. CASE KeepProtocol
  <2>1. PICK d \in UpdateTimes : Pass(d) /\ due' = Later(due, d)
    BY <1>4 DEF KeepProtocol
  <2>2. d \in Nat /\ d <= WAIT BY TimerAssumption DEF UpdatesFit
  <2>3. fresh' = fresh BY <1>4 DEF KeepProtocol
  <2>4. d < UntilCompare + PERIOD BY <1>2, <1>3, <2>2
  <2>5. /\ d < ahead => OCF1A' = OCF1A /\ ahead' = IF d = 0 THEN ahead
                                                            ELSE ahead - d
        /\ d >= ahead => OCF1A' = 1 /\ SinceCompare' = ahead - d
    BY <1>2, <1>3, <2>1, <2>2, <2>4, PassShort
  <2>6. ASSUME fresh = 0
        PROVE  due = next_callback + ahead /\ due' = due - d
    <3>1. due = next_callback + ahead BY <1>1, <1>2, <1>3, <2>6 DEF TimeIsExact
    <3>2. due \in Int /\ due - d >= -PERIOD BY <1>2, <2>2, <3>1 DEF TypeOK
    <3>3. d \in Int BY <2>2
    <3>4. Later(due, d) = due - d BY <3>2, <3>3, LaterExact
    <3> QED BY <2>1, <3>1, <3>4
  <2>7. CASE d < ahead
    <3>1. OCF1A' = 0 /\ ahead' = ahead - d BY <1>2, <2>2, <2>5, <2>7
    <3>2. UntilCompare' = ahead - d BY <1>2, <2>2, <2>7, <3>1 DEF UntilCompare
    <3> QED
      BY <1>1, <1>2, <2>2, <2>3, <2>6, <3>1, <3>2 DEF StillToCome, TimeIsExact
  <2>8. CASE d >= ahead
    <3>1. OCF1A' = 1 /\ SinceCompare' = ahead - d BY <2>5, <2>8
    <3> QED
      BY <1>1, <1>2, <2>2, <2>3, <2>6, <3>1 DEF StillToCome, TimeIsExact
  <2> QED BY <1>2, <2>2, <2>7, <2>8
<1>5. CASE protocol_init
  <2>1. OCF1A' = 0 /\ fresh' = 1 BY <1>5 DEF protocol_init
  <2> QED BY <1>1, <1>2, <2>1 DEF StillToCome, TimeIsExact
<1> QED BY <1>4, <1>5 DEF UpdateInWait, Update_All

LEMMA Wait2msExact ==
  ASSUME TypeOK, StillToCome, TimeIsExact, Wait2ms, overran' = 0
  PROVE  StillToCome' /\ TimeIsExact'
<1> USE PunctualTypes
<1>1. /\ pc = "wait" /\ pc' = "delay" /\ overran = 0 /\ fresh' = fresh
      /\ next_callback' = next_callback /\ WaitForMatch
  BY DEF Wait2ms
<1>2. next_callback > WAIT /\ (OCF1A = 1 => SinceCompare > -WAIT)
  BY <1>1 DEF StillToCome
<1>3. /\ UntilMatch \in Nat /\ due' = Later(due, UntilMatch)
      /\ OCF1A = 1 => ahead' = ahead
      /\ OCF1A = 0 => ahead' = 0
  BY <1>1, WaitTime
<1>4. CASE OCF1A = 1
  <2>1. SinceCompare' = SinceCompare BY <1>3, <1>4 DEF SinceCompare
  <2>2. ASSUME fresh = 0 PROVE due' = SinceCompare + next_callback
    <3>1. due = next_callback + SinceCompare
      BY <1>1, <1>4, <2>2 DEF TimeIsExact
    <3>2. UntilMatch = 0 BY <1>4 DEF UntilMatch
    <3>3. due \in Int /\ due - 0 >= -PERIOD BY DEF TypeOK
    <3>4. due' = Later(due, 0) BY <1>3, <3>2
    <3>5. Later(due, 0) = due - 0 BY <3>3, LaterExact
    <3>6. due - 0 = due BY <3>3
    <3>7. next_callback + SinceCompare = SinceCompare + next_callback OBVIOUS
    <3> QED BY <3>1, <3>4, <3>5, <3>6, <3>7
  <2> QED BY <1>1, <1>2, <1>4, <2>1, <2>2 DEF StillToCome, TimeIsExact
<1>5. CASE OCF1A = 0
  <2>1. SinceCompare' = 0 BY <1>3, <1>5 DEF SinceCompare
  <2>2. ASSUME fresh = 0 PROVE due' = next_callback
    <3>1. due = next_callback + UntilCompare /\ UntilMatch = UntilCompare
      BY <1>1, <1>5, <2>2 DEF TimeIsExact, UntilMatch
    <3>2. due \in Int /\ due - UntilMatch = next_callback BY <3>1
    <3>3. UntilMatch \in Int /\ PERIOD \in Nat BY <1>3
    <3> QED BY <1>3, <3>2, <3>3, LaterIs
  <2> QED BY <1>1, <1>2, <2>1, <2>2 DEF StillToCome, TimeIsExact
<1> QED BY <1>4, <1>5 DEF TimerType

\* The appointment is still to come, and diff is the time until it.
LEMMA SetCallbackExact ==
  ASSUME TypeOK, StillToCome, TimeIsExact, SetCallback, overran' = 0
  PROVE  StillToCome' /\ TimeIsExact'
<1> USE PunctualTypes
<1>1. /\ pc = "delay" /\ overran = 0 /\ fresh' = fresh /\ due' = due
      /\ next_callback \in 0 .. 2 * WAIT
      /\ ahead' = Appointment % PERIOD /\ OCF1A' = 0 /\ diff' = ahead'
      /\ pc' = IF ahead' >= Half THEN "callback" ELSE "top"
  BY DEF SetCallback, SetCallbackFlag
<1>2. SinceCompare + next_callback > 0 BY <1>1 DEF StillToCome
<1>3. ahead' = SinceCompare + next_callback /\ ahead' < Half
  BY <1>1, <1>2, AppointmentIs
<1>4. pc' = "top" BY <1>1, <1>2, <1>3, HalfIsLong
<1>5. fresh = 0 => due = SinceCompare + next_callback
  BY <1>1 DEF TimeIsExact
<1> QED BY <1>1, <1>2, <1>3, <1>4, <1>5 DEF StillToCome, TimeIsExact

\* When there is more than LEAVE left, Update_All runs before the callback,
\* and makes it late by what it takes beyond that.
LEMMA UpdateExact ==
  ASSUME UpdatesFit, TypeOK, StillToCome, TimeIsExact, Update, overran' = 0
  PROVE  StillToCome' /\ TimeIsExact'
<1> USE PunctualTypes
<1>1. /\ pc \in {"top", "idle"} /\ (pc = "top" => ~CallbackOnly)
      /\ pc' = IF remote_callback' = 0 THEN "idle" ELSE "sync"
      /\ overran = 0
  BY DEF Update, UpdateThen
<1>2. StillToCome' BY <1>1 DEF StillToCome
<1>3. CASE protocol_init \/ remote_callback' = 0
  <2>1. CASE fresh' = 1 BY <1>2, <2>1 DEF TimeIsExact
  <2>2. CASE pc' = "idle" BY <1>2, <2>2 DEF TimeIsExact
  <2> QED BY <1>1, <1>3, <2>1, <2>2 DEF protocol_init
<1>4. CASE KeepProtocol /\ remote_callback' # 0
  <2>1. PICK d \in UpdateTimes : Pass(d) /\ due' = Later(due, d)
    BY <1>4 DEF KeepProtocol
  <2>2. d \in Nat /\ d <= WAIT BY TimerAssumption DEF UpdatesFit
  <2>3. remote_callback # 0 /\ fresh' = fresh /\ pc' = "sync"
    BY <1>1, <1>4 DEF KeepProtocol
  <2>4. pc = "top" BY <1>1, <2>3 DEF StillToCome
  <2>5. ASSUME fresh = 0
        PROVE  /\ OCF1A' = 0 => due' = ahead' /\ ahead' > 0
               /\ OCF1A' = 1 => due' >= -Allowed
    <3>1. /\ OCF1A = 0 /\ due = ahead /\ diff = ahead /\ ahead > 0
          /\ ahead \in Nat
      BY <1>1, <2>3, <2>4, <2>5 DEF TimeIsExact, TimerType
    <3>2. ahead > LEAVE BY <1>1, <2>3, <2>4, <3>1 DEF CallbackOnly
    <3>3. UntilCompare = ahead BY <3>1 DEF UntilCompare
    <3>4. due' = ahead - d
      <4>1. due - d >= -PERIOD /\ due \in Int /\ d \in Int BY <2>2, <3>1
      <4>2. Later(due, d) = due - d BY <4>1, LaterExact
      <4> QED BY <2>1, <3>1, <4>2
    <3>5. d < UntilCompare + PERIOD BY <2>2, <3>1, <3>3
    <3>6. /\ d < ahead => OCF1A' = 0 /\ ahead' = IF d = 0 THEN ahead
                                                          ELSE ahead - d
          /\ d >= ahead => OCF1A' = 1
      BY <2>1, <2>2, <3>1, <3>3, <3>5, PassShort
    <3>7. Allowed \in Nat /\ d - (LEAVE + 1) <= Allowed BY AllowedIs
    <3>8. ahead - d >= -Allowed BY <2>2, <3>1, <3>2, <3>7
    <3> QED BY <2>2, <3>1, <3>4, <3>6, <3>8
  <2>6. pc' = "sync" /\ fresh' = fresh BY <2>3
  <2> QED BY <1>2, <2>5, <2>6 DEF TimeIsExact
<1> QED BY <1>2, <1>3, <1>4 DEF Update, UpdateThen, Update_All

LEMMA SyncInTimeExact ==
  ASSUME UpdatesFit, TypeOK, TimeIsExact, SyncInTime, overran' = 0
  PROVE  StillToCome' /\ TimeIsExact'
<1> USE PunctualTypes
<1>1. /\ pc = "sync" /\ OCF1A = 0 /\ pc' = "callback" /\ overran = 0
      /\ fresh' = fresh /\ WaitForMatch
  BY DEF SyncInTime
<1>2. ahead' = 0 /\ UntilMatch \in Nat /\ due' = Later(due, UntilMatch)
  BY <1>1, WaitTime
<1>3. ASSUME fresh = 0 PROVE due' = 0
  <2>1. due = ahead /\ ahead > 0 BY <1>1, <1>3 DEF TimeIsExact
  <2>2. UntilMatch = ahead BY <1>1, <2>1 DEF UntilMatch, UntilCompare
  <2>3. due \in Int /\ UntilMatch \in Int /\ due - UntilMatch = 0
    BY <2>1, <2>2 DEF TimerType
  <2>4. PERIOD \in Nat /\ ~(0 < -PERIOD) OBVIOUS
  <2> QED BY <1>2, <2>3, <2>4, LaterIs
<1>4. Allowed \in Nat BY AllowedIs
<1> QED BY <1>1, <1>2, <1>3, <1>4 DEF StillToCome, TimeIsExact

LEMMA PunctualNext ==
  ASSUME UpdatesFit
  PROVE  TypeOK /\ StillToCome /\ TimeIsExact /\ [Next]_vars
           => StillToCome' /\ TimeIsExact'
<1> SUFFICES ASSUME TypeOK, StillToCome, TimeIsExact, [Next]_vars
             PROVE  StillToCome' /\ TimeIsExact'
  OBVIOUS
<1>1. overran' # 0 => StillToCome' /\ TimeIsExact'
  BY DEF StillToCome, TimeIsExact
<1>2. CASE SkipUpdate /\ overran' = 0
  BY <1>2 DEF SkipUpdate, CallbackOnly, StillToCome, TimeIsExact, timer
<1>3. CASE SyncLate /\ overran' = 0
  BY <1>3 DEF SyncLate, StillToCome, TimeIsExact
<1>4. CASE UNCHANGED vars
  BY <1>4 DEF vars, timer, StillToCome, TimeIsExact, SinceCompare, UntilCompare
<1> QED
  BY <1>1, <1>2, <1>3, <1>4, UpdateExact, SyncInTimeExact, RunCallbackExact,
     NoSignalExact, SetWaitExact, UpdateInWaitExact, Wait2msExact,
     SetCallbackExact DEF Next

-----------------------------------------------------------------------------
\* The inductive invariant of the safety properties of the loop: provided
\* that Update_All, while it keeps the protocol, fits one wait.
THEOREM SchedulerInvariantHolds ==
  ASSUME UpdatesFit
  PROVE  Spec => []SchedulerInvariant
<1>1. Init => SchedulerInvariant
  BY TypeOKInit, TimeIsLeftInit, NoneLeftInit, StillToComeInit
     DEF SchedulerInvariant
<1>2. SchedulerInvariant /\ [Next]_vars => SchedulerInvariant'
  BY TypeOKNext, TimeIsLeftNext, NoneLeftNext, PunctualNext
     DEF SchedulerInvariant
<1> QED BY <1>1, <1>2, PTL DEF Spec

\* A callback that is not the first of its protocol is late by no more than
\* what one run of Update_All takes beyond the time that was left for it:
\* provided that Update_All fits one wait, and until a callback overruns.
THEOREM CallbacksAreOnTime ==
  ASSUME UpdatesFit
  PROVE  Spec => []OnTime
<1>1. SchedulerInvariant => OnTime
  BY DEF SchedulerInvariant, TimeIsExact, OnTime
<1> QED BY <1>1, SchedulerInvariantHolds, PTL

===============================================================================
