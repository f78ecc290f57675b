--------------------------- MODULE BashSerial_proofs ---------------------------
(***************************************************************************)
(* BashInvariant is inductive.  Hence, for every size of the ring, every   *)
(* frame and whatever bytes are written: the bit-bashed serial implements  *)
(* TxQueue, and in serial mode each byte is whole on the pin.              *)
(***************************************************************************)
EXTENDS BashSerial, SequenceTheorems, TLAPS

-----------------------------------------------------------------------------
(***************************************************************************)
(* Bits.                                                                   *)
(***************************************************************************)
Byte == 0 .. 255

LEMMA BitIs ==
  ASSUME NEW b \in Byte
  PROVE  /\ Bit(b, 0) = b % 2          /\ Bit(b, 1) = (b \div 2) % 2
         /\ Bit(b, 2) = (b \div 4) % 2  /\ Bit(b, 3) = (b \div 8) % 2
         /\ Bit(b, 4) = (b \div 16) % 2 /\ Bit(b, 5) = (b \div 32) % 2
         /\ Bit(b, 6) = (b \div 64) % 2 /\ Bit(b, 7) = (b \div 128) % 2
BY DEF Bit, Weight, Byte

LEMMA BitsAre == \A b \in Byte : \A i \in 0 .. 7 : Bit(b, i) \in {0, 1}
<1> SUFFICES ASSUME NEW b \in Byte, NEW i \in 0 .. 7 PROVE Bit(b, i) \in {0, 1}
  OBVIOUS
<1> QED BY BitIs DEF Byte

\* Shifting right is to the next bit.
LEMMA NextBit ==
  ASSUME NEW b \in Byte
  PROVE  /\ b \div 2 \in Byte /\ b % 2 = Bit(b, 0)
         /\ \A i \in 0 .. 6 : Bit(b \div 2, i) = Bit(b, i + 1)
<1>1. b \div 2 \in Byte BY DEF Byte
<1>2. ASSUME NEW i \in 0 .. 6 PROVE Bit(b \div 2, i) = Bit(b, i + 1)
  <2>1. CASE i = 0 BY <1>1, <2>1, BitIs DEF Byte
  <2>2. CASE i = 1 BY <1>1, <2>2, BitIs DEF Byte
  <2>3. CASE i = 2 BY <1>1, <2>3, BitIs DEF Byte
  <2>4. CASE i = 3 BY <1>1, <2>4, BitIs DEF Byte
  <2>5. CASE i = 4 BY <1>1, <2>5, BitIs DEF Byte
  <2>6. CASE i = 5 BY <1>1, <2>6, BitIs DEF Byte
  <2>7. CASE i = 6 BY <1>1, <2>7, BitIs DEF Byte
  <2> QED BY <2>1, <2>2, <2>3, <2>4, <2>5, <2>6, <2>7
<1> QED BY <1>1, <1>2, BitIs

LEMMA InvertedBits ==
  ASSUME NEW b \in Byte
  PROVE  /\ 255 - b \in Byte
         /\ \A i \in 0 .. 7 : Bit(255 - b, i) = 1 - Bit(b, i)
<1>1. 255 - b \in Byte BY DEF Byte
<1>2. ASSUME NEW i \in 0 .. 7 PROVE Bit(255 - b, i) = 1 - Bit(b, i)
  <2>1. CASE i = 0 BY <1>1, <2>1, BitIs DEF Byte
  <2>2. CASE i = 1 BY <1>1, <2>2, BitIs DEF Byte
  <2>3. CASE i = 2 BY <1>1, <2>3, BitIs DEF Byte
  <2>4. CASE i = 3 BY <1>1, <2>4, BitIs DEF Byte
  <2>5. CASE i = 4 BY <1>1, <2>5, BitIs DEF Byte
  <2>6. CASE i = 5 BY <1>1, <2>6, BitIs DEF Byte
  <2>7. CASE i = 6 BY <1>1, <2>7, BitIs DEF Byte
  <2>8. CASE i = 7 BY <1>1, <2>8, BitIs DEF Byte
  <2> QED BY <2>1, <2>2, <2>3, <2>4, <2>5, <2>6, <2>7, <2>8
<1> QED BY <1>1, <1>2

LEMMA WithoutHighest ==
  ASSUME NEW b \in Byte
  PROVE  LET low == IF b < 128 THEN b ELSE b - 128
         IN  \A i \in 0 .. 6 : Bit(low, i) = Bit(b, i)
<1>1. CASE b < 128 BY <1>1
<1>2. CASE ~(b < 128)
  <2> DEFINE low == b - 128
  <2>1. low \in Byte /\ b = low + 128 BY <1>2 DEF Byte
  <2> HIDE DEF low
  <2>2. ASSUME NEW i \in 0 .. 6 PROVE Bit(low, i) = Bit(b, i)
    <3>1. CASE i = 0 BY <2>1, <3>1, BitIs DEF Byte
    <3>2. CASE i = 1 BY <2>1, <3>2, BitIs DEF Byte
    <3>3. CASE i = 2 BY <2>1, <3>3, BitIs DEF Byte
    <3>4. CASE i = 3 BY <2>1, <3>4, BitIs DEF Byte
    <3>5. CASE i = 4 BY <2>1, <3>5, BitIs DEF Byte
    <3>6. CASE i = 5 BY <2>1, <3>6, BitIs DEF Byte
    <3>7. CASE i = 6 BY <2>1, <3>7, BitIs DEF Byte
    <3> QED BY <3>1, <3>2, <3>3, <3>4, <3>5, <3>6, <3>7
  <2> QED BY <1>2, <2>2 DEF low
<1> QED BY <1>1, <1>2

LEMMA OnesOfInverted ==
  ASSUME NEW b \in Byte
  PROVE  Ones(b) \in 0 .. 8 /\ Ones(255 - b) = 8 - Ones(b)
<1>1. 255 - b \in Byte BY DEF Byte
<1>2. \A i \in 0 .. 7 : Bit(b, i) \in {0, 1} /\ Bit(255 - b, i) = 1 - Bit(b, i)
  BY BitsAre, InvertedBits
<1> QED BY <1>2 DEF Ones

LEMMA EncodeIs ==
  ASSUME NEW b \in Byte, NEW s
  PROVE  Encode(s, b).lo \in Byte /\ Encode(s, b).hi \in Byte
<1>1. 255 - b \in Byte /\ Ones(255 - b) \in 0 .. 8 BY OnesOfInverted DEF Byte
<1>2. ParityBit(255 - b) \in {0, 1} BY <1>1 DEF ParityBit
<1>3. (255 - b) \div 128 \in {0, 1} BY <1>1 DEF Byte
<1>4. Encode(s, b).lo = (2 * (255 - b) + 1) % 256
      /\ Encode(s, b).hi = IF s = SPEED_100K THEN (255 - b) \div 128 + 2 * ParityBit(255 - b)
                           ELSE (255 - b) \div 128 + 254
  BY DEF Encode
<1> QED BY <1>1, <1>2, <1>3, <1>4 DEF Byte

\* At 100K what Serial_write stores is what is to be on the pin.
LEMMA EncodesEveryByte ==
  ASSUME NEW b \in Byte
  PROVE  LET code == Encode(SPEED_100K, b)
         IN  \A k \in 1 .. 11 :
               (IF k <= 8 THEN Bit(code.lo, k - 1) ELSE Bit(code.hi, k - 9)) = Wire(b)[k]
<1> DEFINE inverted == 255 - b
           lo == (2 * inverted + 1) % 256
           hi == (inverted \div 128) + 2 * ParityBit(inverted)
<1>1. Encode(SPEED_100K, b).lo = lo /\ Encode(SPEED_100K, b).hi = hi BY DEF Encode
<1>2. lo \in Byte /\ hi \in Byte BY <1>1, EncodeIs
<1>3. inverted \in Byte /\ \A i \in 0 .. 7 : Bit(inverted, i) = 1 - Bit(b, i)
  BY InvertedBits
<1>4. ParityBit(inverted) = 1 - (Ones(b) % 2) BY OnesOfInverted DEF ParityBit
<1>5. Bit(lo, 0) = 1 /\ \A i \in 1 .. 7 : Bit(lo, i) = Bit(inverted, i - 1)
  <2> DEFINE low == IF inverted < 128 THEN inverted ELSE inverted - 128
  <2>1. lo = 2 * low + 1 /\ low \in 0 .. 127 BY <1>3 DEF Byte
  <2>2. lo \div 2 = low /\ lo % 2 = 1 BY <2>1
  <2>3. \A i \in 0 .. 6 : Bit(low, i) = Bit(inverted, i) BY <1>3, WithoutHighest
  <2> HIDE DEF lo, low, inverted
  <2>4. ASSUME NEW i \in 1 .. 7 PROVE Bit(lo, i) = Bit(inverted, i - 1)
    <3>1. i - 1 \in 0 .. 6 /\ (i - 1) + 1 = i OBVIOUS
    <3>2. Bit(lo \div 2, i - 1) = Bit(lo, i) BY <1>2, <3>1, NextBit
    <3> QED BY <2>2, <2>3, <3>1, <3>2
  <2> QED BY <1>2, <2>2, <2>4, NextBit
<1>6. Bit(hi, 0) = Bit(inverted, 7) /\ Bit(hi, 1) = ParityBit(inverted) /\ Bit(hi, 2) = 0
  <2>1. ParityBit(inverted) \in {0, 1} BY <1>4, OnesOfInverted
  <2>2. inverted \div 128 \in {0, 1} /\ Bit(inverted, 7) = inverted \div 128
    BY <1>3, BitIs DEF Byte
  <2> QED BY <1>2, <2>1, <2>2, BitIs DEF Byte
<1>7. /\ Levels(b)[1] = 0 /\ \A k \in 2 .. 9 : Levels(b)[k] = Bit(b, k - 2)
      /\ Levels(b)[10] = Ones(b) % 2 /\ Levels(b)[11] = 1
  BY DEF Levels
<1>8. \A k \in 1 .. 11 : Wire(b)[k] = 1 - Levels(b)[k] BY DEF Wire, Pin
<1>9. ASSUME NEW k \in 1 .. 11
      PROVE  (IF k <= 8 THEN Bit(lo, k - 1) ELSE Bit(hi, k - 9)) = Wire(b)[k]
  <2> HIDE DEF lo, hi, inverted
  <2>1. CASE k = 1 BY <1>5, <1>7, <1>8, <2>1
  <2>2. CASE k \in 2 .. 8
    <3>1. k - 1 \in 1 .. 7 /\ k - 2 \in 0 .. 7 /\ (k - 1) - 1 = k - 2 BY <2>2
    <3> QED BY <1>3, <1>5, <1>7, <1>8, <2>2, <3>1
  <2>3. CASE k = 9 BY <1>3, <1>6, <1>7, <1>8, <2>3
  <2>4. CASE k = 10
    <3>0. Ones(b) \in Nat BY OnesOfInverted
    <3>1. Bit(hi, 1) = 1 - Levels(b)[10] BY <1>4, <1>6, <1>7, <3>0
    <3>2. Wire(b)[10] = 1 - Levels(b)[10] BY <1>8
    <3> QED BY <2>4, <3>1, <3>2
  <2>5. CASE k = 11 BY <1>6, <1>7, <1>8, <2>5
  <2> QED BY <2>1, <2>2, <2>3, <2>4, <2>5
<1> QED BY <1>1, <1>9

-----------------------------------------------------------------------------
(***************************************************************************)
(* Slots.                                                                  *)
(***************************************************************************)
LEMMA Sizes ==
  /\ SLOTS \in Nat /\ SLOTS > 1 /\ SPACE \in Nat /\ SPACE <= SLOTS
  /\ MaxByte \in Nat /\ Content \in [1 .. MaxByte -> Byte]
  /\ \A n \in FrameSizes : n \in Nat /\ n > 0
BY BashAssumption DEF Byte

LEMMA SlotNext ==
  ASSUME tail \in Slots, NEW k \in Nat, k + 1 < SLOTS
  PROVE  /\ Slot(k) \in Slots
         /\ NextSlot(Slot(k)) = Slot(k + 1)
         /\ (NextSlot(tail) + k) % SLOTS = Slot(k + 1)
BY Sizes DEF Slots, Slot, NextSlot

LEMMA SlotFirst == ASSUME tail \in Slots PROVE Slot(0) = tail
BY Sizes DEF Slots, Slot

LEMMA SlotIn == ASSUME tail \in Slots, NEW k \in Nat PROVE Slot(k) \in Slots
BY Sizes DEF Slots, Slot

LEMMA SlotsApart ==
  ASSUME tail \in Slots, NEW j \in Nat, NEW k \in Nat, j < k, k < SLOTS
  PROVE  Slot(j) # Slot(k)
BY Sizes DEF Slots, Slot

LEMMA NextOfLast == ASSUME tail \in Slots PROVE NextSlot(Slot(SLOTS - 1)) = tail
BY Sizes DEF Slots, Slot, NextSlot

LEMMA SpaceMeansRoom ==
  ASSUME tail \in Slots, NEW w \in Nat, w < SLOTS, head = Slot(w), tx_buff_has_space,
         NEW n \in Nat, n < SPACE
  PROVE  w + n < SLOTS
BY Sizes DEF Slots, Slot, tx_buff_has_space, FreeSlots

-----------------------------------------------------------------------------
(***************************************************************************)
(* Which steps there are, and which leave the ring alone.                  *)
(***************************************************************************)
Bits   == TIMER0_COMPA \/ CompbBit \/ OvfBit
Loads  == CompbLoad \/ OvfLoad
Stops  == CompbStop \/ OvfStop
Starts == RxEnd \/ RxTimeout \/ PrepareShift \/ EnableTimer0 \/ SetBusy
Flags  == RxStart \/ TX_MAIN_PAUSE_on \/ TX_MAIN_PAUSE_off \/ telemetry_reset
Gotos  == Elsewhere \/ TestResume \/ TestBusy \/ Callback

LEMMA NextCases ==
  Next => \/ Bits \/ Loads \/ Stops \/ Starts \/ Flags \/ Gotos
          \/ TelemetryUpdate \/ Serial_write \/ PublishHead
BY DEF Next, Timer0, TIMER0_COMPB, TIMER0_OVF, Receive, Work, resumeBashSerial,
       Bits, Loads, Stops, Starts, Flags, Gotos

\* What each group leaves.
LEMMA GroupsLeave ==
  /\ Bits \/ Stops => UNCHANGED <<data, head, tail, protocol_flags2, mode_select, main, frame,
                                   written, gone, UDR0>>
  /\ Loads => UNCHANGED <<data, head, protocol_flags2, mode_select, main, frame, written, busy>>
  /\ Starts => UNCHANGED <<data, head, tail, mode_select, frame, written, gone, UDR0, GPIOR0>>
  /\ Flags \/ Gotos => UNCHANGED <<data, head, tail, shift, mode_select, frame, written, sent>>
<1> USE DEF main, frame, shift, sent, NotOfTimer, NotOfReceive, NotOfStart, Quietly, Goto
<1>1. Bits => UNCHANGED <<data, head, tail, protocol_flags2, mode_select, main, frame,
                         written, gone, UDR0>>
  BY DEF Bits, TIMER0_COMPA, CompbBit, OvfBit
<1>2. Stops => UNCHANGED <<data, head, tail, protocol_flags2, mode_select, main, frame,
                          written, gone, UDR0>>
  BY DEF Stops, CompbStop, OvfStop, Stop, StopAt
<1>3. Loads => UNCHANGED <<data, head, protocol_flags2, mode_select, main, frame, written, busy>>
  BY DEF Loads, CompbLoad, OvfLoad
<1>4. Starts => UNCHANGED <<data, head, tail, mode_select, frame, written, gone, UDR0, GPIOR0>>
  BY DEF Starts, RxEnd, RxTimeout, TxResume, PrepareShift, EnableTimer0, SetBusy
<1>5. Flags => UNCHANGED <<data, head, tail, shift, mode_select, frame, written, sent>>
  BY DEF Flags, RxStart, TX_MAIN_PAUSE_on, TX_MAIN_PAUSE_off, telemetry_reset, RmwFlags2
<1>6. Gotos => UNCHANGED <<data, head, tail, shift, mode_select, frame, written, sent>>
  BY DEF Gotos, Elsewhere, TestResume, TestBusy, Callback
<1> QED BY <1>1, <1>2, <1>3, <1>4, <1>5, <1>6

\* Where the step counter goes.
LEMMA Pauses ==
  /\ Bits \/ Loads \/ Stops => pc' = pc
  /\ Starts \/ Flags \/ Gotos =>
       /\ pc' = "publish" => pc = "publish"
       /\ pc' = "write" => pc = "write" \/ todo # 0
<1> USE DEF main, Goto, AfterResume
<1>1. Bits \/ Loads \/ Stops => pc' = pc BY GroupsLeave
<1>2. Starts => /\ pc' = "publish" => pc = "publish"
                /\ pc' = "write" => pc = "write" \/ todo # 0
  BY DEF Starts, RxEnd, RxTimeout, NotOfReceive, PrepareShift, EnableTimer0, SetBusy
<1>3. Flags => /\ pc' = "publish" => pc = "publish"
               /\ pc' = "write" => pc = "write" \/ todo # 0
  BY DEF Flags, RxStart, NotOfReceive, TX_MAIN_PAUSE_on, TX_MAIN_PAUSE_off, telemetry_reset,
         RmwFlags2
<1>4. Gotos => /\ pc' = "publish" => pc = "publish"
               /\ pc' = "write" => pc = "write" \/ todo # 0
  BY DEF Gotos, Elsewhere, TestResume, TestBusy, Callback
<1> QED BY <1>1, <1>2, <1>3, <1>4

-----------------------------------------------------------------------------
(***************************************************************************)
(* The ring.                                                               *)
(***************************************************************************)
LEMMA WaitingIs ==
  ASSUME TypeOK, RingExact
  PROVE  /\ written \in Nat /\ gone \in Nat /\ written - gone \in Nat /\ written - gone < SLOTS
         /\ tail \in Slots /\ head \in Slots /\ head = Slot(written - gone)
         /\ head # tail => gone < written
<1>1. written \in Nat /\ gone \in Nat /\ gone <= written BY Sizes DEF TypeOK, RingExact
<1>2. tail \in Slots /\ head \in Slots BY DEF TypeOK
<1>3. written = gone => head = tail BY <1>1, <1>2, SlotFirst DEF RingExact
<1> QED BY <1>1, <1>2, <1>3 DEF RingExact

\* The byte that is loaded is the next one.
LEMMA LoadedIs ==
  ASSUME TypeOK, RingExact, head # tail
  PROVE  LET code == Encode(speed, Content[gone + 1])
         IN  data[tail] = [number |-> gone + 1, lo |-> code.lo, hi |-> code.hi]
<1>1. 0 \in 0 .. SLOTS - 1 /\ 0 < written - gone /\ Slot(0) = tail /\ gone + 1 + 0 = gone + 1
  BY Sizes, WaitingIs, SlotFirst
<1>2. Holds(Slot(0), gone + 1 + 0) BY <1>1 DEF RingExact
<1> QED BY <1>1, <1>2 DEF Holds

LEMMA RingStill ==
  ASSUME RingExact, UNCHANGED <<data, head, tail, mode_select, written, gone, UDR0>>,
         pc' = "publish" => pc = "publish"
  PROVE  RingExact'
BY DEF RingExact, Holds, Slot, speed

LEMMA RingLoad ==
  ASSUME TypeOK, RingExact, NEW bits, LoadByte(bits),
         UNCHANGED <<data, head, mode_select, pc, written>>
  PROVE  RingExact'
<1>1. /\ written \in Nat /\ gone \in Nat /\ gone < written /\ written - gone < SLOTS
      /\ tail \in Slots /\ head = Slot(written - gone)
  BY WaitingIs DEF LoadByte
<1>2. tail' = NextSlot(tail) /\ gone' = gone + 1 /\ UDR0' = gone + 1
  BY LoadedIs DEF LoadByte
<1>3. ASSUME NEW k \in Nat, k + 1 < SLOTS PROVE Slot(k)' = Slot(k + 1)
  BY <1>1, <1>2, <1>3, SlotNext DEF Slot
<1>4. head' = Slot(written - gone)'
  <2>1. written' - gone' = (written - gone) - 1 /\ (written - gone) - 1 \in Nat BY <1>1, <1>2
  <2>2. PICK k \in Nat : k = (written - gone) - 1 BY <2>1
  <2>3. k + 1 = written - gone /\ k + 1 < SLOTS BY <1>1, <2>2
  <2>4. Slot(k)' = Slot(written - gone) BY <1>3, <2>3
  <2>5. written' - gone' = k BY <2>1, <2>2
  <2> QED BY <1>1, <2>4, <2>5 DEF Slot
<1>5. ASSUME NEW k \in 0 .. SLOTS - 1, k < written' - gone' PROVE Holds(Slot(k), gone + 1 + k)'
  <2>1. k + 1 \in 0 .. SLOTS - 1 /\ k + 1 < written - gone /\ k \in Nat /\ k + 1 < SLOTS
    BY Sizes, <1>1, <1>2, <1>5
  <2>2. Holds(Slot(k + 1), gone + 1 + (k + 1)) BY <2>1 DEF RingExact
  <2>3. gone' + 1 + k = gone + 1 + (k + 1) BY <1>1, <1>2, <2>1
  <2> QED BY <1>3, <2>1, <2>2, <2>3 DEF Holds, speed
<1>6. pc' = "publish" => written' - gone' < SLOTS - 1 /\ Holds(head, written + 1)'
  BY Sizes, <1>1, <1>2 DEF RingExact, Holds, speed
<1> QED BY Sizes, <1>1, <1>2, <1>4, <1>5, <1>6 DEF RingExact

LEMMA RoomWhenNotFull == ASSUME TypeOK, RingExact, NotFull PROVE written - gone < SLOTS - 1
<1>1. written - gone # SLOTS - 1 BY WaitingIs, NextOfLast DEF NotFull
<1> QED BY <1>1, WaitingIs, Sizes

LEMMA RingWrite == ASSUME TypeOK, RingExact, FramesKept, Serial_write PROVE RingExact'
<1>1. CASE ~NotFull
  BY <1>1, RingStill DEF Serial_write, Goto, Quietly
<1>2. CASE NotFull
  <2>1. /\ data' = [data EXCEPT ![head] = Encoded] /\ pc' = "publish"
        /\ UNCHANGED <<head, tail, written, gone, UDR0, mode_select>>
    BY <1>2 DEF Serial_write, Goto
  <2>2. /\ written \in Nat /\ gone \in Nat /\ written - gone \in Nat
        /\ tail \in Slots /\ head \in Slots /\ head = Slot(written - gone)
    BY WaitingIs
  <2>3. written - gone < SLOTS - 1 BY <1>2, RoomWhenNotFull
  <2>4. data'[head] = Encoded /\ \A slot \in Slots \ {head} : data'[slot] = data[slot]
    BY <2>1, <2>2 DEF TypeOK
  <2>5. Holds(head, written + 1)'
    BY <2>1, <2>4 DEF Holds, Encoded, speed
  <2>6. ASSUME NEW k \in 0 .. SLOTS - 1, k < written - gone PROVE Holds(Slot(k), gone + 1 + k)'
    <3>1. Holds(Slot(k), gone + 1 + k) BY <2>6 DEF RingExact
    <3>2. Slot(k) \in Slots \ {head}
      BY <2>2, <2>3, <2>6, Sizes, SlotsApart, SlotIn
    <3>3. Slot(k)' = Slot(k) BY <2>1 DEF Slot
    <3> QED BY <2>1, <2>4, <3>1, <3>2, <3>3 DEF Holds, speed
  <2>7. head' = Slot(written - gone)' BY <2>1, <2>2 DEF Slot
  <2> QED BY <2>1, <2>3, <2>5, <2>6, <2>7 DEF RingExact
<1> QED BY <1>1, <1>2

LEMMA RingPublish == ASSUME TypeOK, RingExact, PublishHead PROVE RingExact'
<1>1. /\ head' = NextSlot(head) /\ written' = written + 1 /\ pc' = "resume" /\ pc = "publish"
      /\ UNCHANGED <<data, tail, gone, UDR0, mode_select>>
  BY DEF PublishHead, Goto
<1>2. /\ written \in Nat /\ gone \in Nat /\ written - gone \in Nat
      /\ tail \in Slots /\ head = Slot(written - gone)
  BY WaitingIs
<1>3. written - gone < SLOTS - 1 /\ Holds(head, written + 1) BY <1>1 DEF RingExact
<1>4. written' - gone' = (written - gone) + 1 BY <1>1, <1>2
<1>5. head' = Slot(written - gone)'
  <2>1. NextSlot(Slot(written - gone)) = Slot((written - gone) + 1)
    BY <1>2, <1>3, Sizes, SlotNext
  <2> QED BY <1>1, <1>2, <1>4, <2>1 DEF Slot
<1>6. ASSUME NEW k \in 0 .. SLOTS - 1, k < written' - gone' PROVE Holds(Slot(k), gone + 1 + k)'
  <2>1. Slot(k)' = Slot(k) BY <1>1 DEF Slot
  <2>2. CASE k = written - gone
    <3>1. Slot(k) = head /\ gone + 1 + k = written + 1 BY <1>2, <2>2
    <3> QED BY <1>1, <1>3, <2>1, <3>1 DEF Holds, speed
  <2>3. CASE k < written - gone
    <3>1. Holds(Slot(k), gone + 1 + k) BY <2>3 DEF RingExact
    <3> QED BY <1>1, <2>1, <3>1 DEF Holds, speed
  <2> QED BY <1>2, <1>4, <1>6, <2>2, <2>3
<1> QED BY <1>1, <1>2, <1>3, <1>4, <1>5, <1>6, Sizes DEF RingExact

LEMMA RingStep == ASSUME BashInvariant, Next PROVE RingExact'
<1>0. TypeOK /\ RingExact /\ FramesKept BY DEF BashInvariant
<1>1. CASE Bits \/ Stops BY <1>0, <1>1, GroupsLeave, Pauses, RingStill
<1>2. CASE Loads
  <2>1. /\ LoadByte(8) \/ LoadByte(10)
        /\ UNCHANGED <<data, head, mode_select, pc, written>>
    BY <1>2, GroupsLeave DEF Loads, CompbLoad, OvfLoad, main
  <2> QED BY <1>0, <2>1, RingLoad
<1>3. CASE Starts \/ Flags \/ Gotos BY <1>0, <1>3, GroupsLeave, Pauses, RingStill DEF sent
<1>4. CASE TelemetryUpdate BY <1>0, <1>4, RingStill DEF TelemetryUpdate, Goto
<1>5. CASE Serial_write BY <1>0, <1>5, RingWrite
<1>6. CASE PublishHead BY <1>0, <1>6, RingPublish
<1> QED BY NextCases, <1>1, <1>2, <1>3, <1>4, <1>5, <1>6

-----------------------------------------------------------------------------
(***************************************************************************)
(* The frame that is written.                                              *)
(***************************************************************************)
\* A byte of a frame that fits finds a place.
LEMMA PlaceIs ==
  ASSUME TypeOK, RingExact, written - gone + 1 < SLOTS
  PROVE  NotFull
<1>1. /\ written - gone \in Nat /\ (written - gone) + 1 \in Nat
      /\ tail \in Slots /\ head = Slot(written - gone)
  BY WaitingIs
<1>2. NextSlot(head) = Slot((written - gone) + 1) BY <1>1, SlotNext
<1>3. Slot((written - gone) + 1) # Slot(0) BY <1>1, SlotsApart
<1> QED BY <1>1, <1>2, <1>3, SlotFirst DEF NotFull

\* All of FramesKept but its last part.
Fitting ==
  /\ pc \in {"write", "publish"} => todo > 0
  /\ written + todo <= MaxByte
  /\ todo > 0 /\ size < SPACE => written - gone + todo < SLOTS

LEMMA FittingSuffices == ASSUME TypeOK, RingExact, Fitting PROVE FramesKept
<1>1. ASSUME pc = "write", size < SPACE PROVE NotFull
  <2>1. todo > 0 /\ written - gone + todo < SLOTS BY <1>1 DEF Fitting
  <2>2. todo \in Nat /\ written - gone \in Nat BY WaitingIs DEF TypeOK
  <2>3. written - gone + 1 < SLOTS BY <2>1, <2>2, Sizes
  <2> QED BY <2>3, PlaceIs
<1> QED BY <1>1 DEF Fitting, FramesKept

LEMMA FittingStep == ASSUME BashInvariant, Next PROVE Fitting'
<1>0. /\ TypeOK /\ RingExact /\ Fitting
      /\ todo \in Nat /\ size \in Nat /\ written \in Nat /\ gone \in Nat /\ MaxByte \in Nat
      /\ SLOTS \in Nat /\ SPACE \in Nat
  BY Sizes DEF BashInvariant, FramesKept, Fitting, TypeOK
<1>1. CASE Bits \/ Stops BY <1>0, <1>1, GroupsLeave DEF Fitting, main, frame
<1>2. CASE Loads
  <2>1. gone' = gone + 1 /\ UNCHANGED <<pc, todo, size, written>>
    BY <1>2, GroupsLeave DEF Loads, CompbLoad, OvfLoad, LoadByte, main, frame
  <2> QED BY <1>0, <2>1 DEF Fitting
<1>3. CASE Starts \/ Flags \/ Gotos
  <2>1. UNCHANGED <<todo, size, written, gone>> BY <1>3, GroupsLeave DEF frame, sent
  <2>2. pc' \in {"write", "publish"} => todo > 0
    BY <1>0, <1>3, Pauses DEF Fitting
  <2> QED BY <1>0, <2>1, <2>2 DEF Fitting
<1>4. CASE TelemetryUpdate
  <2>1. PICK n \in FrameSizes : written + n <= MaxByte /\ todo' = n /\ size' = n
    BY <1>4 DEF TelemetryUpdate
  <2>2. UNCHANGED <<written, gone>> /\ tx_buff_has_space BY <1>4 DEF TelemetryUpdate, Goto
  <2>3. n \in Nat /\ n > 0 BY Sizes
  <2>4. n < SPACE => (written - gone) + n < SLOTS
    BY <1>0, <2>2, <2>3, WaitingIs, SpaceMeansRoom
  <2> QED BY <1>0, <2>1, <2>2, <2>3, <2>4 DEF Fitting
<1>5. CASE Serial_write
  <2>1. CASE NotFull
    BY <1>0, <1>5, <2>1 DEF Serial_write, Goto, Fitting
  <2>2. CASE ~NotFull
    <3>1. /\ pc' = "resume" /\ todo' = todo - 1 /\ UNCHANGED <<size, written, gone>>
          /\ todo > 0
      BY <1>0, <1>5, <2>2 DEF Serial_write, Goto, Fitting
    <3> QED BY <1>0, <3>1 DEF Fitting
  <2> QED BY <2>1, <2>2
<1>6. CASE PublishHead
  <2>1. /\ pc' = "resume" /\ todo' = todo - 1 /\ written' = written + 1
        /\ UNCHANGED <<size, gone>> /\ todo > 0
    BY <1>0, <1>6 DEF PublishHead, Goto, Fitting
  <2> QED BY <1>0, <2>1 DEF Fitting
<1> QED BY NextCases, <1>1, <1>2, <1>3, <1>4, <1>5, <1>6

-----------------------------------------------------------------------------
(***************************************************************************)
(* Types.                                                                  *)
(***************************************************************************)
RingTypes ==
  /\ data \in [Slots -> [number : 0 .. MaxByte, lo : Byte, hi : Byte]]
  /\ head \in Slots /\ tail \in Slots
  /\ todo \in 0 .. MaxByte /\ size \in 0 .. MaxByte
  /\ written \in 0 .. MaxByte /\ gone \in 0 .. MaxByte /\ UDR0 \in 0 .. MaxByte
FlagTypes ==
  /\ protocol_flags2 \subseteq {"TX_MAIN_PAUSE", "TX_RX_PAUSE"}
  /\ reg \subseteq {"TX_MAIN_PAUSE", "TX_RX_PAUSE"}
  /\ half \in {"load", "store"} /\ mode_select \in Modes
ShiftTypes ==
  /\ busy \in {0, 1} /\ idle \in BOOLEAN
  /\ GPIOR0 \in Byte /\ GPIOR2 \in Byte /\ GPIOR1 \in 0 .. 10
LineTypes == line \in Seq({0, 1}) /\ Len(line) <= 10

LEMMA TypeParts == TypeOK <=> RingTypes /\ FlagTypes /\ ShiftTypes /\ LineTypes
<1>1. ({head, tail} \subseteq Slots) <=> (head \in Slots /\ tail \in Slots) OBVIOUS
<1>2. ({GPIOR0, GPIOR2} \subseteq 0 .. 255) <=> (GPIOR0 \in Byte /\ GPIOR2 \in Byte)
  BY DEF Byte
<1>3. ({protocol_flags2, reg} \subseteq SUBSET {"TX_MAIN_PAUSE", "TX_RX_PAUSE"})
        <=> /\ (protocol_flags2 \subseteq {"TX_MAIN_PAUSE", "TX_RX_PAUSE"})
            /\ (reg \subseteq {"TX_MAIN_PAUSE", "TX_RX_PAUSE"})
  OBVIOUS
<1>4. ({todo, size, written, gone, UDR0} \subseteq 0 .. MaxByte)
        <=> /\ (todo \in 0 .. MaxByte) /\ (size \in 0 .. MaxByte)
            /\ (written \in 0 .. MaxByte) /\ (gone \in 0 .. MaxByte)
            /\ (UDR0 \in 0 .. MaxByte)
  OBVIOUS
<1>5. TypeOK => RingTypes /\ FlagTypes /\ ShiftTypes /\ LineTypes
  BY <1>1, <1>2, <1>3, <1>4 DEF TypeOK, RingTypes, FlagTypes, ShiftTypes, LineTypes, Byte
<1>6. RingTypes /\ FlagTypes /\ ShiftTypes /\ LineTypes => TypeOK
  BY <1>1, <1>2, <1>3, <1>4 DEF TypeOK, RingTypes, FlagTypes, ShiftTypes, LineTypes, Byte
<1> QED BY <1>5, <1>6

LEMMA TypePartsPrimed == TypeOK' <=> RingTypes' /\ FlagTypes' /\ ShiftTypes' /\ LineTypes'
<1>1. ({head, tail} \subseteq Slots)' <=> (head \in Slots /\ tail \in Slots)' OBVIOUS
<1>2. ({GPIOR0, GPIOR2} \subseteq 0 .. 255)' <=> (GPIOR0 \in Byte /\ GPIOR2 \in Byte)'
  BY DEF Byte
<1>3. ({protocol_flags2, reg} \subseteq SUBSET {"TX_MAIN_PAUSE", "TX_RX_PAUSE"})'
        <=> /\ (protocol_flags2 \subseteq {"TX_MAIN_PAUSE", "TX_RX_PAUSE"})'
            /\ (reg \subseteq {"TX_MAIN_PAUSE", "TX_RX_PAUSE"})'
  OBVIOUS
<1>4. ({todo, size, written, gone, UDR0} \subseteq 0 .. MaxByte)'
        <=> /\ (todo \in 0 .. MaxByte)' /\ (size \in 0 .. MaxByte)'
            /\ (written \in 0 .. MaxByte)' /\ (gone \in 0 .. MaxByte)'
            /\ (UDR0 \in 0 .. MaxByte)'
  OBVIOUS
<1>5. TypeOK' => RingTypes' /\ FlagTypes' /\ ShiftTypes' /\ LineTypes'
  BY <1>1, <1>2, <1>3, <1>4 DEF TypeOK, RingTypes, FlagTypes, ShiftTypes, LineTypes, Byte
<1>6. RingTypes' /\ FlagTypes' /\ ShiftTypes' /\ LineTypes' => TypeOK'
  BY <1>1, <1>2, <1>3, <1>4 DEF TypeOK, RingTypes, FlagTypes, ShiftTypes, LineTypes, Byte
<1> QED BY <1>5, <1>6

LEMMA ContentIs ==
  ASSUME NEW n \in 1 .. MaxByte, NEW s
  PROVE  LET code == Encode(s, Content[n])
         IN  Content[n] \in Byte /\ code.lo \in Byte /\ code.hi \in Byte
BY Sizes, EncodeIs

LEMMA RingTypesStep == ASSUME BashInvariant, Next PROVE RingTypes'
<1>0. TypeOK /\ RingExact /\ Fitting /\ RingTypes
  BY TypeParts DEF BashInvariant, FramesKept, Fitting
<1>c. /\ todo \in Nat /\ written \in Nat /\ MaxByte \in Nat /\ SLOTS \in Nat /\ SLOTS > 1
  BY <1>0, Sizes DEF RingTypes
<1>n. \A slot \in Slots : NextSlot(slot) \in Slots BY <1>c DEF Slots, NextSlot
<1>1. CASE Bits \/ Stops BY <1>0, <1>1, GroupsLeave DEF RingTypes, frame
<1>2. CASE Loads
  <2>1. /\ tail' = NextSlot(tail) /\ gone' = gone + 1 /\ UDR0' = data[tail].number
        /\ UNCHANGED <<data, head, todo, size, written>> /\ head # tail
    BY <1>2, GroupsLeave DEF Loads, CompbLoad, OvfLoad, LoadByte, frame
  <2>2. gone + 1 \in 0 .. MaxByte /\ data[tail].number \in 0 .. MaxByte
    BY <1>0, <1>c, <2>1, WaitingIs DEF RingTypes
  <2> QED BY <1>0, <1>n, <2>1, <2>2 DEF RingTypes
<1>3. CASE Starts \/ Flags \/ Gotos BY <1>0, <1>3, GroupsLeave DEF RingTypes, frame, sent
<1>4. CASE TelemetryUpdate
  <2>1. PICK n \in FrameSizes : written + n <= MaxByte /\ todo' = n /\ size' = n
    BY <1>4 DEF TelemetryUpdate
  <2>2. n \in 0 .. MaxByte BY <1>c, <2>1, Sizes
  <2> QED BY <1>0, <1>4, <2>1, <2>2 DEF TelemetryUpdate, Goto, RingTypes
<1>5. CASE Serial_write
  <2>0. todo > 0 /\ written + 1 \in 1 .. MaxByte /\ todo - 1 \in 0 .. MaxByte
    BY <1>0, <1>5, <1>c DEF Serial_write, Goto, Fitting
  <2>1. CASE NotFull
    <3>1. Encoded \in [number : 0 .. MaxByte, lo : Byte, hi : Byte]
      BY <2>0, ContentIs DEF Encoded
    <3> QED BY <1>0, <1>5, <2>1, <3>1 DEF Serial_write, Goto, RingTypes
  <2>2. CASE ~NotFull
    BY <1>0, <1>5, <2>0, <2>2 DEF Serial_write, Goto, RingTypes
  <2> QED BY <2>1, <2>2
<1>6. CASE PublishHead
  <2>0. todo > 0 /\ written + 1 \in 0 .. MaxByte /\ todo - 1 \in 0 .. MaxByte
    BY <1>0, <1>6, <1>c DEF PublishHead, Goto, Fitting
  <2> QED BY <1>0, <1>6, <1>n, <2>0 DEF PublishHead, Goto, RingTypes
<1> QED BY NextCases, <1>1, <1>2, <1>3, <1>4, <1>5, <1>6

LEMMA FlagTypesStep == ASSUME BashInvariant, Next PROVE FlagTypes'
<1>0. FlagTypes BY TypeParts DEF BashInvariant
<1>1. CASE Bits \/ Stops \/ Loads BY <1>0, <1>1, GroupsLeave DEF FlagTypes, main
<1>2. CASE Starts
  BY <1>0, <1>2
     DEF Starts, RxEnd, RxTimeout, NotOfReceive, PrepareShift, EnableTimer0, SetBusy,
         NotOfStart, Goto, main, FlagTypes
<1>3. CASE Flags
  <2>1. CASE RxStart BY <1>0, <2>1 DEF RxStart, NotOfReceive, main, FlagTypes
  <2>2. ASSUME NEW step, NEW next, RmwFlags2(step, next, {"TX_MAIN_PAUSE"}, {})
        PROVE  FlagTypes'
    BY <1>0, <2>2 DEF RmwFlags2, FlagTypes
  <2>3. ASSUME NEW step, NEW next, NEW off, RmwFlags2(step, next, {}, off) PROVE FlagTypes'
    BY <1>0, <2>3 DEF RmwFlags2, FlagTypes
  <2> QED BY <1>3, <2>1, <2>2, <2>3
          DEF Flags, TX_MAIN_PAUSE_on, TX_MAIN_PAUSE_off, telemetry_reset
<1>4. CASE Gotos
  BY <1>0, <1>4 DEF Gotos, Elsewhere, TestResume, TestBusy, Callback, NotOfStart, Goto, FlagTypes
<1>5. CASE TelemetryUpdate \/ Serial_write \/ PublishHead
  BY <1>0, <1>5 DEF TelemetryUpdate, Serial_write, PublishHead, Goto, FlagTypes
<1> QED BY NextCases, <1>1, <1>2, <1>3, <1>4, <1>5

\* Which interrupts there are in which mode, and how far they are.
LEMMA InterruptIs ==
  ASSUME BashInvariant
  PROVE  /\ "OCIE0A" \in TIMSK0 => /\ mode_select = MODE_SERIAL /\ "OCIE0B" \in TIMSK0 /\ ~Starting
                                   /\ ~idle /\ GPIOR1 \in 1 .. 8 /\ Len(line) = 8 - GPIOR1
         /\ BDue => /\ mode_select = MODE_SERIAL /\ ~Starting
                    /\ idle => GPIOR1 = 1 /\ GPIOR2 = 0 /\ line = <<>>
                    /\ ~idle => GPIOR1 \in 1 .. 3 /\ Len(line) = 11 - GPIOR1
         /\ "TOIE0" \in TIMSK0 => /\ mode_select # MODE_SERIAL /\ pc \notin {"prepare", "arm"}
                                  /\ idle => GPIOR1 = 1 /\ line = <<>>
                                  /\ ~idle => GPIOR1 \in 1 .. 10 /\ Len(line) = 10 - GPIOR1
<1> USE DEF BashInvariant
<1>1. mode_select = MODE_SERIAL => TIMSK0 \subseteq {"OCIE0A", "OCIE0B"} BY DEF CompareInTurn
<1>2. mode_select # MODE_SERIAL => TIMSK0 \subseteq {"TOIE0"} BY DEF OverflowAlone
<1>3. "OCIE0A" \in TIMSK0 \/ BDue => mode_select = MODE_SERIAL BY <1>2 DEF BDue
<1>4. "TOIE0" \in TIMSK0 => mode_select # MODE_SERIAL BY <1>1
<1>5. mode_select = MODE_SERIAL => speed = SPEED_100K BY DEF speed
<1>6. ASSUME BDue
      PROVE  /\ mode_select = MODE_SERIAL /\ ~Starting
             /\ idle => GPIOR1 = 1 /\ GPIOR2 = 0 /\ line = <<>>
             /\ ~idle => GPIOR1 \in 1 .. 3 /\ Len(line) = 11 - GPIOR1
  BY <1>3, <1>5, <1>6 DEF CompareInTurn, BDue
<1>7. ASSUME "OCIE0A" \in TIMSK0
      PROVE  /\ mode_select = MODE_SERIAL /\ "OCIE0B" \in TIMSK0 /\ ~Starting /\ ~idle
             /\ GPIOR1 \in 1 .. 8 /\ Len(line) = 8 - GPIOR1
  BY <1>3, <1>7 DEF CompareInTurn
<1>8. ASSUME "TOIE0" \in TIMSK0
      PROVE  /\ mode_select # MODE_SERIAL /\ pc \notin {"prepare", "arm"}
             /\ idle => GPIOR1 = 1 /\ line = <<>>
             /\ ~idle => GPIOR1 \in 1 .. 10 /\ Len(line) = 10 - GPIOR1
  BY <1>4, <1>8 DEF OverflowAlone
<1> QED BY <1>6, <1>7, <1>8

LEMMA ShiftTypesStep == ASSUME BashInvariant, Next PROVE ShiftTypes'
<1>0. TypeOK /\ RingTypes /\ ShiftTypes BY TypeParts DEF BashInvariant
<1>b. \A b \in Byte : b \div 2 \in Byte BY NextBit
<1>1. CASE Bits
  <2>1. GPIOR1' \in 0 .. 10 BY <1>0, <1>1, InterruptIs
     DEF Bits, TIMER0_COMPA, CompbBit, OvfBit, BitsOfB, ShiftTypes
  <2> QED BY <1>0, <1>b, <1>1, <2>1 DEF Bits, TIMER0_COMPA, CompbBit, OvfBit, ShiftTypes
<1>2. CASE Loads
  <2>1. data[tail] \in [number : 0 .. MaxByte, lo : Byte, hi : Byte] BY <1>0 DEF RingTypes
  <2>2. /\ GPIOR0' = data[tail].lo /\ GPIOR2' = data[tail].hi /\ GPIOR1' \in {8, 10}
        /\ busy' = busy /\ idle' = FALSE
    BY <1>2 DEF Loads, CompbLoad, OvfLoad, LoadByte
  <2>3. tail \in Slots BY <1>0 DEF RingTypes
  <2>4. idle' \in BOOLEAN BY <2>2
  <2>5. GPIOR0' \in Byte /\ GPIOR2' \in Byte /\ GPIOR1' \in 0 .. 10 BY <2>1, <2>2, <2>3
  <2>6. busy' \in {0, 1} BY <1>0, <2>2 DEF ShiftTypes
  <2> QED BY <2>4, <2>5, <2>6 DEF ShiftTypes
<1>3. CASE Stops
  <2>1. /\ GPIOR0' = GPIOR0 /\ GPIOR2' = GPIOR2 \div 2 /\ GPIOR1' = 0
        /\ busy' = 0 /\ idle' = TRUE
    BY <1>3 DEF Stops, CompbStop, OvfStop, Stop, StopAt
  <2> QED BY <1>0, <1>b, <2>1 DEF ShiftTypes
<1>4. CASE Starts
  <2>1. 0 \in Byte BY DEF Byte
  <2>2. /\ GPIOR0' = GPIOR0 /\ GPIOR2' \in {0, GPIOR2} /\ GPIOR1' \in {1, GPIOR1}
        /\ busy' \in {1, busy} /\ (idle' = idle \/ idle' = TRUE)
    BY <1>4 DEF Starts, RxEnd, RxTimeout, TxResume, Prepare, PrepareShift,
             EnableTimer0, SetBusy, NotOfStart, Goto
  <2>3. idle' \in BOOLEAN BY <1>0, <2>2 DEF ShiftTypes
  <2>4. GPIOR0' \in Byte /\ GPIOR2' \in Byte /\ GPIOR1' \in 0 .. 10 /\ busy' \in {0, 1}
    BY <1>0, <2>1, <2>2 DEF ShiftTypes
  <2> QED BY <2>3, <2>4 DEF ShiftTypes
<1>5. CASE Flags \/ Gotos BY <1>0, <1>5, GroupsLeave DEF shift, sent, ShiftTypes
<1>6. CASE TelemetryUpdate \/ Serial_write \/ PublishHead
  BY <1>0, <1>6 DEF TelemetryUpdate, Serial_write, PublishHead, Goto, Quietly, ShiftTypes
<1> QED BY NextCases, <1>1, <1>2, <1>3, <1>4, <1>5, <1>6

LEMMA LowestIs ==
  ASSUME NEW b \in Byte, Lowest(b), line \in Seq({0, 1})
  PROVE  /\ line' \in Seq({0, 1}) /\ Len(line) \in Nat /\ Len(line') = Len(line) + 1
         /\ \A k \in 1 .. Len(line) : line'[k] = line[k]
         /\ line'[Len(line) + 1] = Bit(b, 0)
<1>1. b % 2 = Bit(b, 0) BY NextBit
<1>2. b % 2 \in {0, 1} BY DEF Byte
<1> QED BY <1>1, <1>2 DEF Lowest

LEMMA EmptyLine == \A l : l = <<>> => l \in Seq({0, 1}) /\ Len(l) = 0
OBVIOUS

LEMMA LineTypesStep == ASSUME BashInvariant, Next PROVE LineTypes'
<1>0. ShiftTypes /\ LineTypes BY TypeParts DEF BashInvariant
<1>1. CASE Bits
  <2>1. Lowest(GPIOR0) \/ Lowest(GPIOR2) BY <1>1 DEF Bits, TIMER0_COMPA, CompbBit, OvfBit
  <2>2. line' \in Seq({0, 1}) /\ Len(line') = Len(line) + 1 /\ Len(line) \in Nat
    BY <1>0, <2>1, LowestIs DEF ShiftTypes, LineTypes
  <2>3. Len(line) <= 9
    BY <1>0, <1>1, <2>2, InterruptIs DEF Bits, TIMER0_COMPA, CompbBit, OvfBit
  <2> QED BY <2>2, <2>3 DEF LineTypes
<1>2. CASE Loads BY <1>2, EmptyLine DEF Loads, CompbLoad, OvfLoad, LoadByte, LineTypes
<1>3. CASE Stops BY <1>3, EmptyLine DEF Stops, CompbStop, OvfStop, Stop, StopAt, LineTypes
<1>4. CASE Starts
  <2>1. line' = <<>> \/ line' = line
    BY <1>4 DEF Starts, RxEnd, RxTimeout, TxResume, Prepare, PrepareShift, EnableTimer0,
                SetBusy, NotOfStart
  <2> QED BY <1>0, <2>1, EmptyLine DEF LineTypes
<1>5. CASE Flags \/ Gotos BY <1>0, <1>5, GroupsLeave DEF sent, LineTypes
<1>6. CASE TelemetryUpdate \/ Serial_write \/ PublishHead
  BY <1>0, <1>6 DEF TelemetryUpdate, Serial_write, PublishHead, Quietly, LineTypes
<1> QED BY NextCases, <1>1, <1>2, <1>3, <1>4, <1>5, <1>6

-----------------------------------------------------------------------------
(***************************************************************************)
(* The interrupts take turns.                                              *)
(***************************************************************************)
\* Steps of the main program that have nothing to do with a start.
LEMMA NotStarting ==
  /\ Flags \/ Callback \/ Elsewhere \/ TestResume \/ TelemetryUpdate \/ Serial_write \/ PublishHead =>
       /\ UNCHANGED <<shift, mode_select, idle, line>>
       /\ Starting' <=> Starting
       /\ pc' = "arm" <=> pc = "arm"
       /\ pc' = "busy" <=> pc = "busy"
<1> USE DEF Starting, Goto, AfterResume, shift, sent, main, Quietly, NotOfStart
<1>1. CASE Flags
  <2>1. UNCHANGED <<shift, mode_select, idle, line>> BY <1>1, GroupsLeave
  <2>2. pc' = pc \/ {pc, pc'} \cap {"prepare", "arm", "busy"} = {}
    BY <1>1 DEF Flags, RxStart, NotOfReceive, TX_MAIN_PAUSE_on, TX_MAIN_PAUSE_off,
                telemetry_reset, RmwFlags2
  <2> QED BY <2>1, <2>2
<1>2. CASE Callback \/ Elsewhere \/ TestResume
  BY <1>2 DEF Callback, Elsewhere, TestResume
<1>3. CASE TelemetryUpdate \/ Serial_write \/ PublishHead
  BY <1>3 DEF TelemetryUpdate, Serial_write, PublishHead
<1> QED BY <1>1, <1>2, <1>3

LEMMA EmptyLen == \A l : l = <<>> => Len(l) = 0
OBVIOUS

LEMMA TurnStep == ASSUME BashInvariant, Next, mode_select = MODE_SERIAL PROVE CompareInTurn'
<1>0. ShiftTypes /\ LineTypes /\ CompareInTurn BY TypeParts DEF BashInvariant
<1>s. mode_select' = MODE_SERIAL /\ speed = SPEED_100K
  BY NextCases, GroupsLeave DEF TelemetryUpdate, Serial_write, PublishHead, Goto, speed
<1>1. CASE TIMER0_COMPA
  <2>1. /\ "OCIE0A" \in TIMSK0 /\ "OCIE0B" \in TIMSK0 /\ ~Starting /\ ~idle
        /\ GPIOR1 \in 1 .. 8 /\ Len(line) = 8 - GPIOR1
    BY <1>1, InterruptIs DEF TIMER0_COMPA
  <2>2. Len(line') = Len(line) + 1
    BY <1>0, <1>1, LowestIs DEF TIMER0_COMPA, ShiftTypes, LineTypes
  <2>3. UNCHANGED <<busy, idle, pc>> BY <1>1 DEF TIMER0_COMPA, NotOfTimer, main
  <2>4. Starting' <=> Starting BY <2>3 DEF Starting
  <2>5. CASE GPIOR1 = 1
    <3>1. GPIOR1' = 3 /\ TIMSK0' = TIMSK0 \ {"OCIE0A"} BY <1>1, <2>5 DEF TIMER0_COMPA, BitsOfB
    <3> QED BY <1>0, <1>s, <2>1, <2>2, <2>3, <2>4, <2>5, <3>1 DEF CompareInTurn, Starting
  <2>6. CASE GPIOR1 # 1
    <3>1. GPIOR1' = GPIOR1 - 1 /\ TIMSK0' = TIMSK0 BY <1>1, <2>6 DEF TIMER0_COMPA
    <3> QED BY <1>0, <1>s, <2>1, <2>2, <2>3, <2>4, <2>6, <3>1 DEF CompareInTurn, Starting
  <2> QED BY <2>5, <2>6
<1>2. CASE CompbBit
  <2>1. ~Starting /\ ~idle /\ GPIOR1 \in 2 .. 3 /\ Len(line) = 11 - GPIOR1
        /\ "OCIE0B" \in TIMSK0 /\ "OCIE0A" \notin TIMSK0
    BY <1>2, InterruptIs DEF CompbBit, BDue
  <2>2. Len(line') = Len(line) + 1
    BY <1>0, <1>2, LowestIs DEF CompbBit, ShiftTypes, LineTypes
  <2>3. UNCHANGED <<busy, idle, pc, TIMSK0>> /\ GPIOR1' = GPIOR1 - 1
    BY <1>2 DEF CompbBit, NotOfTimer, main
  <2> QED BY <1>0, <1>s, <2>1, <2>2, <2>3 DEF CompareInTurn, Starting
<1>3. CASE CompbLoad
  <2>1. ~Starting /\ "OCIE0B" \in TIMSK0 BY <1>3, InterruptIs DEF CompbLoad, BDue
  <2>2. /\ UNCHANGED <<busy, pc>> /\ TIMSK0' = TIMSK0 \cup {"OCIE0A"} /\ GPIOR1' = 8
        /\ idle' = FALSE /\ line' = <<>>
    BY <1>3 DEF CompbLoad, LoadByte, NotOfTimer, main
  <2>3. Len(line') = 0 BY <2>2, EmptyLen
  <2> QED BY <1>0, <1>s, <2>1, <2>2, <2>3 DEF CompareInTurn, Starting
<1>4. CASE CompbStop
  <2>1. ~Starting /\ "OCIE0A" \notin TIMSK0 BY <1>4, InterruptIs DEF CompbStop, BDue
  <2>2. /\ pc' = pc /\ TIMSK0' = TIMSK0 \ {"OCIE0B"} /\ busy' = 0
        /\ idle' = TRUE /\ line' = <<>>
    BY <1>4 DEF CompbStop, Stop, StopAt, NotOfTimer, main
  <2> QED BY <1>0, <1>s, <2>1, <2>2 DEF CompareInTurn, Starting
<1>5. CASE OvfBit \/ OvfLoad \/ OvfStop
  BY <1>5, InterruptIs DEF OvfBit, OvfLoad, OvfStop
<1>6. CASE RxEnd \/ RxTimeout
  <2>1. pc' = pc BY <1>6 DEF RxEnd, RxTimeout, NotOfReceive, main
  <2>2. CASE UNCHANGED <<GPIOR1, GPIOR2, TIMSK0, busy, idle, line>>
    BY <1>0, <1>s, <2>1, <2>2 DEF CompareInTurn, Starting
  <2>3. CASE busy = 0 /\ Prepare /\ TIMSK0' = TIMSK0 \cup {"OCIE0B"} /\ busy' = 1
    <3>1. "OCIE0A" \notin TIMSK0 BY <1>0, <2>3, InterruptIs DEF CompareInTurn, Starting
    <3> QED BY <1>0, <1>s, <2>1, <2>3, <3>1 DEF CompareInTurn, Starting, Prepare
  <2> QED BY <1>6, <2>2, <2>3 DEF RxEnd, RxTimeout, TxResume
<1>7. CASE PrepareShift
  <2>1. /\ pc = "prepare" /\ pc' = "arm" /\ GPIOR2' = 0 /\ GPIOR1' = 1 /\ idle' = TRUE
        /\ line' = <<>> /\ UNCHANGED <<TIMSK0, busy>>
    BY <1>7 DEF PrepareShift, Prepare, Goto
  <2>2. "OCIE0A" \notin TIMSK0 BY <2>1, InterruptIs DEF Starting
  <2> QED BY <1>0, <1>s, <2>1, <2>2 DEF CompareInTurn, Starting
<1>8. CASE EnableTimer0
  <2>1. /\ pc = "arm" /\ pc' = "busy" /\ TIMSK0' = TIMSK0 \cup {"OCIE0B"}
        /\ UNCHANGED <<GPIOR1, GPIOR2, busy, idle, line>>
    BY <1>8, <1>s DEF EnableTimer0, Interrupt, Goto
  <2>2. "OCIE0A" \notin TIMSK0 BY <2>1, InterruptIs DEF Starting
  <2> QED BY <1>0, <1>s, <2>1, <2>2 DEF CompareInTurn, Starting
<1>9. CASE SetBusy
  <2>1. /\ pc = "busy" /\ pc' \in {"loop", "write"} /\ busy' = 1
        /\ UNCHANGED <<GPIOR1, GPIOR2, TIMSK0, idle, line>>
    BY <1>9 DEF SetBusy, Goto, AfterResume
  <2>2. "OCIE0A" \notin TIMSK0 BY <2>1, InterruptIs DEF Starting
  <2> QED BY <1>0, <1>s, <2>1, <2>2 DEF CompareInTurn, Starting
<1>10. CASE TestBusy
  <2>1. /\ pc = "start" /\ UNCHANGED <<GPIOR1, GPIOR2, TIMSK0, busy, idle, line>>
        /\ pc' \in {"prepare", "loop", "write"}
        /\ pc' = "prepare" => busy = 0
    BY <1>10 DEF TestBusy, Goto, AfterResume, Quietly
  <2> QED BY <1>0, <1>s, <2>1 DEF CompareInTurn, Starting
<1>11. CASE \/ Flags \/ Callback \/ Elsewhere \/ TestResume \/ TelemetryUpdate
            \/ Serial_write \/ PublishHead
  BY <1>0, <1>s, <1>11, NotStarting DEF CompareInTurn, Starting, shift
<1> QED
  BY NextCases, <1>1, <1>2, <1>3, <1>4, <1>5, <1>6, <1>7, <1>8, <1>9, <1>10, <1>11
     DEF Bits, Loads, Stops, Starts, Gotos

LEMMA OverflowStep == ASSUME BashInvariant, Next, mode_select # MODE_SERIAL PROVE OverflowAlone'
<1>0. ShiftTypes /\ LineTypes /\ OverflowAlone BY TypeParts DEF BashInvariant
<1>s. mode_select' # MODE_SERIAL /\ speed # SPEED_100K
  BY NextCases, GroupsLeave
     DEF TelemetryUpdate, Serial_write, PublishHead, Goto, speed, SPEED_100K, SPEED_9600
<1>1. CASE TIMER0_COMPA \/ CompbBit \/ CompbLoad \/ CompbStop
  BY <1>1, InterruptIs DEF TIMER0_COMPA, CompbBit, CompbLoad, CompbStop
<1>2. CASE RxEnd \/ RxTimeout BY <1>2 DEF RxEnd, RxTimeout
<1>3. CASE OvfBit
  <2>1. /\ ~idle /\ GPIOR1 \in 2 .. 10 /\ Len(line) = 10 - GPIOR1 /\ pc \notin {"prepare", "arm"}
        /\ "TOIE0" \in TIMSK0
    BY <1>3, InterruptIs DEF OvfBit
  <2>2. Len(line') = Len(line) + 1
    BY <1>0, <1>3, LowestIs DEF OvfBit, ShiftTypes, LineTypes
  <2>3. UNCHANGED <<busy, idle, pc, TIMSK0>> /\ GPIOR1' = GPIOR1 - 1
    BY <1>3 DEF OvfBit, NotOfTimer, main
  <2> QED BY <1>0, <1>s, <2>1, <2>2, <2>3 DEF OverflowAlone
<1>4. CASE OvfLoad
  <2>1. pc \notin {"prepare", "arm"} /\ "TOIE0" \in TIMSK0 BY <1>4, InterruptIs DEF OvfLoad
  <2>2. UNCHANGED <<busy, pc, TIMSK0>> /\ GPIOR1' = 10 /\ idle' = FALSE /\ line' = <<>>
    BY <1>4 DEF OvfLoad, LoadByte, NotOfTimer, main
  <2>3. Len(line') = 0 BY <2>2, EmptyLen
  <2> QED BY <1>0, <1>s, <2>1, <2>2, <2>3 DEF OverflowAlone
<1>5. CASE OvfStop
  <2>1. pc \notin {"prepare", "arm"} BY <1>5, InterruptIs DEF OvfStop
  <2>2. /\ pc' = pc /\ TIMSK0' = TIMSK0 \ {"TOIE0"} /\ idle' = TRUE /\ line' = <<>>
    BY <1>5 DEF OvfStop, Stop, StopAt, NotOfTimer, main
  <2> QED BY <1>0, <1>s, <2>1, <2>2 DEF OverflowAlone
<1>6. CASE PrepareShift
  <2>1. /\ pc = "prepare" /\ pc' = "arm" /\ GPIOR1' = 1 /\ idle' = TRUE
        /\ line' = <<>> /\ UNCHANGED <<TIMSK0, busy>>
    BY <1>6 DEF PrepareShift, Prepare, Goto
  <2> QED BY <1>0, <1>s, <2>1 DEF OverflowAlone
<1>7. CASE EnableTimer0
  <2>1. /\ pc = "arm" /\ pc' = "busy" /\ TIMSK0' = TIMSK0 \cup {"TOIE0"}
        /\ UNCHANGED <<GPIOR1, busy, idle, line>>
    BY <1>7, <1>s DEF EnableTimer0, Interrupt, Goto
  <2> QED BY <1>0, <1>s, <2>1 DEF OverflowAlone
<1>8. CASE SetBusy
  <2>1. /\ pc' \in {"loop", "write"} /\ busy' = 1 /\ UNCHANGED <<GPIOR1, TIMSK0, idle, line>>
    BY <1>8 DEF SetBusy, Goto, AfterResume
  <2> QED BY <1>0, <1>s, <2>1 DEF OverflowAlone
<1>9. CASE TestBusy
  <2>1. /\ pc = "start" /\ UNCHANGED <<GPIOR1, TIMSK0, busy, idle, line>>
        /\ pc' \in {"prepare", "loop", "write"}
        /\ pc' = "prepare" => busy = 0
    BY <1>9 DEF TestBusy, Goto, AfterResume, Quietly
  <2> QED BY <1>0, <1>s, <2>1 DEF OverflowAlone
<1>10. CASE \/ Flags \/ Callback \/ Elsewhere \/ TestResume \/ TelemetryUpdate
            \/ Serial_write \/ PublishHead
  BY <1>0, <1>s, <1>10, NotStarting DEF OverflowAlone, Starting, shift
<1> QED
  BY NextCases, <1>1, <1>2, <1>3, <1>4, <1>5, <1>6, <1>7, <1>8, <1>9, <1>10
     DEF Bits, Loads, Stops, Starts, Gotos

-----------------------------------------------------------------------------
(***************************************************************************)
(* The byte on the pin.                                                    *)
(***************************************************************************)
LEMMA ComingStill ==
  ASSUME UNCHANGED <<line, TIMSK0, GPIOR0, GPIOR2>>, NEW k PROVE Coming(k)' = Coming(k)
BY DEF Coming

LEMMA ComingA ==
  ASSUME BashInvariant, TIMER0_COMPA, NEW k \in 1 .. 11
  PROVE  Coming(k)' = Coming(k)
<1>0. ShiftTypes /\ LineTypes BY TypeParts DEF BashInvariant
<1>1. "OCIE0A" \in TIMSK0 /\ GPIOR1 \in 1 .. 8 /\ Len(line) = 8 - GPIOR1 /\ GPIOR0 \in Byte
  BY <1>0, InterruptIs DEF TIMER0_COMPA, ShiftTypes
<1>2. /\ Len(line') = Len(line) + 1 /\ \A j \in 1 .. Len(line) : line'[j] = line[j]
      /\ line'[Len(line) + 1] = Bit(GPIOR0, 0)
  BY <1>0, LowestIs DEF TIMER0_COMPA, ShiftTypes, LineTypes
<1>3. GPIOR0' = GPIOR0 \div 2 /\ GPIOR2' = GPIOR2 /\ pc' = pc
  BY DEF TIMER0_COMPA, NotOfTimer, main
<1>4. GPIOR1 # 1 => "OCIE0A" \in TIMSK0' BY <1>1 DEF TIMER0_COMPA
<1>5. GPIOR1 = 1 => "OCIE0A" \notin TIMSK0' BY DEF TIMER0_COMPA
<1>6. CASE k <= Len(line) BY <1>1, <1>2, <1>6 DEF Coming
<1>7. CASE k = Len(line) + 1
  <2>1. k - 1 - Len(line) = 0 /\ k <= 8 BY <1>1, <1>7
  <2>2. Coming(k) = Bit(GPIOR0, 0) BY <1>1, <1>7, <2>1 DEF Coming
  <2>3. Coming(k)' = line'[Len(line) + 1] BY <1>1, <1>2, <1>7 DEF Coming
  <2> QED BY <1>2, <2>2, <2>3
<1>8. CASE k > Len(line) + 1 /\ k <= 8
  <2>1. GPIOR1 # 1 BY <1>1, <1>8
  <2> DEFINE i == k - 2 - Len(line)
  <2>2. i \in 0 .. 6 /\ k - 1 - Len(line) = i + 1 /\ k - 1 - Len(line') = i
    BY <1>1, <1>2, <1>8
  <2>3. Coming(k) = Bit(GPIOR0, i + 1) BY <1>1, <1>8, <2>2 DEF Coming
  <2>4. Coming(k)' = Bit(GPIOR0 \div 2, i) BY <1>1, <1>2, <1>3, <1>4, <1>8, <2>1, <2>2 DEF Coming
  <2> HIDE DEF i
  <2> QED BY <1>1, <2>2, <2>3, <2>4, NextBit
<1>9. CASE k > 8
  <2>1. Coming(k) = Bit(GPIOR2, k - 9) BY <1>1, <1>9 DEF Coming
  <2>2. CASE GPIOR1 = 1
    <3>1. Len(line') = 8 /\ k - 1 - Len(line') = k - 9 BY <1>1, <1>2, <2>2
    <3> QED BY <1>3, <1>5, <1>9, <2>1, <2>2, <3>1 DEF Coming
  <2>3. CASE GPIOR1 # 1 BY <1>1, <1>2, <1>3, <1>4, <1>9, <2>1, <2>3 DEF Coming
  <2> QED BY <2>2, <2>3
<1> QED BY <1>1, <1>6, <1>7, <1>8, <1>9

LEMMA ComingB ==
  ASSUME BashInvariant, CompbBit, NEW k \in 1 .. 11
  PROVE  Coming(k)' = Coming(k)
<1>0. ShiftTypes /\ LineTypes BY TypeParts DEF BashInvariant
<1>1. /\ "OCIE0A" \notin TIMSK0 /\ GPIOR1 \in 2 .. 3 /\ Len(line) = 11 - GPIOR1 /\ GPIOR2 \in Byte
  BY <1>0, InterruptIs DEF CompbBit, BDue, ShiftTypes
<1>2. /\ Len(line') = Len(line) + 1 /\ \A j \in 1 .. Len(line) : line'[j] = line[j]
      /\ line'[Len(line) + 1] = Bit(GPIOR2, 0)
  BY <1>0, LowestIs DEF CompbBit, ShiftTypes, LineTypes
<1>3. GPIOR2' = GPIOR2 \div 2 /\ TIMSK0' = TIMSK0 BY DEF CompbBit
<1>4. CASE k <= Len(line) BY <1>1, <1>2, <1>4 DEF Coming
<1>5. CASE k = Len(line) + 1
  <2>1. k - 1 - Len(line) = 0 BY <1>1, <1>5
  <2>2. Coming(k) = Bit(GPIOR2, 0) BY <1>1, <1>5, <2>1 DEF Coming
  <2>3. Coming(k)' = line'[Len(line) + 1] BY <1>1, <1>2, <1>5 DEF Coming
  <2> QED BY <1>2, <2>2, <2>3
<1>6. CASE k > Len(line) + 1
  <2> DEFINE i == k - 2 - Len(line)
  <2>1. i \in 0 .. 6 /\ k - 1 - Len(line) = i + 1 /\ k - 1 - Len(line') = i
    BY <1>1, <1>2, <1>6
  <2>2. Coming(k) = Bit(GPIOR2, i + 1) BY <1>1, <1>6, <2>1 DEF Coming
  <2>3. Coming(k)' = Bit(GPIOR2 \div 2, i) BY <1>1, <1>2, <1>3, <1>6, <2>1 DEF Coming
  <2> HIDE DEF i
  <2> QED BY <1>1, <2>1, <2>2, <2>3, NextBit
<1> QED BY <1>1, <1>4, <1>5, <1>6

LEMMA ComingLoaded ==
  ASSUME BashInvariant, CompbLoad, NEW k \in 1 .. 11
  PROVE  UDR0' > 0 /\ Coming(k)' = Wire(Content[UDR0'])[k]
<1>0. TypeOK /\ RingExact BY DEF BashInvariant
<1>1. mode_select = MODE_SERIAL BY InterruptIs DEF CompbLoad
<1>2. gone \in Nat /\ written \in 0 .. MaxByte /\ gone < written /\ head # tail
  BY <1>0, WaitingIs, TypeParts DEF CompbLoad, LoadByte, RingTypes
<1>3. gone + 1 \in 1 .. MaxByte BY <1>2, Sizes
<1> DEFINE b == Content[gone + 1]
           code == Encode(SPEED_100K, b)
<1>4. b \in Byte BY <1>3, ContentIs
<1>5. /\ UDR0' = gone + 1 /\ GPIOR0' = code.lo /\ GPIOR2' = code.hi
      /\ line' = <<>> /\ TIMSK0' = TIMSK0 \cup {"OCIE0A"}
  BY <1>0, <1>1, <1>2, LoadedIs DEF CompbLoad, LoadByte, speed
<1>6. Len(line') = 0 BY <1>5, EmptyLen
<1>7. Coming(k)' = IF k <= 8 THEN Bit(code.lo, k - 1) ELSE Bit(code.hi, k - 9)
  <2> HIDE DEF code
  <2>1. "OCIE0A" \in TIMSK0' /\ k - 1 - Len(line') = k - 1 /\ ~(k <= Len(line'))
    BY <1>5, <1>6
  <2> QED BY <1>5, <2>1 DEF Coming
<1>8. (IF k <= 8 THEN Bit(code.lo, k - 1) ELSE Bit(code.hi, k - 9)) = Wire(b)[k]
  BY <1>4, EncodesEveryByte
<1> QED BY <1>2, <1>5, <1>7, <1>8

LEMMA ByteStep == ASSUME BashInvariant, Next PROVE ByteOnItsWay'
<1>0. ByteOnItsWay BY DEF BashInvariant
<1>s. mode_select' = mode_select
  BY NextCases, GroupsLeave DEF TelemetryUpdate, Serial_write, PublishHead, Goto
<1>1. CASE TIMER0_COMPA
  <2>1. UDR0' = UDR0 /\ idle' = idle BY <1>1 DEF TIMER0_COMPA
  <2> QED BY <1>0, <1>1, <1>s, <2>1, ComingA DEF ByteOnItsWay
<1>2. CASE CompbBit
  <2>1. UDR0' = UDR0 /\ idle' = idle BY <1>2 DEF CompbBit
  <2> QED BY <1>0, <1>2, <1>s, <2>1, ComingB DEF ByteOnItsWay
<1>3. CASE CompbLoad
  <2>1. 1 \in 1 .. 11 OBVIOUS
  <2> QED BY <1>3, <2>1, ComingLoaded DEF ByteOnItsWay
<1>4. CASE Stops
  BY <1>4 DEF Stops, CompbStop, OvfStop, Stop, StopAt, ByteOnItsWay
<1>5. CASE OvfBit
  <2>1. mode_select # MODE_SERIAL /\ UDR0' = UDR0 /\ idle' = idle
    BY <1>5, InterruptIs DEF OvfBit
  <2> QED BY <1>0, <1>s, <2>1 DEF ByteOnItsWay
<1>6. CASE OvfLoad
  <2>1. mode_select # MODE_SERIAL BY <1>6, InterruptIs DEF OvfLoad
  <2>2. UDR0' = gone + 1 /\ gone \in Nat
    BY <1>6, LoadedIs, WaitingIs DEF OvfLoad, LoadByte, BashInvariant
  <2> QED BY <1>s, <2>1, <2>2 DEF ByteOnItsWay
<1>7. CASE UNCHANGED <<line, TIMSK0, GPIOR0, GPIOR2, UDR0, idle>>
  BY <1>0, <1>7, <1>s, ComingStill DEF ByteOnItsWay
<1>8. CASE RxEnd \/ RxTimeout \/ PrepareShift
  <2>1. idle' = TRUE \/ UNCHANGED <<line, TIMSK0, GPIOR0, GPIOR2, UDR0, idle>>
    BY <1>8 DEF RxEnd, RxTimeout, TxResume, PrepareShift, Prepare
  <2>2. ASSUME idle' = TRUE PROVE ByteOnItsWay' BY <2>2 DEF ByteOnItsWay
  <2> QED BY <1>7, <2>1, <2>2
<1>9. CASE EnableTimer0
  <2>1. /\ pc = "arm" /\ TIMSK0' = TIMSK0 \cup {Interrupt}
        /\ UNCHANGED <<GPIOR0, GPIOR2, idle, line, UDR0>>
    BY <1>9 DEF EnableTimer0, Goto
  <2>2. Interrupt # "OCIE0A" BY DEF Interrupt
  <2>3. \A k : Coming(k)' = Coming(k) BY <2>1, <2>2 DEF Coming
  <2> QED BY <1>0, <1>s, <2>1, <2>3 DEF ByteOnItsWay
<1>10. CASE SetBusy BY <1>7, <1>10 DEF SetBusy, Goto
<1>11. CASE \/ Flags \/ Gotos \/ TelemetryUpdate \/ Serial_write \/ PublishHead
  BY <1>7, <1>11, GroupsLeave
     DEF shift, sent, TelemetryUpdate, Serial_write, PublishHead, Goto, Quietly
<1> QED
  BY NextCases, <1>1, <1>2, <1>3, <1>4, <1>5, <1>6, <1>8, <1>9, <1>10, <1>11
     DEF Bits, Loads, Starts

-----------------------------------------------------------------------------
(***************************************************************************)
(* The theorems.                                                           *)
(***************************************************************************)
LEMMA InvariantInit == Init => BashInvariant
<1> SUFFICES ASSUME Init PROVE BashInvariant OBVIOUS
<1>1. TypeOK
  <2>1. 0 \in Slots /\ 0 \in Byte /\ 0 \in 0 .. MaxByte /\ Modes = Modes
    BY Sizes DEF Slots, Byte
  <2>2. RingTypes BY <2>1 DEF Init, RingTypes
  <2>3. FlagTypes BY DEF Init, FlagTypes
  <2>4. ShiftTypes BY <2>1 DEF Init, ShiftTypes
  <2>5. LineTypes BY EmptyLine DEF Init, LineTypes
  <2> QED BY <2>2, <2>3, <2>4, <2>5, TypeParts
<1>2. RingExact
  <2>1. tail \in Slots /\ head = tail /\ written - gone = 0
    BY Sizes DEF Init, Slots
  <2>2. head = Slot(written - gone) BY <2>1, SlotFirst
  <2> QED BY <2>1, <2>2, Sizes DEF Init, RingExact
<1>3. FramesKept BY Sizes DEF Init, FramesKept
<1>4. CompareInTurn BY DEF Init, CompareInTurn, Starting
<1>5. OverflowAlone BY DEF Init, OverflowAlone
<1>6. ByteOnItsWay BY DEF Init, ByteOnItsWay
<1> QED BY <1>1, <1>2, <1>3, <1>4, <1>5, <1>6 DEF BashInvariant

LEMMA InvariantStep == BashInvariant /\ [Next]_vars => BashInvariant'
<1> SUFFICES ASSUME BashInvariant, [Next]_vars PROVE BashInvariant' OBVIOUS
<1>1. CASE Next
  <2>1. TypeOK'
    BY <1>1, RingTypesStep, FlagTypesStep, ShiftTypesStep, LineTypesStep, TypePartsPrimed
  <2>2. RingExact' BY <1>1, RingStep
  <2>3. FramesKept'
    <3>1. Fitting' BY <1>1, FittingStep
    <3>2. ASSUME TypeOK', RingExact', Fitting' PROVE FramesKept'
      BY <3>2, FittingSuffices, PTL
    <3> QED BY <2>1, <2>2, <3>1, <3>2
  <2>4. mode_select' = mode_select
    BY <1>1, NextCases, GroupsLeave DEF TelemetryUpdate, Serial_write, PublishHead, Goto
  <2>5. CompareInTurn'
    BY <1>1, <2>4, TurnStep DEF CompareInTurn
  <2>6. OverflowAlone' BY <1>1, <2>4, OverflowStep DEF OverflowAlone
  <2>7. ByteOnItsWay' BY <1>1, ByteStep
  <2> QED BY <2>1, <2>2, <2>3, <2>5, <2>6, <2>7 DEF BashInvariant
<1>2. CASE UNCHANGED vars
  <2> USE <1>2 DEF vars, shift, main, frame, sent
  <2>1. TypeOK' BY DEF BashInvariant, TypeOK
  <2>2. RingExact' BY RingStill DEF BashInvariant
  <2>3. FramesKept' BY DEF BashInvariant, FramesKept, NotFull
  <2>4. CompareInTurn' BY DEF BashInvariant, CompareInTurn, Starting
  <2>5. OverflowAlone' BY DEF BashInvariant, OverflowAlone
  <2>6. ByteOnItsWay' BY ComingStill DEF BashInvariant, ByteOnItsWay
  <2> QED BY <2>1, <2>2, <2>3, <2>4, <2>5, <2>6 DEF BashInvariant
<1> QED BY <1>1, <1>2

\* The inductive invariant of Serial_write, resumeBashSerial and the interrupts
\* of timer 0; a frame shorter than tx_buff_has_space makes room for is put in
\* the ring whole.
THEOREM BashInvariantHolds == Spec => []BashInvariant
BY InvariantInit, InvariantStep, PTL DEF Spec

LEMMA QueueStep == ASSUME BashInvariant, [Next]_vars PROVE [Queue!Next]_(Queue!vars)
<1> USE Sizes DEF Queue!vars
<1>0. TypeOK /\ RingExact BY DEF BashInvariant
<1>1. CASE Bits \/ Stops \/ Starts \/ Flags \/ Gotos
  BY <1>1, GroupsLeave DEF sent
<1>2. CASE Loads
  <2>1. gone < written /\ gone' = gone + 1 /\ UDR0' = gone + 1 /\ written' = written
    BY <1>0, <1>2, WaitingIs, LoadedIs, GroupsLeave DEF Loads, CompbLoad, OvfLoad, LoadByte
  <2> QED BY <2>1 DEF Queue!Next, Queue!Send
<1>3. CASE PublishHead
  <2>1. written - gone < SLOTS - 1 BY <1>0, <1>3 DEF PublishHead, Goto, RingExact
  <2>2. Queue!Held < SLOTS - 1
    BY <1>0, <2>1 DEF Queue!Held, TypeOK, RingTypes
  <2>3. written' = written + 1 /\ UNCHANGED <<gone, UDR0>>
    BY <1>3 DEF PublishHead, Goto
  <2> QED BY <2>2, <2>3 DEF Queue!Next, Queue!Put
<1>4. CASE TelemetryUpdate \/ Serial_write
  BY <1>4 DEF TelemetryUpdate, Serial_write, Goto
<1>5. CASE UNCHANGED vars BY <1>5 DEF vars, sent
<1> QED BY NextCases, <1>1, <1>2, <1>3, <1>4, <1>5

\* The bit-bashed serial implements the queue: bytes begin to be shifted out in
\* the order they were written, each once, although main program and receive
\* interrupt both start the shifting.
THEOREM BashImplementsQueue == Spec => BashQueue
<1>1. Init => Queue!Init BY DEF Init, Queue!Init
<1>2. BashInvariant /\ [Next]_vars => [Queue!Next]_(Queue!vars) BY QueueStep
<1> QED BY <1>1, <1>2, BashInvariantHolds, PTL DEF Spec, BashQueue, Queue!Spec

\* What has been on the pin when the last stop bit ends.
LEMMA WholeByte == ASSUME BashInvariant, BDue, GPIOR1 = 1 PROVE LastBit = Due
<1>0. ShiftTypes /\ LineTypes /\ RingTypes /\ ByteOnItsWay BY TypeParts DEF BashInvariant
<1>1. CASE idle
  <2>1. GPIOR2 = 0 /\ line = <<>> BY <1>1, InterruptIs
  <2> QED BY <1>1, <2>1 DEF LastBit, Due, Pin
<1>2. CASE ~idle
  <2>1. /\ mode_select = MODE_SERIAL /\ Len(line) = 10 /\ "OCIE0A" \notin TIMSK0
        /\ GPIOR2 \in Byte /\ line \in Seq({0, 1})
    BY <1>0, <1>2, InterruptIs DEF BDue, ShiftTypes, LineTypes
  <2> DEFINE last == GPIOR2 % 2
             whole == Append(line, last)
  <2>2. last \in {0, 1} /\ last = Bit(GPIOR2, 0)
    <3>1. last = Bit(GPIOR2, 0) BY <2>1, NextBit
    <3>2. last \in {0, 1} BY <2>1 DEF Byte
    <3> QED BY <3>1, <3>2
  <2> HIDE DEF last
  <2>3. /\ whole \in Seq({0, 1}) /\ Len(whole) = 11 /\ whole[11] = last
        /\ \A k \in 1 .. 10 : whole[k] = line[k]
    <3>1. /\ whole \in Seq({0, 1}) /\ Len(whole) = Len(line) + 1 /\ whole[Len(line) + 1] = last
          /\ \A k \in 1 .. Len(line) : whole[k] = line[k]
      <4>1. line \in Seq({0, 1}) /\ last \in {0, 1} BY <2>1, <2>2
      <4> QED BY <4>1, AppendProperties
    <3> HIDE DEF whole
    <3> QED BY <2>1, <3>1
  <2> HIDE DEF whole
  <2>4. whole \in [1 .. 11 -> {0, 1}] BY <2>3, LenProperties
  <2>5. \A k \in 1 .. 11 : Coming(k) = Wire(Content[UDR0])[k]
    BY <1>0, <1>2, <2>1 DEF ByteOnItsWay
  <2>6. ASSUME NEW k \in 1 .. 11 PROVE whole[k] = Wire(Content[UDR0])[k]
    <3>1. CASE k <= 10 BY <2>1, <2>3, <2>5, <3>1 DEF Coming
    <3>2. CASE k = 11 BY <2>1, <2>2, <2>3, <2>5, <3>2 DEF Coming
    <3> QED BY <3>1, <3>2
  <2>7. whole = Wire(Content[UDR0])
    BY <2>4, <2>6 DEF Wire
  <2> QED BY <1>2, <2>7 DEF LastBit, Due, last, whole
<1> QED BY <1>1, <1>2

\* In serial mode every byte is on the pin with its start bit, data bits, even
\* parity and stop bit: for each of the 256 bytes, whenever starts, stops and
\* pauses fall.
THEOREM WireIsRight == Spec => WireRight
<1> DEFINE Step ==
      mode_select = MODE_SERIAL /\ (UDR0' # UDR0 \/ (idle' /\ ~idle) \/ busy' < busy)
        => LastBit = Due
<1>1. ASSUME BashInvariant, Next, mode_select = MODE_SERIAL,
             UDR0' # UDR0 \/ (idle' /\ ~idle) \/ busy' < busy
      PROVE  BDue /\ GPIOR1 = 1
  <2>0. ShiftTypes /\ CompareInTurn BY <1>1, TypeParts DEF BashInvariant
  <2>1. busy \in Nat /\ ~(busy < busy) /\ ~(1 < busy) BY <2>0 DEF ShiftTypes
  <2>2. CASE UDR0' = UDR0 /\ busy' \in {busy, 1} /\ (idle' = idle \/ idle)
    BY <1>1, <2>1, <2>2
  <2>3. CASE CompbLoad \/ CompbStop BY <2>3 DEF CompbLoad, CompbStop
  <2>4. CASE OvfBit \/ OvfLoad \/ OvfStop
    BY <1>1, <2>4, InterruptIs DEF OvfBit, OvfLoad, OvfStop
  <2>5. CASE TIMER0_COMPA \/ CompbBit BY <2>2, <2>5 DEF TIMER0_COMPA, CompbBit
  <2>6. CASE RxEnd \/ RxTimeout
    <3>1. busy = 0 => idle BY <1>1, <2>0 DEF CompareInTurn, Starting
    <3> QED BY <2>2, <2>6, <3>1 DEF RxEnd, RxTimeout, TxResume
  <2>7. CASE PrepareShift
    <3>1. idle BY <1>1, <2>0, <2>7 DEF CompareInTurn, Starting, PrepareShift, Goto
    <3> QED BY <2>2, <2>7, <3>1 DEF PrepareShift, Goto
  <2>8. CASE EnableTimer0 \/ SetBusy BY <2>2, <2>8 DEF EnableTimer0, SetBusy, Goto
  <2>9. CASE Flags \/ Gotos \/ TelemetryUpdate \/ Serial_write \/ PublishHead
    BY <2>2, <2>9, GroupsLeave
       DEF shift, sent, TelemetryUpdate, Serial_write, PublishHead, Goto, Quietly
  <2> QED BY <1>1, NextCases, <2>3, <2>4, <2>5, <2>6, <2>7, <2>8, <2>9
          DEF Bits, Loads, Stops, Starts
<1>2. BashInvariant /\ [Next]_vars => [Step]_vars BY <1>1, WholeByte
<1>3. Spec => [][Step]_vars BY <1>2, BashInvariantHolds, PTL DEF Spec
<1> QED BY <1>3 DEF WireRight

===============================================================================
