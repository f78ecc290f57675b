--------------------------- MODULE TxRing_proofs ----------------------------
(***************************************************************************)
(* The transmit ring keeps its types and implements TxQueue, for every     *)
(* size of the ring, every length of the frames, also longer ones than the *)
(* ring, and wherever the interrupts come, also while it is reset.         *)
(***************************************************************************)
EXTENDS TxRing, TLAPS

-----------------------------------------------------------------------------
(***************************************************************************)
(* Slots.                                                                  *)
(***************************************************************************)
LEMMA Sizes ==
  /\ TXBUFFER_SIZE \in Nat /\ TXBUFFER_SIZE > 1 /\ 0 \in Slots
  /\ SPACE \in Nat /\ SPACE <= TXBUFFER_SIZE
  /\ \A n \in FrameSizes : n \in Nat /\ n > 0
  /\ MaxByte \in Nat /\ MaxResets \in Nat
BY RingAssumption DEF Slots

LEMMA NextSlotIsSlot == \A i \in Slots : NextSlot(i) \in Slots
BY Sizes DEF Slots, NextSlot

LEMMA WrapZero == \A i \in Slots : Wrap(i) = i /\ Wrap(i + 0) = i
BY Sizes DEF Slots, Wrap

\* One slot on from the k-th slot after t is the (k+1)-th; the k-th slot
\* after the slot after t is too.
LEMMA WrapNext ==
  ASSUME NEW t \in Slots, NEW k \in Nat, k + 1 < TXBUFFER_SIZE
  PROVE  /\ Wrap(t + k) \in Slots
         /\ NextSlot(Wrap(t + k)) = Wrap(t + (k + 1))
         /\ Wrap(NextSlot(t) + k) = Wrap(t + (k + 1))
BY Sizes DEF Slots, Wrap, NextSlot

LEMMA WrapApart ==
  ASSUME NEW t \in Slots, NEW j \in Nat, NEW k \in Nat,
         j < k, k < TXBUFFER_SIZE
  PROVE  Wrap(t + j) # Wrap(t + k)
BY Sizes DEF Slots, Wrap

\* The slot after the last one is the first again.
LEMMA WrapAll ==
  ASSUME NEW t \in Slots
  PROVE  NextSlot(Wrap(t + (TXBUFFER_SIZE - 1))) = t
BY Sizes DEF Slots, Wrap, NextSlot

\* What tx_buff_has_space makes sure of.
LEMMA SpaceMeansRoom ==
  ASSUME NEW t \in Slots, NEW w \in Nat, w < TXBUFFER_SIZE,
         tx_tail = t, tx_head = Wrap(t + w), tx_buff_has_space
  PROVE  w <= TXBUFFER_SIZE - SPACE
BY Sizes DEF Slots, Wrap, tx_buff_has_space, FreeSlots

\* Where the next byte is stored: in none of the slots that are taken.
LEMMA NextSlotIsFree ==
  ASSUME NEW t \in Slots, NEW w \in Nat, w < TXBUFFER_SIZE
  PROVE  /\ w + 1 < TXBUFFER_SIZE => NextSlot(Wrap(t + w)) # t
         /\ w + 1 = TXBUFFER_SIZE => NextSlot(Wrap(t + w)) = t
         /\ \A k \in 1 .. TXBUFFER_SIZE - 1 :
              k <= w => Wrap(t + k) # NextSlot(Wrap(t + w))
<1> USE Sizes
<1>1. CASE w + 1 < TXBUFFER_SIZE
  <2>1. NextSlot(Wrap(t + w)) = Wrap(t + (w + 1)) BY <1>1, WrapNext
  <2>2. Wrap(t + 0) # Wrap(t + (w + 1)) BY <1>1, WrapApart
  <2>3. ASSUME NEW k \in 1 .. TXBUFFER_SIZE - 1, k <= w
        PROVE  Wrap(t + k) # Wrap(t + (w + 1))
    <3>1. k \in Nat /\ (w + 1) \in Nat /\ k < w + 1 BY <2>3
    <3> QED BY <1>1, <3>1, WrapApart
  <2> QED BY <1>1, <2>1, <2>2, <2>3, WrapZero
<1>2. CASE w + 1 = TXBUFFER_SIZE
  <2>1. w = TXBUFFER_SIZE - 1 BY <1>2
  <2>2. NextSlot(Wrap(t + w)) = t BY <2>1, WrapAll
  <2>3. ASSUME NEW k \in 1 .. TXBUFFER_SIZE - 1
        PROVE  Wrap(t + k) # t
    <3>1. k \in Nat /\ 0 < k /\ k < TXBUFFER_SIZE BY <2>3
    <3>2. Wrap(t + 0) # Wrap(t + k) BY <3>1, WrapApart
    <3> QED BY <3>2, WrapZero
  <2> QED BY <1>2, <2>2, <2>3
<1> QED BY <1>1, <1>2

-----------------------------------------------------------------------------
(***************************************************************************)
(* Steps that change neither the ring nor what is counted in it.           *)
(***************************************************************************)
Apart == \/ UdreNothing \/ Shifted \/ Receive \/ Elsewhere \/ TestResume
         \/ EnableTx \/ PauseForCallback \/ ResetPause \/ ResetRxPause
         \/ ResetMainPause

LEMMA ApartLeaves ==
  Apart => UNCHANGED <<tx_buff, tx_head, tx_tail, written, gone, stale, UDR0, todo,
                       size, setup>>
<1> USE DEF ring, main, frame, out, RmwFlags2, RmwUCSR0B, Load, Store, Goto
<1>1. UdreNothing \/ Shifted \/ Receive =>
        UNCHANGED <<tx_buff, tx_head, tx_tail, written, gone, stale, UDR0, todo,
                    size, setup>>
  BY DEF UdreNothing, Shifted, Receive, RxStart, RxEnd, RxTimeout
<1>2. Elsewhere \/ TestResume \/ EnableTx \/ PauseForCallback =>
        UNCHANGED <<tx_buff, tx_head, tx_tail, written, gone, stale, UDR0, todo,
                    size, setup>>
  BY DEF Elsewhere, TestResume, EnableTx, PauseForCallback, TX_MAIN_PAUSE_on,
     TxPause, Callback, TX_MAIN_PAUSE_off, OtherFlag2
<1>3. ResetPause \/ ResetRxPause \/ ResetMainPause =>
        UNCHANGED <<tx_buff, tx_head, tx_tail, written, gone, stale, UDR0, todo,
                    size, setup>>
  BY DEF ResetPause, ResetRxPause, ResetMainPause
<1> QED BY <1>1, <1>2, <1>3 DEF Apart

LEMMA NextCases ==
  RingNext => \/ Apart \/ UdreSend \/ TelemetryUpdate \/ Serial_write
          \/ PublishHead \/ ProtocolInit \/ ResetTail \/ ResetHead
BY DEF RingNext, Udre, Work, Write, Reset, Apart

-----------------------------------------------------------------------------
(***************************************************************************)
(* The flags, the register and the program counter.                        *)
(***************************************************************************)
LEMMA BitsStep ==
  ASSUME RingTypes, RegisterOK, RingNext
  PROVE  /\ protocol_flags2' \subseteq {"TX_MAIN_PAUSE", "TX_RX_PAUSE"}
         /\ UCSR0B' \subseteq {"UDRIE0"} /\ UCSR0A' \subseteq {"UDRE0"}
         /\ half' \in {"load", "store"}
         /\ reg' \subseteq {"TX_MAIN_PAUSE", "TX_RX_PAUSE", "UDRIE0"}
         /\ RegisterOK'
<1> USE DEF RingTypes, RegisterOK, FlagSteps, EnableSteps, frame
<1>1. CASE UdreSend BY <1>1 DEF UdreSend, main
<1>2. CASE UdreNothing BY <1>2 DEF UdreNothing, main
<1>3. CASE Shifted BY <1>3 DEF Shifted, main
<1>4. CASE Receive
  BY <1>4 DEF Receive, RxStart, RxEnd, RxTimeout, Resume, main
<1>5. CASE TelemetryUpdate \/ Elsewhere \/ ProtocolInit
  BY <1>5 DEF TelemetryUpdate, Elsewhere, ProtocolInit, Goto, At
<1>6. CASE Serial_write BY <1>6 DEF Serial_write, StoreByteAt, Goto, At
<1>7. CASE PublishHead BY <1>7 DEF PublishHead, Goto, At
<1>8. CASE TestResume BY <1>8 DEF TestResume, Goto, At, AfterResume
<1>9. CASE EnableTx
  BY <1>9 DEF EnableTx, RmwUCSR0B, Load, Store, At, AfterResume
<1>10. CASE PauseForCallback
  BY <1>10 DEF PauseForCallback, TX_MAIN_PAUSE_on, TxPause, Callback,
     TX_MAIN_PAUSE_off, OtherFlag2, RmwFlags2, RmwUCSR0B, Load, Store, Goto,
     At
<1>11. CASE ResetPause \/ ResetRxPause \/ ResetMainPause
  BY <1>11 DEF ResetPause, ResetRxPause, ResetMainPause, RmwFlags2,
     RmwUCSR0B, Load, Store, At
<1>12. CASE ResetTail \/ ResetHead
  BY <1>12 DEF ResetTail, ResetHead, Goto, At
<1> QED
  BY <1>1, <1>2, <1>3, <1>4, <1>5, <1>6, <1>7, <1>8, <1>9, <1>10, <1>11,
     <1>12 DEF RingNext, Udre, Work, Write, Reset

Steps == {"loop", "write", "publish", "resume", "enable", "pause_on",
          "flag2_rmw", "pause", "callback", "pause_off", "reset", "tail",
          "head", "rx_off", "main_off"}

\* The step counter, and when a frame is being written.
LEMMA StepStep ==
  ASSUME RingTypes, FrameInProgress, RingNext
  PROVE  /\ at' \in Steps
         /\ at' \in {"write", "publish"} => todo' > 0
         /\ at' \notin {"write", "publish", "resume", "enable"} => todo' = 0
<1> USE Sizes DEF RingTypes, FrameInProgress, Steps, Goto, At, frame
<1>1. CASE UdreSend BY <1>1 DEF UdreSend, main
<1>2. CASE UdreNothing \/ Shifted \/ Receive
  BY <1>2 DEF UdreNothing, Shifted, Receive, RxStart, RxEnd, RxTimeout, main
<1>3. CASE TelemetryUpdate BY <1>3 DEF TelemetryUpdate
<1>4. CASE Elsewhere \/ ProtocolInit BY <1>4 DEF Elsewhere, ProtocolInit
<1>5. CASE Serial_write BY <1>5 DEF Serial_write, StoreByteAt
<1>6. CASE PublishHead BY <1>6 DEF PublishHead
<1>7. CASE TestResume BY <1>7 DEF TestResume, AfterResume
<1>8. CASE EnableTx
  BY <1>8 DEF EnableTx, RmwUCSR0B, Load, Store, AfterResume
<1>9. CASE PauseForCallback
  BY <1>9 DEF PauseForCallback, TX_MAIN_PAUSE_on, TxPause, Callback,
     TX_MAIN_PAUSE_off, OtherFlag2, RmwFlags2, RmwUCSR0B, Load, Store
<1>10. CASE ResetPause \/ ResetRxPause \/ ResetMainPause
  BY <1>10 DEF ResetPause, ResetRxPause, ResetMainPause, RmwFlags2,
     RmwUCSR0B, Load, Store
<1>11. CASE ResetTail \/ ResetHead BY <1>11 DEF ResetTail, ResetHead
<1> QED
  BY <1>1, <1>2, <1>3, <1>4, <1>5, <1>6, <1>7, <1>8, <1>9, <1>10, <1>11
     DEF RingNext, Udre, Work, Write, Reset

\* Nothing but Serial_write leads to PublishHead.
LEMMA ApartStep == Apart /\ at' \in {"publish", "head"} => at' = at
<1> USE DEF main, RmwFlags2, RmwUCSR0B, Load, Store, Goto
<1>1. UdreNothing \/ Shifted \/ Receive => at' = at
  BY DEF UdreNothing, Shifted, Receive, RxStart, RxEnd, RxTimeout
<1>2. Elsewhere \/ TestResume \/ EnableTx \/ PauseForCallback =>
        at' = at \/ at' \notin {"publish", "head"}
  BY DEF Elsewhere, TestResume, EnableTx, PauseForCallback, TX_MAIN_PAUSE_on,
     TxPause, Callback, TX_MAIN_PAUSE_off, OtherFlag2, AfterResume
<1>3. ResetPause \/ ResetRxPause \/ ResetMainPause =>
        at' = at \/ at' \notin {"publish", "head"}
  BY DEF ResetPause, ResetRxPause, ResetMainPause
<1> QED BY <1>1, <1>2, <1>3 DEF Apart

\* And nothing but those two leads away from them.
LEMMA ApartStays ==
  ASSUME Apart, at \in {"publish", "tail", "head"}
  PROVE  at' = at /\ (mode_select # MODE_SERIAL => UCSR0B' \subseteq UCSR0B)
<1> USE DEF main, RmwFlags2, RmwUCSR0B, Load, Store, Goto, At
<1>1. CASE UdreNothing \/ Shifted
  BY <1>1 DEF UdreNothing, Shifted
<1>2. CASE Receive BY <1>2 DEF Receive, RxStart, RxEnd, RxTimeout
<1>3. CASE Elsewhere \/ TestResume \/ EnableTx \/ PauseForCallback
  BY <1>3 DEF Elsewhere, TestResume, EnableTx, PauseForCallback,
     TX_MAIN_PAUSE_on, TxPause, Callback, TX_MAIN_PAUSE_off, OtherFlag2
<1>4. CASE ResetPause \/ ResetRxPause \/ ResetMainPause
  BY <1>4 DEF ResetPause, ResetRxPause, ResetMainPause
<1> QED BY <1>1, <1>2, <1>3, <1>4 DEF Apart

\* Steps apart from the reset do not lead into it.
LEMMA ApartQuiet ==
  Apart /\ ~ResetPause /\ at \notin {"tail", "head"} => at' \notin {"tail", "head"}
<1> USE DEF main, RmwFlags2, RmwUCSR0B, Load, Store, Goto
<1>1. UdreNothing \/ Shifted \/ Receive => at' = at
  BY DEF UdreNothing, Shifted, Receive, RxStart, RxEnd, RxTimeout
<1>2. Elsewhere \/ TestResume \/ EnableTx \/ PauseForCallback =>
        at' = at \/ at' \notin {"tail", "head"}
  BY DEF Elsewhere, TestResume, EnableTx, PauseForCallback, TX_MAIN_PAUSE_on,
     TxPause, Callback, TX_MAIN_PAUSE_off, OtherFlag2, AfterResume
<1>3. ResetRxPause \/ ResetMainPause => at' = at \/ at' \notin {"tail", "head"}
  BY DEF ResetRxPause, ResetMainPause
<1> QED BY <1>1, <1>2, <1>3 DEF Apart

-----------------------------------------------------------------------------
(***************************************************************************)
(* The contents of the ring.                                               *)
(***************************************************************************)
\* What RingExact says of the head: it is the tail when nothing is held.
LEMMA HeadFacts ==
  ASSUME RingTypes, RingExact
  PROVE  /\ Held \in Nat /\ Held < TXBUFFER_SIZE
         /\ tx_head # tx_tail => Held > 0
BY Sizes, WrapZero DEF RingTypes, RingExact, Held, Slots

LEMMA SendStep ==
  ASSUME RingInvariant, UdreSend
  PROVE  /\ RingExact' /\ FramesFit' /\ UDR0' \in 0 .. written
         /\ gone' \in 0 .. MaxByte /\ stale' \in Slots
         /\ \/ stale > 0 /\ stale' = stale - 1 /\ gone' = gone
            \/ /\ stale = 0 /\ stale' = 0 /\ gone < written
               /\ gone' = gone + 1 /\ UDR0' = gone'
<1> DEFINE w == Held
<1> USE Sizes
<1>1. /\ UNCHANGED <<tx_buff, tx_head, written, todo, size, at, mode_select>>
      /\ tx_tail' = NextSlot(tx_tail) /\ UDR0' = tx_buff[tx_tail']
  BY DEF UdreSend, main, frame, setup
<1>2. /\ w \in Nat /\ w > 0 /\ w < TXBUFFER_SIZE
      /\ tx_tail \in Slots /\ todo \in Nat /\ stale \in Slots /\ size \in Nat
      /\ gone \in Nat /\ written \in 0 .. MaxByte /\ gone <= written
      /\ w = written - gone + stale
      /\ tx_head = Wrap(tx_tail + w) /\ tx_buff \in [Slots -> 0 .. MaxByte]
  BY HeadFacts DEF RingInvariant, RingTypes, RingExact, UdreSend, Held
<1>3. \A k \in 1 .. TXBUFFER_SIZE - 1 :
           stale < k /\ k <= w => tx_buff[Wrap(tx_tail + k)] = gone + k - stale
  BY DEF RingInvariant, RingExact
<1>4. \A slot \in Slots :
        tx_buff[slot] <= written \/ (at = "publish" /\ slot = NextSlot(tx_head))
  BY DEF RingInvariant, RingExact
<1>5. stale > 0 => mode_select = MODE_SERIAL \/ at = "head"
  BY DEF RingInvariant, RingExact
<1>6. NextSlot(tx_tail) = Wrap(tx_tail + 1) /\ NextSlot(tx_tail) \in Slots
  BY <1>2, WrapNext, WrapZero, NextSlotIsSlot
<1>7. \/ stale > 0 /\ stale' = stale - 1 /\ gone' = gone
      \/ stale = 0 /\ stale' = 0 /\ gone < written /\ gone' = gone + 1
  BY <1>2 DEF UdreSend, Slots
<1>8. Held' = w - 1
  BY <1>1, <1>2, <1>7 DEF Held, Slots
<1>9. stale = 0 => UDR0' = gone + 1
  <2>1. 1 \in 1 .. TXBUFFER_SIZE - 1 BY <1>2
  <2> QED BY <1>1, <1>2, <1>3, <1>6, <2>1
<1>10. UDR0' \in 0 .. written
  <2>1. CASE stale = 0 BY <1>2, <1>7, <1>9, <2>1
  <2>2. CASE stale > 0
    <3>1. 1 \in 1 .. TXBUFFER_SIZE - 1 /\ 1 <= w BY <1>2
    <3>2. Wrap(tx_tail + 1) # NextSlot(tx_head)
      BY <1>2, <3>1, NextSlotIsFree
    <3>3. tx_buff[tx_tail'] <= written BY <1>1, <1>4, <1>6, <3>2
    <3>4. tx_buff[tx_tail'] \in 0 .. MaxByte BY <1>1, <1>2, <1>6
    <3> QED BY <1>1, <1>2, <3>3, <3>4
  <2> QED BY <1>2, <2>1, <2>2 DEF Slots
<1>11. tx_head = Wrap(NextSlot(tx_tail) + (w - 1))
  <2>1. (w - 1) \in Nat /\ (w - 1) + 1 < TXBUFFER_SIZE /\ (w - 1) + 1 = w
    BY <1>2
  <2> QED BY <1>2, <2>1, WrapNext
<1>12. ASSUME NEW k \in 1 .. TXBUFFER_SIZE - 1, stale' < k, k <= w - 1
       PROVE  tx_buff[Wrap(NextSlot(tx_tail) + k)] = gone' + k - stale'
  <2>1. k \in Nat /\ k + 1 \in 1 .. TXBUFFER_SIZE - 1 /\ k + 1 <= w
    BY <1>2, <1>12
  <2>2. k + 1 < TXBUFFER_SIZE BY <2>1
  <2>3. Wrap(NextSlot(tx_tail) + k) = Wrap(tx_tail + (k + 1))
    BY <1>2, <2>1, <2>2, WrapNext
  <2>4. stale < k + 1 /\ gone + (k + 1) - stale = gone' + k - stale'
    <3>1. stale \in Nat /\ gone \in Nat /\ stale' < k BY <1>2, <1>12 DEF Slots
    <3>2. CASE stale > 0 /\ stale' = stale - 1 /\ gone' = gone
      BY <2>1, <3>1, <3>2
    <3>3. CASE stale = 0 /\ stale' = 0 /\ gone' = gone + 1
      BY <2>1, <3>1, <3>3
    <3> QED BY <1>7, <3>2, <3>3
  <2>5. tx_buff[Wrap(tx_tail + (k + 1))] = gone + (k + 1) - stale
    BY <1>3, <2>1, <2>4
  <2> QED BY <2>3, <2>4, <2>5
<1>13. RingExact'
  <2>1. gone' <= written /\ Held' < TXBUFFER_SIZE BY <1>2, <1>7, <1>8
  <2>2. stale' > 0 => mode_select' = MODE_SERIAL \/ at' = "head"
    BY <1>1, <1>2, <1>5, <1>7 DEF Slots, MODE_SERIAL
  <2>3. NextSlot(tx_head)' = NextSlot(tx_head) BY <1>1 DEF NextSlot
  <2> QED
    BY <1>1, <1>4, <1>8, <1>11, <1>12, <2>1, <2>2, <2>3 DEF RingExact, Wrap
<1>14. FramesFit'
  BY <1>1, <1>2, <1>8 DEF RingInvariant, FramesFit
<1>15. gone' \in 0 .. MaxByte /\ stale' \in Slots BY <1>2, <1>7 DEF Slots
<1> QED BY <1>7, <1>9, <1>10, <1>13, <1>14, <1>15

LEMMA WriteStep ==
  ASSUME RingInvariant, Serial_write
  PROVE  /\ RingExact' /\ tx_buff' \in [Slots -> 0 .. MaxByte]
         /\ tx_buff'[NextSlot(tx_head)] = written + 1
<1> DEFINE w == Held
<1> USE Sizes
<1>1. /\ at = "write" /\ at' = "publish"
      /\ UNCHANGED <<tx_head, tx_tail, written, gone, stale, mode_select>>
      /\ tx_buff' = [tx_buff EXCEPT ![NextSlot(tx_head)] = written + 1]
  BY DEF Serial_write, StoreByteAt, Goto, At, out, setup
<1>2. /\ w \in Nat /\ w < TXBUFFER_SIZE /\ todo > 0
      /\ tx_tail \in Slots /\ tx_head \in Slots /\ todo \in Nat
      /\ gone \in Nat /\ written \in Nat /\ written + todo <= MaxByte
      /\ tx_buff \in [Slots -> 0 .. MaxByte]
      /\ tx_head = Wrap(tx_tail + w) /\ gone <= written
  BY <1>1, HeadFacts
     DEF RingInvariant, RingTypes, FrameInProgress, RingExact
<1>3. \A k \in 1 .. TXBUFFER_SIZE - 1 :
           stale < k /\ k <= w => tx_buff[Wrap(tx_tail + k)] = gone + k - stale
  BY DEF RingInvariant, RingExact
<1>4. \A slot \in Slots : tx_buff[slot] <= written
  BY <1>1 DEF RingInvariant, RingExact
<1>5. stale > 0 => mode_select = MODE_SERIAL
  BY <1>1 DEF RingInvariant, RingExact
<1>6. NextSlot(tx_head) \in Slots BY <1>2, NextSlotIsSlot
<1>7. ASSUME NEW k \in 1 .. TXBUFFER_SIZE - 1, stale < k, k <= w
      PROVE  tx_buff'[Wrap(tx_tail + k)] = gone + k - stale
  <2>1. Wrap(tx_tail + k) # NextSlot(tx_head)
    BY <1>2, <1>7, NextSlotIsFree
  <2>2. tx_buff'[Wrap(tx_tail + k)] = tx_buff[Wrap(tx_tail + k)]
    BY <1>1, <1>2, <2>1
  <2> QED BY <1>3, <1>7, <2>2
<1>8. written + 1 \in 0 .. MaxByte BY <1>2
<1>9. tx_buff' \in [Slots -> 0 .. MaxByte] BY <1>1, <1>2, <1>6, <1>8
<1>10. tx_buff'[NextSlot(tx_head)] = written + 1 BY <1>1, <1>2, <1>6
<1>11. \A slot \in Slots : tx_buff'[slot] <= written \/ slot = NextSlot(tx_head)
  BY <1>1, <1>2, <1>4, <1>6
<1>12. Held' = w /\ NextSlot(tx_head)' = NextSlot(tx_head)
  BY <1>1 DEF Held, NextSlot
<1>13. RingExact'
  BY <1>1, <1>2, <1>5, <1>7, <1>11, <1>12 DEF RingExact, Wrap
<1> QED BY <1>9, <1>10, <1>13

\* A byte that would make the head meet the tail empties the ring, and only a
\* frame that may not fit has one.
LEMMA PublishStep ==
  ASSUME RingInvariant, PublishHead
  PROVE  /\ RingExact' /\ FramesFit' /\ tx_head' \in Slots
         /\ todo' \in 0 .. MaxByte /\ written' = written + 1
         /\ written' \in 0 .. MaxByte /\ written' + todo' <= MaxByte
         /\ gone' \in 0 .. MaxByte /\ stale' \in Slots
         /\ \/ Held < TXBUFFER_SIZE - 1 /\ gone' = gone /\ stale' = stale
            \/ /\ Held = TXBUFFER_SIZE - 1 /\ Oversize
               /\ gone' = written' /\ stale' = 0
<1> DEFINE w == Held
<1> USE Sizes
<1>1. /\ at = "publish" /\ at' = "resume"
      /\ UNCHANGED <<tx_buff, tx_tail, size, mode_select>>
      /\ tx_head' = NextSlot(tx_head)
      /\ written' = written + 1 /\ todo' = todo - 1
      /\ IF tx_head' = tx_tail THEN gone' = written' /\ stale' = 0
                               ELSE gone' = gone /\ stale' = stale
  BY DEF PublishHead, Goto, At, out, setup
<1>2. /\ w \in Nat /\ w < TXBUFFER_SIZE /\ todo > 0 /\ size \in Nat
      /\ tx_tail \in Slots /\ tx_head \in Slots /\ todo \in Nat /\ stale \in Nat
      /\ gone \in Nat /\ written \in Nat /\ written + todo <= MaxByte
      /\ w = written - gone + stale /\ gone <= written /\ stale \in Slots
      /\ tx_buff[NextSlot(tx_head)] = written + 1
      /\ tx_head = Wrap(tx_tail + w)
      /\ w + todo <= TXBUFFER_SIZE - SPACE + size
      /\ tx_buff \in [Slots -> 0 .. MaxByte]
  BY <1>1, HeadFacts
     DEF RingInvariant, RingTypes, FrameInProgress, FramesFit, RingExact, Held, Slots
<1>3. \A k \in 1 .. TXBUFFER_SIZE - 1 :
           stale < k /\ k <= w => tx_buff[Wrap(tx_tail + k)] = gone + k - stale
  BY DEF RingInvariant, RingExact
<1>4. \A slot \in Slots : tx_buff[slot] <= written \/ slot = NextSlot(tx_head)
  BY DEF RingInvariant, RingExact
<1>5. stale > 0 => mode_select = MODE_SERIAL
  BY <1>1 DEF RingInvariant, RingExact
<1>6. NextSlot(tx_head) \in Slots BY <1>2, NextSlotIsSlot
<1>7. \A slot \in Slots : tx_buff[slot] <= written + 1
  BY <1>2, <1>4
<1>8. /\ todo' \in 0 .. MaxByte /\ written' \in 0 .. MaxByte
      /\ written' + todo' <= MaxByte
  BY <1>1, <1>2
<1>9. CASE w < TXBUFFER_SIZE - 1
  <2>1. w + 1 < TXBUFFER_SIZE BY <1>2, <1>9
  <2>2. NextSlot(tx_head) # tx_tail BY <1>2, <2>1, NextSlotIsFree
  <2>3. gone' = gone /\ stale' = stale BY <1>1, <2>2
  <2>4. NextSlot(tx_head) = Wrap(tx_tail + (w + 1))
    BY <1>2, <2>1, WrapNext
  <2>5. Held' = w + 1 BY <1>1, <1>2, <2>3 DEF Held
  <2>6. ASSUME NEW k \in 1 .. TXBUFFER_SIZE - 1, stale < k, k <= w + 1
        PROVE  tx_buff[Wrap(tx_tail + k)] = gone + k - stale
    <3>1. CASE k = w + 1
      <4>1. tx_buff[Wrap(tx_tail + k)] = written + 1 BY <1>2, <2>4, <3>1
      <4> QED BY <1>2, <3>1, <4>1
    <3>2. CASE k <= w BY <1>3, <2>6, <3>2
    <3> QED BY <1>2, <2>6, <3>1, <3>2
  <2>7. RingExact'
    BY <1>1, <1>2, <1>5, <1>7, <2>1, <2>3, <2>4, <2>5, <2>6 DEF RingExact, Wrap
  <2>8. FramesFit' BY <1>1, <1>2, <2>5 DEF FramesFit
  <2> QED BY <1>1, <1>2, <1>6, <1>8, <1>9, <2>3, <2>7, <2>8
<1>10. CASE w = TXBUFFER_SIZE - 1
  <2>1. w + 1 = TXBUFFER_SIZE BY <1>10
  <2>2. NextSlot(tx_head) = tx_tail BY <1>2, <2>1, NextSlotIsFree
  <2>3. gone' = written' /\ stale' = 0 BY <1>1, <2>2
  <2>4. Held' = 0 BY <1>1, <1>2, <2>3 DEF Held
  <2>5. tx_head' = Wrap(tx_tail + 0) BY <1>1, <1>2, <2>2, WrapZero
  <2>6. RingExact'
    BY <1>1, <1>2, <1>7, <2>3, <2>4, <2>5 DEF RingExact, Wrap
  <2>7. FramesFit' BY <1>1, <1>2, <2>4 DEF FramesFit
  <2>8. Oversize BY <1>2, <1>10 DEF Oversize
  <2>9. gone' \in 0 .. MaxByte /\ stale' \in Slots BY <1>8, <2>3
  <2> QED BY <1>1, <1>6, <1>8, <1>10, <2>3, <2>6, <2>7, <2>8, <2>9
<1> QED BY <1>2, <1>9, <1>10

LEMMA TelemetryStep ==
  ASSUME RingInvariant, TelemetryUpdate
  PROVE  /\ RingExact' /\ FramesFit'
         /\ todo' \in 0 .. MaxByte /\ size' \in 0 .. MaxByte
         /\ written' + todo' <= MaxByte
<1> DEFINE w == Held
<1> USE Sizes
<1>1. /\ at = "loop" /\ at' = "write" /\ tx_buff_has_space
      /\ UNCHANGED <<tx_buff, tx_head, tx_tail, written, gone, stale,
                     mode_select>>
  BY DEF TelemetryUpdate, Goto, At, ring, out, setup
<1>2. PICK n \in FrameSizes :
        written + n <= MaxByte /\ todo' = n /\ size' = n
  BY DEF TelemetryUpdate
<1>3. n \in Nat OBVIOUS
<1>4. /\ w \in Nat /\ w < TXBUFFER_SIZE /\ tx_tail \in Slots
      /\ written \in Nat /\ tx_head = Wrap(tx_tail + w)
  BY <1>1, HeadFacts DEF RingInvariant, RingTypes, RingExact
<1>5. w <= TXBUFFER_SIZE - SPACE BY <1>1, <1>4, SpaceMeansRoom
<1>6. Held' = w /\ NextSlot(tx_head)' = NextSlot(tx_head)
  BY <1>1 DEF Held, NextSlot
<1>7. /\ todo' \in 0 .. MaxByte /\ size' \in 0 .. MaxByte
      /\ written' + todo' <= MaxByte
  BY <1>1, <1>2, <1>3, <1>4
<1>8. FramesFit' BY <1>2, <1>3, <1>4, <1>5, <1>6 DEF FramesFit
<1>9. RingExact'
  BY <1>1, <1>6 DEF RingInvariant, RingExact, Wrap
<1> QED BY <1>7, <1>8, <1>9

\* While the tail is moved and the head is not yet, what lies between them is
\* from before; an interrupt that moves the tail then leaves the rest of the
\* ring for later.
LEMMA ResetTailStep ==
  ASSUME RingInvariant, ResetTail
  PROVE  RingExact' /\ stale' \in Slots
<1> USE Sizes
<1>1. /\ at = "tail" /\ at' = "head" /\ tx_tail' = 0
      /\ gone' = written /\ stale' = tx_head
      /\ UNCHANGED <<tx_buff, tx_head, written>>
      /\ tx_head \in Slots /\ written \in Nat
  BY DEF ResetTail, Goto, At, RingInvariant, RingTypes
<1>2. Held' = tx_head BY <1>1 DEF Held, Slots
<1>3. \A slot \in Slots : tx_buff[slot] <= written
  BY <1>1 DEF RingInvariant, RingExact
<1>4. Wrap(0 + tx_head) = tx_head BY <1>1, WrapZero DEF Slots
<1>5. RingExact'
  BY <1>1, <1>2, <1>3, <1>4 DEF RingExact, Wrap, Slots
<1> QED BY <1>1, <1>5

LEMMA ResetHeadStep ==
  ASSUME RingInvariant, ResetHead
  PROVE  RingExact' /\ stale' \in Slots /\ gone = written
<1> USE Sizes
<1>1. /\ at = "head" /\ at' = "rx_off" /\ tx_head' = 0
      /\ stale' = IF tx_tail = 0 THEN 0 ELSE TXBUFFER_SIZE - tx_tail
      /\ UNCHANGED <<tx_buff, tx_tail, written, gone, mode_select>>
      /\ tx_tail \in Slots /\ written \in Nat /\ gone = written
  BY DEF ResetHead, Goto, At, setup, RingInvariant, RingTypes, ResetQuiet
<1>2. stale' \in Slots /\ Held' = stale'
  BY <1>1 DEF Held, Slots
<1>3. \A slot \in Slots : tx_buff[slot] <= written
  BY <1>1 DEF RingInvariant, RingExact
<1>4. stale' > 0 => mode_select = MODE_SERIAL
  BY <1>1 DEF RingInvariant, ResetQuiet
<1>5. Wrap(tx_tail + stale') = 0
  BY <1>1 DEF Wrap, Slots
<1>6. RingExact'
  BY <1>1, <1>2, <1>3, <1>4, <1>5 DEF RingExact, Wrap, Slots
<1> QED BY <1>1, <1>2, <1>6

-----------------------------------------------------------------------------
(***************************************************************************)
(* What a reset relies on.                                                 *)
(***************************************************************************)
LEMMA QuietStep ==
  ASSUME RingInvariant, RingNext
  PROVE  ResetQuiet'
<1> USE DEF ResetQuiet
<1>1. ResetQuiet /\ RegisterOK /\ RingTypes BY DEF RingInvariant
<1>2. CASE Apart
  <2>1. UNCHANGED <<tx_tail, written, gone, setup>> BY <1>2, ApartLeaves
  <2>2. CASE at \in {"tail", "head"}
    BY <1>1, <1>2, <2>1, <2>2, ApartStays DEF setup
  <2>3. CASE at \notin {"tail", "head"} /\ ~ResetPause
    BY <1>2, <2>1, <2>3, ApartQuiet
  <2>4. CASE at \notin {"tail", "head"} /\ ResetPause
    <3>1. at = "reset" => reg \subseteq {"UDRIE0"}
      BY <1>1 DEF RegisterOK, EnableSteps
    <3> QED
      BY <2>4, <3>1 DEF ResetPause, RmwUCSR0B, Load, Store, At
  <2> QED BY <2>2, <2>3, <2>4
<1>3. CASE UdreSend
  <2>1. UNCHANGED <<at, written, mode_select>> /\ "UDRIE0" \in UCSR0B
    BY <1>3 DEF UdreSend, UdrePending, main, setup
  <2>2. gone = written => gone' = gone
    <3>1. gone \in Nat /\ written \in Nat BY <1>1 DEF RingTypes
    <3> QED BY <1>3, <3>1, SendStep
  <2> QED BY <1>1, <2>1, <2>2
<1>4. CASE TelemetryUpdate BY <1>4 DEF TelemetryUpdate, Goto
<1>5. CASE Serial_write BY <1>5 DEF Serial_write, StoreByteAt, Goto
<1>6. CASE PublishHead BY <1>6 DEF PublishHead, Goto
<1>7. CASE ProtocolInit BY <1>7 DEF ProtocolInit, Goto
<1>8. CASE ResetTail
  <2>1. /\ at = "tail" /\ gone' = written' /\ tx_tail' = 0
        /\ UNCHANGED <<UCSR0B, mode_select>>
    BY <1>8 DEF ResetTail, Goto, At, setup
  <2> QED BY <1>1, <2>1
<1>9. CASE ResetHead BY <1>9 DEF ResetHead, Goto
<1> QED BY NextCases, <1>2, <1>3, <1>4, <1>5, <1>6, <1>7, <1>8, <1>9

-----------------------------------------------------------------------------
(***************************************************************************)
(* The invariant.                                                          *)
(***************************************************************************)
LEMMA RingInvariantInit == RingInit => RingInvariant
<1> SUFFICES ASSUME RingInit PROVE RingInvariant OBVIOUS
<1> USE Sizes DEF RingInit
<1>1. RingTypes BY DEF RingTypes, Slots
<1>2. Held = 0 BY DEF Held
<1>3. RingExact
  <2>1. \A slot \in Slots : tx_buff[slot] <= written OBVIOUS
  <2> QED BY <1>2, <2>1, WrapZero DEF RingExact
<1> QED
  BY <1>1, <1>2, <1>3 DEF RingInvariant, RegisterOK, FrameInProgress, FramesFit,
     ResetQuiet, FlagSteps, EnableSteps

\* The parts of RingTypes that the lemmas above leave.
LEMMA CountStep ==
  ASSUME RingInvariant, RingNext
  PROVE  /\ RingExact' /\ FrameInProgress' /\ FramesFit'
         /\ tx_buff' \in [Slots -> 0 .. MaxByte]
         /\ tx_head' \in Slots /\ tx_tail' \in Slots
         /\ UDR0' \in 0 .. MaxByte /\ todo' \in 0 .. MaxByte
         /\ size' \in 0 .. MaxByte /\ stale' \in Slots
         /\ written' \in 0 .. MaxByte /\ gone' \in 0 .. MaxByte
         /\ mode_select' \in Modes /\ resets' \in 0 .. MaxResets
<1> USE Sizes DEF setup
<1>1. RingTypes /\ FrameInProgress /\ FramesFit /\ RingExact
  BY DEF RingInvariant
<1>2. /\ at' \in {"write", "publish"} => todo' > 0
      /\ at' \notin {"write", "publish", "resume", "enable"} => todo' = 0
  BY <1>1, StepStep
<1>3. CASE Apart
  <2>1. /\ UNCHANGED <<tx_buff, tx_head, tx_tail, written, gone, stale, UDR0,
                       todo, size, setup>>
        /\ at' \in {"publish", "head"} => at' = at
    BY <1>3, ApartLeaves, ApartStep
  <2>2. at \in {"publish", "head"} => at' = at BY <1>3, ApartStays
  <2>3. Held' = Held /\ NextSlot(tx_head)' = NextSlot(tx_head)
    BY <2>1 DEF Held, NextSlot
  <2>4. RingExact' BY <1>1, <2>1, <2>2, <2>3 DEF RingExact, Wrap
  <2>5. FrameInProgress' BY <1>1, <1>2, <2>1, <2>3 DEF FrameInProgress
  <2>6. FramesFit' BY <1>1, <2>1, <2>3 DEF FramesFit
  <2> QED BY <1>1, <2>1, <2>4, <2>5, <2>6 DEF RingTypes
<1>4. CASE UdreSend
  <2>1. /\ UNCHANGED <<tx_buff, tx_head, written, todo, size, at, setup>>
        /\ tx_tail' = NextSlot(tx_tail)
    BY <1>4 DEF UdreSend, main, frame
  <2>2. tx_tail' \in Slots BY <1>1, <2>1, NextSlotIsSlot DEF RingTypes
  <2>3. UDR0' \in 0 .. MaxByte BY <1>1, <1>4, SendStep DEF RingTypes
  <2>4. FrameInProgress'
    BY <1>1, <1>2, <2>1 DEF FrameInProgress, NextSlot
  <2> QED BY <1>1, <1>4, <2>1, <2>2, <2>3, <2>4, SendStep DEF RingTypes
<1>5. CASE TelemetryUpdate
  <2>1. /\ UNCHANGED <<tx_buff, tx_head, tx_tail, written, gone, stale, UDR0,
                       setup>>
        /\ at' = "write"
    BY <1>5 DEF TelemetryUpdate, Goto, ring, out
  <2>2. FrameInProgress'
    BY <1>2, <1>5, <2>1, TelemetryStep DEF FrameInProgress
  <2> QED BY <1>1, <1>5, <2>1, <2>2, TelemetryStep DEF RingTypes
<1>6. CASE Serial_write
  <2>1. /\ UNCHANGED <<tx_head, tx_tail, written, gone, stale, UDR0, todo, size,
                       setup>>
        /\ at' = "publish"
    BY <1>6 DEF Serial_write, StoreByteAt, Goto, out, frame
  <2>2. FrameInProgress'
    BY <1>1, <1>2, <1>6, <2>1, WriteStep DEF FrameInProgress, NextSlot
  <2>3. FramesFit' BY <1>1, <2>1 DEF FramesFit, Held
  <2> QED BY <1>1, <1>6, <2>1, <2>2, <2>3, WriteStep DEF RingTypes
<1>7. CASE PublishHead
  <2>1. UNCHANGED <<tx_buff, tx_tail, UDR0, size, setup>> /\ at' = "resume"
    BY <1>7 DEF PublishHead, Goto
  <2>2. FrameInProgress'
    BY <1>2, <1>7, <2>1, PublishStep DEF FrameInProgress
  <2> QED BY <1>1, <1>7, <2>1, <2>2, PublishStep DEF RingTypes
<1>8. CASE ProtocolInit
  <2>1. /\ UNCHANGED <<tx_buff, tx_head, tx_tail, written, gone, stale, UDR0,
                       todo, size>>
        /\ at = "loop" /\ at' = "reset"
        /\ mode_select' = mode_select /\ resets' \in 0 .. MaxResets
    BY <1>1, <1>8 DEF ProtocolInit, Goto, At, ring, out, frame, RingTypes
  <2>2. Held' = Held /\ NextSlot(tx_head)' = NextSlot(tx_head)
    BY <2>1 DEF Held, NextSlot
  <2>3. RingExact' BY <1>1, <2>1, <2>2 DEF RingExact, Wrap
  <2>4. FrameInProgress' BY <1>1, <1>2, <2>1 DEF FrameInProgress
  <2>5. FramesFit' BY <1>1, <2>1, <2>2 DEF FramesFit
  <2> QED BY <1>1, <2>1, <2>3, <2>4, <2>5 DEF RingTypes
<1>9. CASE ResetTail
  <2>1. /\ UNCHANGED <<tx_buff, tx_head, written, UDR0, todo, size, setup>>
        /\ tx_tail' = 0 /\ at' = "head" /\ at = "tail" /\ gone' = written
    BY <1>9 DEF ResetTail, Goto, At, frame
  <2>2. todo = 0 BY <1>1, <2>1 DEF FrameInProgress
  <2>3. FrameInProgress' BY <1>1, <1>2, <2>1 DEF FrameInProgress
  <2>4. FramesFit' BY <2>1, <2>2 DEF FramesFit
  <2> QED BY <1>1, <1>9, <2>1, <2>3, <2>4, ResetTailStep DEF RingTypes
<1>10. CASE ResetHead
  <2>1. /\ UNCHANGED <<tx_buff, tx_tail, written, gone, UDR0, todo, size, setup>>
        /\ tx_head' = 0 /\ at' = "rx_off" /\ at = "head"
    BY <1>10 DEF ResetHead, Goto, At, frame
  <2>2. todo = 0 BY <1>1, <2>1 DEF FrameInProgress
  <2>3. FrameInProgress' BY <1>1, <1>2, <2>1 DEF FrameInProgress
  <2>4. FramesFit' BY <2>1, <2>2 DEF FramesFit
  <2> QED BY <1>1, <1>10, <2>1, <2>3, <2>4, ResetHeadStep DEF RingTypes
<1> QED
  BY NextCases, <1>3, <1>4, <1>5, <1>6, <1>7, <1>8, <1>9, <1>10

LEMMA RingInvariantNext ==
  ASSUME RingInvariant, [RingNext]_ringVars
  PROVE  RingInvariant'
<1>1. CASE RingNext
  <2>1. RingTypes /\ RegisterOK /\ FrameInProgress BY DEF RingInvariant
  <2>2. RegisterOK' /\ RingExact' /\ FrameInProgress' /\ FramesFit'
    BY <1>1, <2>1, BitsStep, CountStep
  <2>3. ResetQuiet' BY <1>1, QuietStep
  <2>4. RingTypes'
    BY <1>1, <2>1, BitsStep, CountStep, StepStep DEF RingTypes, Steps
  <2> QED BY <2>2, <2>3, <2>4 DEF RingInvariant
<1>2. CASE UNCHANGED ringVars
  BY <1>2 DEF ringVars, ring, main, frame, out, setup, RingInvariant, RingTypes,
     RegisterOK, FrameInProgress, FramesFit, ResetQuiet, RingExact, Held, Wrap,
     NextSlot
<1> QED BY <1>1, <1>2

-----------------------------------------------------------------------------
\* Whatever the frames' lengths and the interrupts' times, the ring holds what
\* was written and has not left, behind what a reset has left there; it loses
\* bytes only to a frame that is too long, and only resets while frames are
\* received leave anything (serial.cc: Serial_write, serial_reset_buf and the
\* transmit interrupt against the pauses of serial.hh).
THEOREM RingInvariantHolds == RingSpec => []RingInvariant
<1>1. RingInvariant /\ [RingNext]_ringVars => RingInvariant'
  BY RingInvariantNext
<1> QED BY <1>1, RingInvariantInit, PTL DEF RingSpec

\* Of that, the part about the contents of the ring.
THEOREM RingHoldsWaitingBytes == RingSpec => []RingExact
<1>1. RingInvariant => RingExact BY DEF RingInvariant
<1> QED BY <1>1, RingInvariantHolds, PTL

-----------------------------------------------------------------------------
LEMMA QueueStep ==
  ASSUME RingInvariant, [RingNext]_ringVars
  PROVE  [Queue!Next]_(Queue!vars)
<1> USE Sizes DEF Queue!vars
<1>1. CASE Apart BY <1>1, ApartLeaves
<1>2. CASE UdreSend
  <2>1. UNCHANGED written BY <1>2 DEF UdreSend
  <2>2. CASE stale > 0 /\ stale' = stale - 1 /\ gone' = gone
    BY <1>2, <2>1, <2>2, SendStep DEF Queue!Next, Queue!SendStale
  <2>3. CASE /\ stale = 0 /\ stale' = 0 /\ gone < written
             /\ gone' = gone + 1 /\ UDR0' = gone'
    BY <2>1, <2>3 DEF Queue!Next, Queue!Send
  <2> QED BY <1>2, <2>2, <2>3, SendStep
<1>3. CASE PublishHead
  <2>1. written' = written + 1 /\ UDR0' = UDR0
    BY <1>3 DEF PublishHead, Goto
  <2>2. CASE Held < TXBUFFER_SIZE - 1 /\ gone' = gone /\ stale' = stale
    BY <2>1, <2>2 DEF Queue!Next, Queue!Put, Queue!Held, Held
  <2>3. CASE Held = TXBUFFER_SIZE - 1 /\ Oversize /\ gone' = written' /\ stale' = 0
    BY <2>1, <2>3 DEF Queue!Next, Queue!Overrun, Queue!Held, Held
  <2> QED BY <1>3, <2>2, <2>3, PublishStep
<1>4. CASE ResetTail \/ ResetHead
  <2>1. gone' = written /\ UNCHANGED <<written, UDR0>>
    BY <1>4, ResetHeadStep DEF ResetTail, ResetHead, Goto
  <2>2. stale' \in 0 .. TXBUFFER_SIZE - 1
    BY <1>4, ResetTailStep, ResetHeadStep DEF Slots
  <2> QED BY <2>1, <2>2 DEF Queue!Next, Queue!Discard
<1>5. CASE TelemetryUpdate \/ Serial_write \/ ProtocolInit
  BY <1>5 DEF TelemetryUpdate, Serial_write, StoreByteAt, ProtocolInit, Goto, out
<1>6. CASE UNCHANGED ringVars BY <1>6 DEF ringVars, out
<1> QED BY <1>1, <1>2, <1>3, <1>4, <1>5, <1>6, NextCases

\* The ring implements the queue: telemetry bytes leave in the order they
\* were written, each once, whatever the interleaving of the main program,
\* the transmit interrupt and the receive interrupt.
THEOREM RingImplementsQueue == RingSpec => QueueSpec
<1>1. RingInit => Queue!Init BY DEF RingInit, Queue!Init
<1>2. RingInvariant /\ [RingNext]_ringVars => [Queue!Next]_(Queue!vars)
  BY QueueStep
<1> QED
  BY <1>1, <1>2, RingInvariantHolds, PTL DEF RingSpec, QueueSpec, Queue!Spec
=============================================================================
