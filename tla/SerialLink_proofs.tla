------------------------- MODULE SerialLink_proofs --------------------------
(***************************************************************************)
(* LinkInvariant is inductive, hence SerialLink keeps its types, decodes    *)
(* whole frames in the order they were sent, hands over every undamaged    *)
(* one and leaves protocol callbacks undisturbed, for every frame length   *)
(* and number of frames.                                                   *)
(***************************************************************************)
EXTENDS SerialLink, TLAPS

\* The arithmetic facts about the constants.
LEMMA Sizes ==
  /\ RXBUFFER_SIZE \in Nat /\ RXBUFFER_SIZE > 1
  /\ RXBUFFER_SIZE \in 0 .. RXBUFFER_SIZE
  /\ MaxFrames \in Nat /\ UdrValues \subseteq Nat
BY SizeAssumption

\* No byte holds a bit of another one, nor does the register.
BitsApart ==
  /\ "RX_MISSED_BUFF" \notin protocol_flags \cup UCSR0B
  /\ "RX_DONOTUPDTAE" \notin protocol_flags \cup UCSR0B
  /\ "RX_FLAG" \notin protocol_flags2 \cup UCSR0B
  /\ mainAt \in FlagSteps \cup EnableSteps =>
       "RX_MISSED_BUFF" \notin reg /\ "RX_DONOTUPDTAE" \notin reg
  /\ mainAt \in Flag2Steps \cup EnableSteps => "RX_FLAG" \notin reg

LEMMA BitsAreApart == LinkTypes /\ RegisterOK => BitsApart
BY DEF LinkTypes, BitType, RegisterOK, BitsApart, FlagBits, FlagBits2, IrqBits

-----------------------------------------------------------------------------
(***************************************************************************)
(* What each party leaves alone.                                           *)
(***************************************************************************)
LEMMA WireLeaves == Wire => UNCHANGED <<overlap, buffers, flags, UCSR0B, main>>
BY DEF Wire, StartFrame, LoseByte, CutFrame, CompareMatch

LEMMA InterruptLeaves == LinkInterrupt => UNCHANGED main
BY DEF LinkInterrupt, RxHeader, RxNoHeader, LookForHeader, RxByte, RxGoodFrame,
   RxMissedFrame, StoreByte, RxError, ErrorByte, RxExit, CompbEnter,
   TimerExpired, CompbExit, TxDrained

LEMMA LoopLeaves == Loop => UNCHANGED <<wire, overlap, buffers, timer, ctx, taken>>
BY DEF Loop, Elsewhere, OtherFlag, OtherFlag2, TX_MAIN_PAUSE_on, TxPause,
   LinkCallback, TX_MAIN_PAUSE_off, TestResume, EnableTx, RmwFlags, RmwFlags2,
   RmwUCSR0B, Load, Store, Goto

LEMMA DecodeLeaves ==
  Decode => /\ UNCHANGED <<wire, rx_buff, idx, discard_frame, accepted, timer, ctx>>
            /\ overlap' \in {overlap, 0}
BY DEF Decode, update_serial, RX_DONOTUPDTAE_on, RX_FLAG_off, ReadControl,
   ReadChannels, RX_DONOTUPDTAE_off, MaskRx, TakeMissed, TakeMissedBuffer,
   UnmaskRx, INPUT_SIGNAL_on, RmwFlags, RmwFlags2, RmwUCSR0B, Load, Store,
   Goto, buffers

\* Only these steps of the main program touch rx_ok_buff or taken.
LEMMA DecodeBuffers ==
  Decode => ReadControl \/ ReadChannels \/ TakeMissed
              \/ UNCHANGED <<rx_ok_buff, taken>>
BY DEF Decode, update_serial, RX_DONOTUPDTAE_on, RX_FLAG_off,
   RX_DONOTUPDTAE_off, MaskRx, UnmaskRx, INPUT_SIGNAL_on, RmwFlags, RmwFlags2,
   RmwUCSR0B, Load, Store, Goto, buffers

-----------------------------------------------------------------------------
(***************************************************************************)
(* Types.                                                                  *)
(***************************************************************************)
LEMMA LinkTypeStep == ASSUME LinkTypes, LinkNext PROVE LinkType'
<1> USE Sizes DEF LinkTypes, LinkType, GoodByte, RxEnter
<1>1. CASE StartFrame
  <2>1. sending \in Nat /\ sending + 1 <= MaxFrames BY <1>1 DEF StartFrame
  <2>2. sending + 1 \in 0 .. MaxFrames /\ 0 \in 0 .. RXBUFFER_SIZE BY <2>1
  <2> QED BY <1>1, <2>1, <2>2 DEF StartFrame, timer
<1>2. CASE LoseByte BY <1>2 DEF LoseByte, timer
<1>3. CASE CutFrame BY <1>3 DEF CutFrame, timer
<1>4. CASE CompareMatch BY <1>4 DEF CompareMatch, wire
<1>5. CASE RxHeader BY <1>5 DEF RxHeader, LookForHeader, StartTimer
<1>6. CASE RxNoHeader BY <1>6 DEF RxNoHeader, LookForHeader, timer
<1>7. CASE RxByte BY <1>7 DEF RxByte, StoreByte, timer
<1>8. CASE RxGoodFrame BY <1>8 DEF RxGoodFrame, StoreByte, timer
<1>9. CASE RxMissedFrame BY <1>9 DEF RxMissedFrame, StoreByte, timer
<1>10. CASE RxError BY <1>10 DEF RxError, ErrorByte, timer
<1>11. CASE RxExit BY <1>11 DEF RxExit, wire
<1>12. CASE CompbEnter BY <1>12 DEF CompbEnter, TimerExpired, wire
<1>13. CASE CompbExit BY <1>13 DEF CompbExit, wire
<1>14. CASE TxDrained BY <1>14 DEF TxDrained, wire, timer
<1>15. CASE Decode
  <2>1. 0 \in 0 .. MaxFrames OBVIOUS
  <2>2. overlap' \in 0 .. MaxFrames BY <1>15, <2>1, DecodeLeaves
  <2> QED BY <1>15, <2>2, DecodeLeaves DEF wire, timer
<1>16. CASE Loop BY <1>16, LoopLeaves DEF wire, timer
<1> QED
  BY <1>1, <1>2, <1>3, <1>4, <1>5, <1>6, <1>7, <1>8, <1>9, <1>10, <1>11,
     <1>12, <1>13, <1>14, <1>15, <1>16 DEF LinkNext, Wire, LinkInterrupt

\* The byte on the wire can be stored.
LEMMA IncomingIsByte == LinkTypes /\ pos < RXBUFFER_SIZE => Incoming \in Bytes
BY Sizes DEF LinkTypes, LinkType, Incoming, Bytes, Slots

LEMMA BufferTypeStep == ASSUME LinkTypes, LinkNext PROVE BufferType'
<1> USE DEF LinkTypes, BufferType
<1>1. CASE RxHeader \/ RxNoHeader
  <2>1. rx_buff' \in [Slots -> Bytes] /\ idx' \in Nat /\ idx' \in Slots
    BY <1>1, IncomingIsByte, Sizes
       DEF RxHeader, RxNoHeader, LookForHeader, GoodByte, Slots
  <2> QED BY <1>1, <2>1 DEF RxHeader, RxNoHeader, LookForHeader, main
<1>2. CASE RxByte
  <2>1. rx_buff' \in [Slots -> Bytes] /\ idx' \in Nat /\ idx' \in Slots
    BY <1>2, IncomingIsByte, Sizes DEF RxByte, StoreByte, GoodByte, Slots
  <2> QED BY <1>2, <2>1 DEF RxByte, StoreByte, main
<1>3. CASE RxGoodFrame \/ RxMissedFrame
  <2>1. rx_buff' \in [Slots -> Bytes] /\ idx' \in Nat
    BY <1>3, IncomingIsByte, Sizes
       DEF RxGoodFrame, RxMissedFrame, StoreByte, GoodByte, Slots
  <2>2. accepted' \in 0 .. MaxFrames /\ discard_frame' = 1
    BY <1>3 DEF RxGoodFrame, RxMissedFrame, LinkType
  <2> QED BY <1>3, <2>1, <2>2 DEF RxGoodFrame, RxMissedFrame, StoreByte, main
<1>4. CASE RxError BY <1>4, Sizes DEF RxError, ErrorByte, main
<1>5. CASE CompbEnter BY <1>5 DEF CompbEnter, TimerExpired, main
<1>6. CASE RxExit \/ CompbExit \/ TxDrained
  BY <1>6 DEF RxExit, CompbExit, TxDrained, buffers, main
<1>7. CASE ReadControl BY <1>7 DEF ReadControl, Goto, buffers
<1>8. CASE ReadChannels BY <1>8 DEF ReadChannels, Goto, buffers
<1>9. CASE TakeMissed BY <1>9 DEF TakeMissed, TakeMissedBuffer
<1>10. CASE Decode /\ UNCHANGED <<rx_ok_buff, taken>> BY <1>10, DecodeLeaves
<1>11. CASE Loop BY <1>11, LoopLeaves DEF buffers
<1>12. CASE Wire BY <1>12, WireLeaves DEF buffers, main
<1> QED
  BY <1>1, <1>2, <1>3, <1>4, <1>5, <1>6, <1>7, <1>8, <1>9, <1>10, <1>11,
     <1>12, DecodeBuffers DEF LinkNext, LinkInterrupt

LEMMA BitTypeStep == ASSUME LinkTypes, RegisterOK, LinkNext PROVE BitType'
<1> USE DEF LinkTypes, BitType, FlagBits, FlagBits2, IrqBits
<1>1. CASE Wire BY <1>1, WireLeaves DEF flags, main
<1>2. CASE RxHeader \/ RxNoHeader
  BY <1>2 DEF RxHeader, RxNoHeader, LookForHeader, tx_pause, main
<1>3. CASE RxByte \/ RxGoodFrame \/ RxMissedFrame
  BY <1>3 DEF RxByte, RxGoodFrame, RxMissedFrame, StoreByte, flags, main
<1>4. CASE RxError BY <1>4 DEF RxError, ErrorByte, flags, main
<1>5. CASE RxExit BY <1>5 DEF RxExit, tx_resume, main
<1>6. CASE CompbEnter BY <1>6 DEF CompbEnter, TimerExpired, flags, main
<1>7. CASE CompbExit BY <1>7 DEF CompbExit, tx_resume, flags, main
<1>8. CASE TxDrained BY <1>8 DEF TxDrained, tx_pause, flags, main
<1>9. CASE Decode \/ Loop
  <2> USE DEF RegisterOK, FlagSteps, Flag2Steps, EnableSteps, SetBits, flags
  <2>1. CASE update_serial BY <2>1 DEF update_serial, Goto
  <2>2. CASE RX_DONOTUPDTAE_on \/ RX_DONOTUPDTAE_off
    BY <2>2 DEF RX_DONOTUPDTAE_on, RX_DONOTUPDTAE_off, RmwFlags2, Load, Store
  <2>3. CASE RX_FLAG_off \/ OtherFlag
    BY <2>3 DEF RX_FLAG_off, OtherFlag, RmwFlags, Load, Store
  <2>4. CASE ReadControl \/ ReadChannels
    BY <2>4 DEF ReadControl, ReadChannels, Goto
  <2>5. CASE MaskRx \/ TxPause \/ EnableTx
    BY <2>5 DEF MaskRx, TxPause, EnableTx, RmwUCSR0B, Load, Store
  <2>6. CASE TakeMissed BY <2>6 DEF TakeMissed, TakeMissedBuffer
  <2>7. CASE UnmaskRx BY <2>7 DEF UnmaskRx, Load, Store
  <2>8. CASE INPUT_SIGNAL_on \/ OtherFlag2
    BY <2>8 DEF INPUT_SIGNAL_on, OtherFlag2, RmwFlags2, Load, Store
  <2>9. CASE TX_MAIN_PAUSE_on \/ TX_MAIN_PAUSE_off
    BY <2>9 DEF TX_MAIN_PAUSE_on, TX_MAIN_PAUSE_off, RmwFlags2, Load, Store
  <2>10. CASE Elsewhere \/ LinkCallback \/ TestResume
    BY <2>10 DEF Elsewhere, LinkCallback, TestResume, Goto
  <2> QED
    BY <1>9, <2>1, <2>2, <2>3, <2>4, <2>5, <2>6, <2>7, <2>8, <2>9, <2>10
       DEF Decode, Loop
<1> QED
  BY <1>1, <1>2, <1>3, <1>4, <1>5, <1>6, <1>7, <1>8, <1>9
     DEF LinkNext, LinkInterrupt

\* The main program moves between its steps; a load is stored at its step.
LEMMA StepTypeStep ==
  ASSUME LinkTypes, RegisterOK, LinkNext
  PROVE  mainAt' \in LinkSteps /\ half' \in {"load", "store"} /\ RegisterOK'
<1> USE DEF LinkTypes, RegisterOK, BitType, LinkSteps, FlagSteps, Flag2Steps,
            EnableSteps
<1>1. CASE Wire \/ LinkInterrupt BY <1>1, WireLeaves, InterruptLeaves DEF main
<1>2. CASE update_serial BY <1>2 DEF update_serial, Goto
<1>3. CASE RX_DONOTUPDTAE_on \/ RX_DONOTUPDTAE_off
  BY <1>3 DEF RX_DONOTUPDTAE_on, RX_DONOTUPDTAE_off, RmwFlags2, Load, Store
<1>4. CASE RX_FLAG_off \/ OtherFlag
  BY <1>4 DEF RX_FLAG_off, OtherFlag, RmwFlags, Load, Store
<1>5. CASE ReadControl \/ ReadChannels
  BY <1>5 DEF ReadControl, ReadChannels, Goto
<1>6. CASE MaskRx \/ TxPause \/ EnableTx
  BY <1>6 DEF MaskRx, TxPause, EnableTx, RmwUCSR0B, Load, Store
<1>7. CASE TakeMissed BY <1>7 DEF TakeMissed, TakeMissedBuffer
<1>8. CASE UnmaskRx BY <1>8 DEF UnmaskRx, Load, Store
<1>9. CASE INPUT_SIGNAL_on \/ OtherFlag2
  BY <1>9 DEF INPUT_SIGNAL_on, OtherFlag2, RmwFlags2, Load, Store
<1>10. CASE TX_MAIN_PAUSE_on \/ TX_MAIN_PAUSE_off
  BY <1>10 DEF TX_MAIN_PAUSE_on, TX_MAIN_PAUSE_off, RmwFlags2, Load, Store
<1>11. CASE Elsewhere \/ LinkCallback \/ TestResume
  BY <1>11 DEF Elsewhere, LinkCallback, TestResume, Goto
<1> QED
  BY <1>1, <1>2, <1>3, <1>4, <1>5, <1>6, <1>7, <1>8, <1>9, <1>10, <1>11
     DEF LinkNext, Decode, Loop

-----------------------------------------------------------------------------
(***************************************************************************)
(* The parts of the argument.                                              *)
(***************************************************************************)
\* A byte that completes a frame completes a whole one: the collected bytes
\* are consecutive, so slot idx is the place of the byte on the wire.
LEMMA LastByteCompletes ==
  ASSUME LinkTypes, CollectsInStep, StoreByte, idx + 1 >= RXBUFFER_SIZE
  PROVE  IsWhole(rx_buff') /\ pos' = RXBUFFER_SIZE
<1>1. /\ idx \in Slots /\ pos \in Slots /\ sending \in 1 .. MaxFrames
      /\ rx_buff \in [Slots -> Bytes]
  BY Sizes DEF LinkTypes, LinkType, BufferType, CollectsInStep, StoreByte,
     GoodByte, Slots
<1>2. /\ idx <= pos
      /\ \A i \in Slots : i < idx => rx_buff[i] = <<sending, (pos - idx) + i>>
  BY DEF CollectsInStep, InProgress, StoreByte, GoodByte
<1>3. idx = RXBUFFER_SIZE - 1 /\ pos = idx BY <1>1, <1>2, Sizes DEF Slots
<1>4. \A i \in Slots : i # idx => rx_buff[i] = <<sending, i>>
  BY <1>1, <1>2, <1>3, Sizes DEF Slots
<1>5. rx_buff' = [rx_buff EXCEPT ![idx] = <<sending, pos>>] /\ pos' = pos + 1
  BY DEF StoreByte, GoodByte, Incoming
<1>6. rx_buff' = [i \in Slots |-> <<sending, i>>] BY <1>1, <1>3, <1>4, <1>5
<1>7. pos' = RXBUFFER_SIZE BY <1>1, <1>3, <1>5, Sizes DEF Slots
<1> QED BY <1>1, <1>6, <1>7 DEF IsWhole

LEMMA CollectsStep ==
  ASSUME LinkTypes, CollectsInStep, LinkNext PROVE CollectsInStep'
<1> USE Sizes DEF LinkTypes, LinkType, BufferType, CollectsInStep, InProgress
<1>1. CASE StartFrame BY <1>1 DEF StartFrame, GapElapsed, buffers, timer
<1>2. CASE LoseByte BY <1>2 DEF LoseByte, buffers, timer
<1>3. CASE CutFrame BY <1>3 DEF CutFrame, buffers, timer
<1>4. CASE CompareMatch BY <1>4 DEF CompareMatch, wire, buffers
<1>5. CASE RxHeader
  <2>1. /\ idx' = 1 /\ pos' = pos + 1 /\ sending' = sending /\ UCSR0A' = UCSR0A
        /\ TIMSK1' = {"OCIE1B"} /\ TIFR1' = {} /\ pos < RXBUFFER_SIZE
        /\ ctx = "main" \/ ctx = "compb"
        /\ ctx = "main" => ctx' = "rx"
        /\ rx_buff' = [rx_buff EXCEPT ![0] = <<sending, pos>>]
    BY <1>5 DEF RxHeader, LookForHeader, GoodByte, RxEnter, StartTimer, Incoming
  <2>2. \A i \in Slots : i < idx' => rx_buff'[i] = <<sending', (pos' - idx') + i>>
    BY <2>1 DEF Slots
  <2> QED BY <2>1, <2>2
<1>6. CASE RxNoHeader
  BY <1>6 DEF RxNoHeader, LookForHeader, GoodByte, RxEnter, timer
<1>7. CASE RxByte
  <2>1. /\ idx' = idx + 1 /\ pos' = pos + 1 /\ sending' = sending
        /\ UCSR0A' = UCSR0A /\ UNCHANGED <<TIMSK1, TIFR1>>
        /\ pos < RXBUFFER_SIZE /\ InProgress /\ UCSR0A = {}
        /\ discard_frame' = discard_frame /\ idx \in Slots
        /\ ctx = "main" /\ ctx' = "rx"
        /\ rx_buff' = [rx_buff EXCEPT ![idx] = <<sending, pos>>]
    BY <1>7 DEF RxByte, StoreByte, GoodByte, RxEnter, timer, Incoming
  <2>2. idx' <= pos' BY <2>1 DEF Slots
  <2>3. \A i \in Slots : i < idx' => rx_buff'[i] = <<sending', (pos' - idx') + i>>
    <3> SUFFICES ASSUME NEW i \in Slots, i < idx'
                 PROVE  rx_buff'[i] = <<sending', (pos' - idx') + i>>
      OBVIOUS
    <3>1. CASE i = idx BY <2>1, <3>1 DEF Slots
    <3>2. CASE i # idx BY <2>1, <3>2 DEF Slots
    <3> QED BY <3>1, <3>2
  <2> QED BY <2>1, <2>2, <2>3
<1>8. CASE RxGoodFrame
  BY <1>8 DEF RxGoodFrame, StoreByte, GoodByte, RxEnter, timer
<1>9. CASE RxMissedFrame
  BY <1>9 DEF RxMissedFrame, StoreByte, GoodByte, RxEnter, timer
<1>10. CASE RxError BY <1>10 DEF RxError, ErrorByte, RxEnter, timer
<1>11. CASE RxExit BY <1>11 DEF RxExit, wire, buffers
<1>12. CASE CompbEnter BY <1>12 DEF CompbEnter, TimerExpired, wire
<1>13. CASE CompbExit BY <1>13 DEF CompbExit, wire, buffers
<1>14. CASE TxDrained BY <1>14 DEF TxDrained, wire, buffers, timer
<1>15. CASE Decode BY <1>15, DecodeLeaves DEF wire, timer
<1>16. CASE Loop BY <1>16, LoopLeaves DEF wire, buffers, timer
<1> QED
  BY <1>1, <1>2, <1>3, <1>4, <1>5, <1>6, <1>7, <1>8, <1>9, <1>10, <1>11,
     <1>12, <1>13, <1>14, <1>15, <1>16 DEF LinkNext, Wire, LinkInterrupt

\* rx_buff stays whole while RX_MISSED_BUFF is up: no frame can begin.
LEMMA MissedStep ==
  ASSUME LinkTypes, RegisterOK, CollectsInStep, DecodesUndisturbed, MissedIsWhole,
         LinkNext
  PROVE  MissedIsWhole'
<1>1. BitsApart BY BitsAreApart
<1> USE <1>1 DEF MissedIsWhole, BitsApart, Decoding
<1>2. CASE Wire
  <2>1. UNCHANGED <<overlap, rx_buff, protocol_flags2, reg, mainAt>>
    BY <1>2, WireLeaves DEF buffers, flags, main
  <2>2. overlap # 0 /\ pos = RXBUFFER_SIZE => pos' = RXBUFFER_SIZE
    BY <1>2, Sizes DEF Wire, StartFrame, LoseByte, CutFrame, CompareMatch, GapElapsed,
       wire
  <2> QED BY <2>1, <2>2 DEF IsWhole
<1>3. CASE RxHeader \/ RxNoHeader
  BY <1>3, Sizes DEF RxHeader, RxNoHeader, LookForHeader, GoodByte, main
<1>4. CASE RxByte BY <1>4, Sizes DEF RxByte, StoreByte, GoodByte, flags, main
<1>5. CASE RxGoodFrame
  BY <1>5, Sizes DEF RxGoodFrame, StoreByte, GoodByte, main
<1>6. CASE RxMissedFrame
  <2>1. IsWhole(rx_buff') /\ pos' = RXBUFFER_SIZE
    BY <1>6, LastByteCompletes DEF RxMissedFrame
  <2>2. overlap' = sending /\ sending # 0
    BY <1>6 DEF RxMissedFrame, StoreByte, GoodByte, CollectsInStep
  <2>3. mainAt' \in Decoding
    BY <1>6 DEF RxMissedFrame, StoreByte, DecodesUndisturbed, main
  <2>4. IsWhole(rx_buff)' BY <2>1 DEF IsWhole
  <2> QED BY <2>1, <2>2, <2>3, <2>4
<1>7. CASE RxError BY <1>7, Sizes DEF RxError, ErrorByte, flags, main, IsWhole
<1>8. CASE RxExit BY <1>8 DEF RxExit, wire, buffers, main, IsWhole
<1>9. CASE CompbEnter
  BY <1>9 DEF CompbEnter, TimerExpired, wire, flags, main, IsWhole
<1>10. CASE CompbExit \/ TxDrained
  BY <1>10 DEF CompbExit, TxDrained, wire, buffers, flags, main, IsWhole
<1>11. CASE Decode \/ Loop
  <2>1. pos' = pos /\ rx_buff' = rx_buff
    BY <1>11, DecodeLeaves, LoopLeaves DEF wire, buffers
  <2> USE <2>1 DEF RegisterOK, FlagSteps, Flag2Steps, EnableSteps, SetBits,
                  flags, IsWhole
  <2>2. CASE update_serial BY <2>2 DEF update_serial, Goto
  <2>3. CASE RX_DONOTUPDTAE_on \/ RX_DONOTUPDTAE_off
    BY <2>3 DEF RX_DONOTUPDTAE_on, RX_DONOTUPDTAE_off, RmwFlags2, Load, Store
  <2>4. CASE RX_FLAG_off \/ OtherFlag
    BY <2>4 DEF RX_FLAG_off, OtherFlag, RmwFlags, Load, Store
  <2>5. CASE ReadControl \/ ReadChannels
    BY <2>5 DEF ReadControl, ReadChannels, Goto
  <2>6. CASE MaskRx BY <2>6 DEF MaskRx, RmwUCSR0B, Load, Store
  <2>7. CASE TxPause \/ EnableTx
    BY <2>7 DEF TxPause, EnableTx, RmwUCSR0B, Load, Store
  <2>8. CASE TakeMissed BY <2>8 DEF TakeMissed, TakeMissedBuffer, LinkTypes
  <2>9. CASE UnmaskRx BY <2>9 DEF UnmaskRx, Load, Store
  <2>10. CASE INPUT_SIGNAL_on \/ OtherFlag2
    BY <2>10 DEF INPUT_SIGNAL_on, OtherFlag2, RmwFlags2, Load, Store
  <2>11. CASE TX_MAIN_PAUSE_on \/ TX_MAIN_PAUSE_off
    BY <2>11 DEF TX_MAIN_PAUSE_on, TX_MAIN_PAUSE_off, RmwFlags2, Load, Store
  <2>12. CASE Elsewhere \/ LinkCallback \/ TestResume
    BY <2>12 DEF Elsewhere, LinkCallback, TestResume, Goto
  <2> QED
    BY <1>11, <2>2, <2>3, <2>4, <2>5, <2>6, <2>7, <2>8, <2>9, <2>10, <2>11,
       <2>12 DEF Decode, Loop
<1> QED
  BY <1>2, <1>3, <1>4, <1>5, <1>6, <1>7, <1>8, <1>9, <1>10, <1>11
     DEF LinkNext, LinkInterrupt

\* Only whole frames are handed over, by the interrupt or by TakeMissed.
LEMMA HandedOverStep ==
  ASSUME LinkTypes, RegisterOK, CollectsInStep, MissedIsWhole, HandedOverIsWhole,
         LinkNext
  PROVE  HandedOverIsWhole'
<1>1. BitsApart BY BitsAreApart
<1>2. IsWhole(rx_ok_buff)' <=> IsWhole(rx_ok_buff') BY DEF IsWhole
<1> USE <1>1, <1>2 DEF HandedOverIsWhole, BitsApart, Decoding
<1>3. CASE Wire BY <1>3, WireLeaves DEF buffers, flags, main
<1>4. CASE RxHeader \/ RxNoHeader
  BY <1>4 DEF RxHeader, RxNoHeader, LookForHeader, main
<1>5. CASE RxByte BY <1>5 DEF RxByte, StoreByte, flags, main
<1>6. CASE RxGoodFrame BY <1>6, LastByteCompletes DEF RxGoodFrame
<1>7. CASE RxMissedFrame BY <1>7 DEF RxMissedFrame, StoreByte, main
<1>8. CASE RxError BY <1>8 DEF RxError, ErrorByte, flags, main
<1>9. CASE RxExit BY <1>9 DEF RxExit, buffers, main
<1>10. CASE CompbEnter BY <1>10 DEF CompbEnter, TimerExpired, flags, main
<1>11. CASE CompbExit \/ TxDrained
  BY <1>11 DEF CompbExit, TxDrained, buffers, flags, main
<1>12. CASE Decode \/ Loop
  <2> USE DEF RegisterOK, FlagSteps, Flag2Steps, EnableSteps, SetBits, flags,
              buffers
  <2>1. CASE update_serial BY <2>1 DEF update_serial, Goto
  <2>2. CASE RX_DONOTUPDTAE_on \/ RX_DONOTUPDTAE_off
    BY <2>2 DEF RX_DONOTUPDTAE_on, RX_DONOTUPDTAE_off, RmwFlags2, Load, Store
  <2>3. CASE RX_FLAG_off \/ OtherFlag
    BY <2>3 DEF RX_FLAG_off, OtherFlag, RmwFlags, Load, Store
  <2>4. CASE ReadControl \/ ReadChannels
    BY <2>4 DEF ReadControl, ReadChannels, Goto
  <2>5. CASE MaskRx \/ TxPause \/ EnableTx
    BY <2>5 DEF MaskRx, TxPause, EnableTx, RmwUCSR0B, Load, Store
  <2>6. CASE TakeMissed
    BY <2>6 DEF TakeMissed, TakeMissedBuffer, MissedIsWhole
  <2>7. CASE UnmaskRx BY <2>7 DEF UnmaskRx, Load, Store
  <2>8. CASE INPUT_SIGNAL_on \/ OtherFlag2
    BY <2>8 DEF INPUT_SIGNAL_on, OtherFlag2, RmwFlags2, Load, Store
  <2>9. CASE TX_MAIN_PAUSE_on \/ TX_MAIN_PAUSE_off
    BY <2>9 DEF TX_MAIN_PAUSE_on, TX_MAIN_PAUSE_off, RmwFlags2, Load, Store
  <2>10. CASE Elsewhere \/ LinkCallback \/ TestResume
    BY <2>10 DEF Elsewhere, LinkCallback, TestResume, Goto
  <2> QED
    BY <1>12, <2>1, <2>2, <2>3, <2>4, <2>5, <2>6, <2>7, <2>8, <2>9, <2>10
       DEF Decode, Loop
<1> QED
  BY <1>3, <1>4, <1>5, <1>6, <1>7, <1>8, <1>9, <1>10, <1>11, <1>12
     DEF LinkNext, LinkInterrupt

\* The buffer under decoding is kept from the interrupt by RX_DONOTUPDTAE,
\* which no interrupt clears.
LEMMA DecodesStep ==
  ASSUME LinkTypes, RegisterOK, DecodesUndisturbed, LinkNext
  PROVE  DecodesUndisturbed'
<1>1. BitsApart BY BitsAreApart
<1> USE <1>1 DEF DecodesUndisturbed, BitsApart, Decoding
<1>2. CASE Wire BY <1>2, WireLeaves DEF buffers, flags, main
<1>3. CASE RxHeader \/ RxNoHeader
  BY <1>3 DEF RxHeader, RxNoHeader, LookForHeader, main
<1>4. CASE RxByte BY <1>4 DEF RxByte, StoreByte, flags, main
<1>5. CASE RxGoodFrame BY <1>5 DEF RxGoodFrame, StoreByte, main
<1>6. CASE RxMissedFrame BY <1>6 DEF RxMissedFrame, StoreByte, main
<1>7. CASE RxError BY <1>7 DEF RxError, ErrorByte, flags, main
<1>8. CASE RxExit BY <1>8 DEF RxExit, buffers, main
<1>9. CASE CompbEnter BY <1>9 DEF CompbEnter, TimerExpired, flags, main
<1>10. CASE CompbExit \/ TxDrained
  BY <1>10 DEF CompbExit, TxDrained, buffers, flags, main
<1>11. CASE Decode \/ Loop
  <2> USE DEF RegisterOK, FlagSteps, Flag2Steps, EnableSteps, SetBits, flags,
              buffers
  <2>1. CASE update_serial BY <2>1 DEF update_serial, Goto
  <2>2. CASE RX_DONOTUPDTAE_on \/ RX_DONOTUPDTAE_off
    BY <2>2 DEF RX_DONOTUPDTAE_on, RX_DONOTUPDTAE_off, RmwFlags2, Load, Store
  <2>3. CASE RX_FLAG_off \/ OtherFlag
    BY <2>3 DEF RX_FLAG_off, OtherFlag, RmwFlags, Load, Store
  <2>4. CASE ReadControl BY <2>4 DEF ReadControl, Goto
  <2>5. CASE ReadChannels BY <2>5 DEF ReadChannels, Goto
  <2>6. CASE MaskRx \/ TxPause \/ EnableTx
    BY <2>6 DEF MaskRx, TxPause, EnableTx, RmwUCSR0B, Load, Store
  <2>7. CASE TakeMissed BY <2>7 DEF TakeMissed, TakeMissedBuffer
  <2>8. CASE UnmaskRx BY <2>8 DEF UnmaskRx, Load, Store
  <2>9. CASE INPUT_SIGNAL_on \/ OtherFlag2
    BY <2>9 DEF INPUT_SIGNAL_on, OtherFlag2, RmwFlags2, Load, Store
  <2>10. CASE TX_MAIN_PAUSE_on \/ TX_MAIN_PAUSE_off
    BY <2>10 DEF TX_MAIN_PAUSE_on, TX_MAIN_PAUSE_off, RmwFlags2, Load, Store
  <2>11. CASE Elsewhere \/ LinkCallback \/ TestResume
    BY <2>11 DEF Elsewhere, LinkCallback, TestResume, Goto
  <2> QED
    BY <1>11, <2>1, <2>2, <2>3, <2>4, <2>5, <2>6, <2>7, <2>8, <2>9, <2>10,
       <2>11 DEF Decode, Loop
<1> QED
  BY <1>2, <1>3, <1>4, <1>5, <1>6, <1>7, <1>8, <1>9, <1>10, <1>11
     DEF LinkNext, LinkInterrupt

\* The two halves of a decoded frame come from the same hand-over.
LEMMA IntegrityStep ==
  ASSUME LinkTypes, HandedOverIsWhole, DecodesUndisturbed, FrameIntegrity, LinkNext
  PROVE  FrameIntegrity'
<1>1. IsWhole(taken)' <=> IsWhole(taken') BY DEF IsWhole
<1> USE <1>1 DEF FrameIntegrity, Decoding
<1>2. CASE Wire \/ LinkInterrupt BY <1>2, WireLeaves, InterruptLeaves DEF main
<1>3. CASE update_serial BY <1>3 DEF update_serial, Goto
<1>4. CASE RX_DONOTUPDTAE_on \/ RX_FLAG_off
  BY <1>4 DEF RX_DONOTUPDTAE_on, RX_FLAG_off, RmwFlags, RmwFlags2, Load, Store
<1>5. CASE ReadControl BY <1>5 DEF ReadControl, Goto
<1>6. CASE ReadChannels
  <2>1. IsWhole(rx_ok_buff) BY <1>6 DEF ReadChannels, Goto, HandedOverIsWhole
  <2>2. \A i \in Slots : i < CONTROL_BYTES => taken[i] = rx_ok_buff[i]
    BY <1>6 DEF ReadChannels, Goto, DecodesUndisturbed
  <2>3. taken' = rx_ok_buff
    <3>1. rx_ok_buff \in [Slots -> Bytes] BY DEF LinkTypes, BufferType
    <3>2. taken' = [i \in Slots |-> rx_ok_buff[i]]
      BY <1>6, <2>2 DEF ReadChannels
    <3> QED BY <3>1, <3>2
  <2> QED BY <2>1, <2>3
<1>7. CASE RX_DONOTUPDTAE_off
  BY <1>7 DEF RX_DONOTUPDTAE_off, RmwFlags2, Load, Store
<1>8. CASE MaskRx BY <1>8 DEF MaskRx, RmwUCSR0B, Load, Store
<1>9. CASE TakeMissed BY <1>9 DEF TakeMissed, TakeMissedBuffer
<1>10. CASE UnmaskRx BY <1>10 DEF UnmaskRx, Load, Store
<1>11. CASE INPUT_SIGNAL_on
  BY <1>11 DEF INPUT_SIGNAL_on, RmwFlags2, Load, Store
<1>12. CASE Loop
  BY <1>12 DEF Loop, Elsewhere, OtherFlag, OtherFlag2, TX_MAIN_PAUSE_on,
     TxPause, LinkCallback, TX_MAIN_PAUSE_off, TestResume, EnableTx, RmwFlags,
     RmwFlags2, RmwUCSR0B, Load, Store, Goto
<1> QED
  BY <1>2, <1>3, <1>4, <1>5, <1>6, <1>7, <1>8, <1>9, <1>10, <1>11, <1>12
     DEF LinkNext, Decode

-----------------------------------------------------------------------------
\* The program starts in a state that satisfies the invariant.
LEMMA FrameInvariantInit == LinkInit => FrameInvariant
<1> SUFFICES ASSUME LinkInit PROVE FrameInvariant OBVIOUS
<1> USE Sizes DEF LinkInit
<1>1. LinkType BY DEF LinkType
<1>2. Zeroed \in [Slots -> Bytes] BY DEF Zeroed, Bytes
<1>3. BufferType BY <1>2 DEF BufferType, Slots
<1>4. BitType BY DEF BitType, IrqBits
<1>5. LinkTypes /\ RegisterOK
  BY <1>1, <1>3, <1>4
     DEF LinkTypes, LinkSteps, RegisterOK, FlagSteps, Flag2Steps, EnableSteps
<1>6. CollectsInStep BY DEF CollectsInStep, InProgress
<1>7. MissedIsWhole /\ HandedOverIsWhole /\ DecodesUndisturbed
  BY DEF MissedIsWhole, HandedOverIsWhole, DecodesUndisturbed, Decoding
<1>8. FrameIntegrity BY DEF FrameIntegrity
<1> QED BY <1>5, <1>6, <1>7, <1>8 DEF FrameInvariant

\* Every step of the wire, the interrupts and the main program preserves it.
LEMMA FrameInvariantNext == FrameInvariant /\ [LinkNext]_linkVars => FrameInvariant'
<1>1. ASSUME FrameInvariant, LinkNext PROVE FrameInvariant'
  <2> USE <1>1 DEF FrameInvariant
  <2>1. LinkTypes' /\ RegisterOK'
    BY LinkTypeStep, BufferTypeStep, BitTypeStep, StepTypeStep DEF LinkTypes
  <2>2. CollectsInStep' BY CollectsStep
  <2>3. MissedIsWhole' BY MissedStep
  <2>4. HandedOverIsWhole' BY HandedOverStep
  <2>5. DecodesUndisturbed' BY DecodesStep
  <2>6. FrameIntegrity' BY IntegrityStep
  <2> QED BY <2>1, <2>2, <2>3, <2>4, <2>5, <2>6
<1>2. ASSUME FrameInvariant, UNCHANGED linkVars PROVE FrameInvariant'
  <2> USE <1>2 DEF FrameInvariant, linkVars, wire, buffers, flags, timer, main
  <2>1. LinkTypes' BY DEF LinkTypes, LinkType, BufferType, BitType
  <2>2. RegisterOK' BY DEF RegisterOK
  <2>3. CollectsInStep' BY DEF CollectsInStep, InProgress
  <2>4. MissedIsWhole' BY DEF MissedIsWhole, IsWhole
  <2>5. HandedOverIsWhole' BY DEF HandedOverIsWhole, IsWhole
  <2>6. DecodesUndisturbed' BY DEF DecodesUndisturbed
  <2>7. FrameIntegrity' BY DEF FrameIntegrity, IsWhole
  <2> QED BY <2>1, <2>2, <2>3, <2>4, <2>5, <2>6, <2>7
<1> QED BY <1>1, <1>2

\* The inductive invariant holds of every behaviour.
THEOREM FrameInvariantHolds == LinkSpec => []FrameInvariant
BY FrameInvariantInit, FrameInvariantNext, PTL DEF LinkSpec

\* Type correctness: in particular rx_buff is only written inside its bounds,
\* whatever value a receive error leaves in idx.
THEOREM SerialLinkTypeOK == LinkSpec => []LinkTypes
<1>1. FrameInvariant => LinkTypes BY DEF FrameInvariant
<1> QED BY <1>1, FrameInvariantHolds, PTL

\* update_serial_data only ever decodes one whole frame of the radio.
THEOREM DecodedFramesAreWhole == LinkSpec => []FrameIntegrity
<1>1. FrameInvariant => FrameIntegrity BY DEF FrameInvariant
<1> QED BY <1>1, FrameInvariantHolds, PTL

-----------------------------------------------------------------------------
(***************************************************************************)
(* The pause around a protocol callback.                                   *)
(***************************************************************************)
\* No interrupt lowers TX_MAIN_PAUSE, nor enables the transmit interrupt
\* while it is up.
LEMMA InterruptRespectsPause ==
  ASSUME LinkTypes, LinkInterrupt, "TX_MAIN_PAUSE" \in protocol_flags2
  PROVE  /\ "TX_MAIN_PAUSE" \in protocol_flags2'
         /\ "UDRIE0" \in UCSR0B' => "UDRIE0" \in UCSR0B
<1> USE DEF tx_pause, tx_resume, IS_TX_PAUSE_on, flags
<1>1. CASE RxHeader \/ RxNoHeader
  BY <1>1 DEF RxHeader, RxNoHeader, LookForHeader
<1>2. CASE RxByte \/ RxGoodFrame \/ RxMissedFrame
  BY <1>2 DEF RxByte, RxGoodFrame, RxMissedFrame, StoreByte
<1>3. CASE RxError BY <1>3 DEF RxError, ErrorByte
<1>4. CASE RxExit BY <1>4 DEF RxExit
<1>5. CASE CompbEnter BY <1>5 DEF CompbEnter, TimerExpired
<1>6. CASE CompbExit BY <1>6 DEF CompbExit
<1>7. CASE TxDrained BY <1>7 DEF TxDrained
<1> QED
  BY <1>1, <1>2, <1>3, <1>4, <1>5, <1>6, <1>7 DEF LinkInterrupt

LEMMA PauseStep ==
  ASSUME LinkTypes, RegisterOK, PauseKept, CallbackUndisturbed, LinkNext
  PROVE  PauseKept' /\ CallbackUndisturbed'
<1> USE DEF PauseKept, CallbackUndisturbed, flags
<1>1. CASE Wire BY <1>1, WireLeaves DEF main
<1>2. CASE LinkInterrupt BY <1>2, InterruptLeaves, InterruptRespectsPause DEF main
<1>3. CASE Decode
  <2> SUFFICES mainAt' \notin {"pause", "callback", "pause_off"} OBVIOUS
  <2> QED
    BY <1>3 DEF Decode, update_serial, RX_DONOTUPDTAE_on, RX_FLAG_off,
       ReadControl, ReadChannels, RX_DONOTUPDTAE_off, MaskRx, TakeMissed,
       TakeMissedBuffer, UnmaskRx, INPUT_SIGNAL_on, RmwFlags, RmwFlags2,
       RmwUCSR0B, Load, Store, Goto
<1>4. CASE Elsewhere \/ TestResume \/ OtherFlag \/ OtherFlag2 \/ EnableTx
  <2> SUFFICES mainAt' \notin {"pause", "callback", "pause_off"} OBVIOUS
  <2> QED
    BY <1>4 DEF Elsewhere, TestResume, OtherFlag, OtherFlag2, EnableTx,
       RmwFlags, RmwFlags2, RmwUCSR0B, Load, Store, Goto
<1>5. CASE TX_MAIN_PAUSE_on
  BY <1>5 DEF TX_MAIN_PAUSE_on, RmwFlags2, Load, Store, SetBits
<1>6. CASE TxPause BY <1>6 DEF TxPause, RmwUCSR0B, Load, Store, SetBits
<1>7. CASE LinkCallback BY <1>7 DEF LinkCallback, Goto
<1>8. CASE TX_MAIN_PAUSE_off
  BY <1>8 DEF TX_MAIN_PAUSE_off, RmwFlags2, Load, Store, SetBits
<1> QED
  BY <1>1, <1>2, <1>3, <1>4, <1>5, <1>6, <1>7, <1>8 DEF LinkNext, Loop

-----------------------------------------------------------------------------
(***************************************************************************)
(* A frame without an error.                                               *)
(***************************************************************************)
\* What a receive interrupt does on a good byte of an undamaged frame: the
\* first is taken as a header, the others are stored at their place.
LEMMA CleanStep ==
  ASSUME LinkTypes, CollectsInStep, CleanInStep, CleanFrameAccepted, LinkNext
  PROVE  CleanInStep' /\ CleanFrameAccepted'
<1> USE Sizes DEF LinkTypes, LinkType, BufferType, CleanInStep,
        CleanFrameAccepted, InProgress
<1>1. CASE StartFrame
  <2>1. ~InProgress BY <1>1 DEF StartFrame, GapElapsed, CollectsInStep
  <2> QED BY <1>1, <2>1 DEF StartFrame, buffers
<1>2. CASE LoseByte \/ CutFrame BY <1>2 DEF LoseByte, CutFrame, buffers
<1>3. CASE CompareMatch BY <1>3 DEF CompareMatch, wire, buffers
<1>4. CASE RxHeader
  BY <1>4 DEF RxHeader, LookForHeader, GoodByte
<1>5. CASE RxNoHeader
  BY <1>5 DEF RxNoHeader, LookForHeader, GoodByte
<1>6. CASE RxByte BY <1>6 DEF RxByte, StoreByte, GoodByte, Slots
<1>7. CASE RxGoodFrame \/ RxMissedFrame
  BY <1>7 DEF RxGoodFrame, RxMissedFrame, StoreByte, GoodByte, Slots
<1>8. CASE RxError BY <1>8 DEF RxError, ErrorByte
<1>9. CASE RxExit \/ CompbExit \/ TxDrained
  BY <1>9 DEF RxExit, CompbExit, TxDrained, wire, buffers
<1>10. CASE CompbEnter
  <2>1. pos = RXBUFFER_SIZE
    BY <1>10 DEF CompbEnter, TimerExpired, CollectsInStep
  <2> QED BY <1>10, <2>1 DEF CompbEnter, TimerExpired, wire
<1>11. CASE Decode BY <1>11, DecodeLeaves DEF wire
<1>12. CASE Loop BY <1>12, LoopLeaves DEF wire, buffers
<1> QED
  BY <1>1, <1>2, <1>3, <1>4, <1>5, <1>6, <1>7, <1>8, <1>9, <1>10, <1>11,
     <1>12 DEF LinkNext, Wire, LinkInterrupt

-----------------------------------------------------------------------------
(***************************************************************************)
(* The order of frames.                                                    *)
(***************************************************************************)
\* The frames named in the buffers are numbers.
LEMMA FrameNumbers ==
  LinkTypes => /\ Decoded \in Nat /\ HandedOver \in Nat /\ Missed \in Nat
            /\ accepted \in Nat /\ sending \in Nat /\ overlap \in Nat
            /\ pos \in Nat /\ idx \in Nat
<1> SUFFICES ASSUME LinkTypes
             PROVE  /\ Decoded \in Nat /\ HandedOver \in Nat /\ Missed \in Nat
                    /\ accepted \in Nat /\ sending \in Nat /\ overlap \in Nat
                    /\ pos \in Nat /\ idx \in Nat
  OBVIOUS
<1>1. 0 \in Slots BY Sizes DEF Slots
<1>2. \A b \in Bytes : b[1] \in Nat BY Sizes DEF Bytes
<1>3. /\ taken[0] \in Bytes /\ rx_ok_buff[0] \in Bytes /\ rx_buff[0] \in Bytes
  BY <1>1 DEF LinkTypes, BufferType
<1>4. accepted \in Nat /\ sending \in Nat /\ overlap \in Nat /\ pos \in Nat
  BY Sizes DEF LinkTypes, LinkType, BufferType
<1> QED
  BY <1>2, <1>3, <1>4
     DEF Decoded, HandedOver, Missed, LinkTypes, BufferType

\* The frame that a last byte completes is the one on the wire, and newer
\* than any handed over so far.
LEMMA CompletedIsNewest ==
  ASSUME LinkTypes, CollectsInStep, NewerFramesNotified, StoreByte,
         idx + 1 >= RXBUFFER_SIZE
  PROVE  /\ Missed' = sending /\ accepted < sending /\ sending' = sending
         /\ pos' = RXBUFFER_SIZE
<1>1. 0 \in Slots BY Sizes DEF Slots
<1>2. IsWhole(rx_buff') /\ pos' = RXBUFFER_SIZE BY LastByteCompletes
<1>3. /\ idx \in Slots /\ pos \in Slots /\ rx_buff \in [Slots -> Bytes]
      /\ pos < RXBUFFER_SIZE
  BY Sizes DEF LinkTypes, LinkType, BufferType, StoreByte, GoodByte, Slots
<1>4. rx_buff'[idx] = <<sending, pos>> /\ sending' = sending
  BY <1>3 DEF StoreByte, GoodByte, Incoming
<1>5. PICK f \in 1 .. MaxFrames : rx_buff' = [i \in Slots |-> <<f, i>>]
  BY <1>2 DEF IsWhole
<1>6. rx_buff'[idx] = <<f, idx>> /\ rx_buff'[0] = <<f, 0>> BY <1>1, <1>3, <1>5
<1>7. f = sending BY <1>4, <1>6
<1> QED BY <1>2, <1>3, <1>4, <1>6, <1>7 DEF Missed, NewerFramesNotified

LEMMA OrderInterrupt ==
  ASSUME LinkTypes, RegisterOK, CollectsInStep, MissedIsWhole,
         DecodesUndisturbed, NewerFramesNotified, LinkInterrupt
  PROVE  NewerFramesNotified'
<1>1. BitsApart BY BitsAreApart
<1>2. UNCHANGED main BY InterruptLeaves
<1>3. UNCHANGED <<taken, reg, mainAt>> /\ Decoded' = Decoded
  BY <1>2 DEF main, Decoded
<1> USE <1>1, <1>3, FrameNumbers, Sizes
        DEF NewerFramesNotified, HandedOver, Missed, BitsApart, MissedIsWhole
<1>4. CASE RxHeader \/ RxNoHeader
  BY <1>4 DEF RxHeader, RxNoHeader, LookForHeader, GoodByte
<1>5. CASE RxByte BY <1>5 DEF RxByte, StoreByte, GoodByte, flags
<1>6. CASE RxGoodFrame
  <2>1. /\ Missed' = sending /\ accepted < sending /\ sending' = sending
        /\ pos' = RXBUFFER_SIZE
    BY <1>6, CompletedIsNewest DEF RxGoodFrame
  <2>2. rx_ok_buff' = rx_buff' /\ accepted' = sending
    BY <1>6 DEF RxGoodFrame
  <2>3. HandedOver' = sending BY <2>1, <2>2
  <2>4. mainAt \notin Decoding /\ UNCHANGED protocol_flags2
    BY <1>6 DEF RxGoodFrame, DecodesUndisturbed
  <2>5. pos < RXBUFFER_SIZE BY <1>6 DEF RxGoodFrame, StoreByte, GoodByte
  <2> QED BY <2>1, <2>2, <2>3, <2>4, <2>5 DEF Decoding
<1>7. CASE RxMissedFrame
  <2>1. /\ Missed' = sending /\ accepted < sending /\ sending' = sending
        /\ pos' = RXBUFFER_SIZE
    BY <1>7, CompletedIsNewest DEF RxMissedFrame
  <2>2. /\ UNCHANGED <<rx_ok_buff, protocol_flags>> /\ accepted' = sending
    BY <1>7 DEF RxMissedFrame
  <2> QED BY <2>1, <2>2
<1>8. CASE RxError BY <1>8 DEF RxError, ErrorByte, flags
<1>9. CASE RxExit BY <1>9 DEF RxExit, wire, buffers
<1>10. CASE CompbEnter
  BY <1>10 DEF CompbEnter, TimerExpired, wire, flags
<1>11. CASE CompbExit \/ TxDrained
  BY <1>11 DEF CompbExit, TxDrained, wire, buffers, flags
<1> QED
  BY <1>4, <1>5, <1>6, <1>7, <1>8, <1>9, <1>10, <1>11 DEF LinkInterrupt

LEMMA OrderWire ==
  ASSUME LinkTypes, MissedIsWhole, NewerFramesNotified, Wire
  PROVE  NewerFramesNotified'
<1>1. UNCHANGED <<overlap, buffers, flags, UCSR0B, main>> BY WireLeaves
<1>2. UNCHANGED <<Decoded, HandedOver, Missed, protocol_flags,
                  protocol_flags2, reg, mainAt, accepted>>
  BY <1>1 DEF buffers, flags, main, Decoded, HandedOver, Missed
<1>3. /\ accepted <= sending' /\ (pos' < RXBUFFER_SIZE => accepted < sending')
  BY FrameNumbers, Sizes
     DEF Wire, StartFrame, LoseByte, CutFrame, CompareMatch, wire,
         NewerFramesNotified, LinkTypes, LinkType
<1> QED BY <1>2, <1>3 DEF NewerFramesNotified

LEMMA OrderMain ==
  ASSUME LinkTypes, RegisterOK, MissedIsWhole, DecodesUndisturbed,
         NewerFramesNotified, Decode \/ Loop
  PROVE  NewerFramesNotified'
<1>1. BitsApart BY BitsAreApart
<1>2. UNCHANGED <<wire, rx_buff, accepted>>
  BY DecodeLeaves, LoopLeaves DEF buffers
<1>3. UNCHANGED <<sending, pos, Missed, accepted>> BY <1>2 DEF wire, Missed
<1> USE <1>1, <1>3, FrameNumbers
        DEF NewerFramesNotified, HandedOver, Decoded, BitsApart, RegisterOK,
            FlagSteps, Flag2Steps, EnableSteps, SetBits, flags, buffers
<1>4. CASE update_serial BY <1>4 DEF update_serial, Goto
<1>5. CASE RX_DONOTUPDTAE_on \/ RX_DONOTUPDTAE_off
  BY <1>5 DEF RX_DONOTUPDTAE_on, RX_DONOTUPDTAE_off, RmwFlags2, Load, Store
<1>6. CASE RX_FLAG_off \/ OtherFlag
  BY <1>6 DEF RX_FLAG_off, OtherFlag, RmwFlags, Load, Store
<1>7. CASE ReadControl
  <2>1. 0 \in Slots /\ 0 < CONTROL_BYTES BY SizeAssumption DEF Slots
  <2>2. Decoded' = HandedOver BY <1>7, <2>1 DEF ReadControl, Goto
  <2>3. mainAt = "control" /\ reg = {} BY <1>7 DEF ReadControl, Goto, LinkTypes
  <2> QED BY <1>7, <2>2, <2>3 DEF ReadControl, Goto
<1>8. CASE ReadChannels
  <2>1. 0 \in Slots /\ 0 < CONTROL_BYTES BY SizeAssumption DEF Slots
  <2>2. Decoded' = Decoded BY <1>8, <2>1 DEF ReadChannels, Goto
  <2> QED BY <1>8, <2>2 DEF ReadChannels, Goto
<1>9. CASE MaskRx \/ TxPause \/ EnableTx
  BY <1>9 DEF MaskRx, TxPause, EnableTx, RmwUCSR0B, Load, Store
<1>10. CASE TakeMissed
  <2>1. mainAt = "missed" /\ reg = {}
    BY <1>10 DEF TakeMissed, TakeMissedBuffer, LinkTypes
  <2> QED BY <1>10, <2>1 DEF TakeMissed, TakeMissedBuffer, Missed
<1>11. CASE UnmaskRx BY <1>11 DEF UnmaskRx, Load, Store
<1>12. CASE INPUT_SIGNAL_on \/ OtherFlag2
  BY <1>12 DEF INPUT_SIGNAL_on, OtherFlag2, RmwFlags2, Load, Store
<1>13. CASE TX_MAIN_PAUSE_on \/ TX_MAIN_PAUSE_off
  BY <1>13 DEF TX_MAIN_PAUSE_on, TX_MAIN_PAUSE_off, RmwFlags2, Load, Store
<1>14. CASE Elsewhere \/ LinkCallback \/ TestResume
  BY <1>14 DEF Elsewhere, LinkCallback, TestResume, Goto
<1> QED
  BY <1>4, <1>5, <1>6, <1>7, <1>8, <1>9, <1>10, <1>11, <1>12, <1>13, <1>14
     DEF Decode, Loop

LEMMA OrderStep ==
  ASSUME FrameInvariant, NewerFramesNotified, LinkNext PROVE NewerFramesNotified'
BY OrderInterrupt, OrderWire, OrderMain DEF FrameInvariant, LinkNext

-----------------------------------------------------------------------------
LEMMA LinkInvariantInit == LinkInit => LinkInvariant
<1> SUFFICES ASSUME LinkInit PROVE LinkInvariant OBVIOUS
<1> USE Sizes DEF LinkInit
<1>1. Zeroed[0] = <<0, 0>>
  <2>1. 0 \in Slots BY DEF Slots
  <2> QED BY <2>1 DEF Zeroed
<1>2. Decoded = 0 /\ HandedOver = 0 /\ Missed = 0
  BY <1>1 DEF Decoded, HandedOver, Missed
<1>3. NewerFramesNotified BY <1>2 DEF NewerFramesNotified
<1>4. /\ CleanFrameAccepted /\ CleanInStep /\ CallbackUndisturbed /\ PauseKept
  BY DEF CleanFrameAccepted, CleanInStep, CallbackUndisturbed, PauseKept
<1> QED BY <1>3, <1>4, FrameInvariantInit DEF LinkInvariant

LEMMA LinkInvariantNext == LinkInvariant /\ [LinkNext]_linkVars => LinkInvariant'
<1>1. ASSUME LinkInvariant, LinkNext PROVE LinkInvariant'
  <2> USE <1>1 DEF LinkInvariant
  <2>1. FrameInvariant' BY FrameInvariantNext
  <2>2. CleanFrameAccepted' /\ CleanInStep' BY CleanStep DEF FrameInvariant
  <2>3. CallbackUndisturbed' /\ PauseKept' BY PauseStep DEF FrameInvariant
  <2>4. NewerFramesNotified' BY OrderStep
  <2> QED BY <2>1, <2>2, <2>3, <2>4
<1>2. ASSUME LinkInvariant, UNCHANGED linkVars PROVE LinkInvariant'
  <2> USE <1>2 DEF LinkInvariant, linkVars, wire, buffers, flags, main
  <2>1. FrameInvariant' BY FrameInvariantNext
  <2>2. CleanFrameAccepted' /\ CleanInStep'
    BY DEF CleanFrameAccepted, CleanInStep, InProgress
  <2>3. CallbackUndisturbed' /\ PauseKept'
    BY DEF CallbackUndisturbed, PauseKept
  <2>4. NewerFramesNotified'
    BY DEF NewerFramesNotified, Decoded, HandedOver, Missed
  <2> QED BY <2>1, <2>2, <2>3, <2>4
<1> QED BY <1>1, <1>2

\* The inductive invariant of all the safety properties of the link.
THEOREM LinkInvariantHolds == LinkSpec => []LinkInvariant
BY LinkInvariantInit, LinkInvariantNext, PTL DEF LinkSpec

\* Every frame that arrives without an error is handed over to the main
\* program: the search for a header after an error or a late timer of an
\* earlier frame never costs a good one.
THEOREM CleanFramesAreAccepted == LinkSpec => []CleanFrameAccepted
<1>1. LinkInvariant => CleanFrameAccepted BY DEF LinkInvariant
<1> QED BY <1>1, LinkInvariantHolds, PTL

\* The transmit interrupt never runs during a protocol callback.
THEOREM CallbacksAreUndisturbed == LinkSpec => []CallbackUndisturbed
<1>1. LinkInvariant => CallbackUndisturbed BY DEF LinkInvariant
<1> QED BY <1>1, LinkInvariantHolds, PTL

\* update_serial_data decodes frames in the order they were sent, each at
\* most once.
THEOREM FramesAreInOrder == LinkSpec => FramesInOrder
<1> DEFINE Step == ReadControl => HandedOver > Decoded
<1>1. LinkInvariant => Step
  <2> SUFFICES ASSUME LinkInvariant, ReadControl PROVE HandedOver > Decoded
    OBVIOUS
  <2> QED
    BY FrameNumbers
       DEF LinkInvariant, FrameInvariant, NewerFramesNotified, ReadControl, Goto
<1>2. LinkInvariant /\ [LinkNext]_linkVars => [Step]_linkVars BY <1>1
<1> QED
  BY <1>2, LinkInvariantInit, LinkInvariantNext, PTL DEF LinkSpec, FramesInOrder

===============================================================================
