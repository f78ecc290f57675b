----------------------------- MODULE SerialLink -----------------------------
(***************************************************************************)
(* The serial input path of the module, on the ATmega328p build with the   *)
(* hardware USART (INVERT_TELEMETRY not defined).                          *)
(*                                                                         *)
(* Four activities share one CPU and these variables:                      *)
(*   - the USART receive interrupt assembles a frame in rx_buff and hands  *)
(*     it over in rx_ok_buff;                                              *)
(*   - the timer 1 compare B interrupt discards a frame that takes too     *)
(*     long (declared ISR_NOBLOCK: a receive interrupt may nest in it, and *)
(*     it may nest in the receive interrupt, which re-enables interrupts); *)
(*   - the main program decodes rx_ok_buff in update_serial_data and       *)
(*     pauses the telemetry output around every protocol callback;         *)
(*   - the radio sends frames over a wire that corrupts and loses bytes.   *)
(*                                                                         *)
(* The main program changes a bit of a shared byte in two steps, a load    *)
(* and a store, and an interrupt may run in between.  An interrupt is not  *)
(* preempted by the main program, so its own changes are atomic.           *)
(***************************************************************************)
EXTENDS Naturals

CONSTANTS
  RXBUFFER_SIZE,   \* Bytes in a frame.
  CONTROL_BYTES,   \* The leading bytes update_serial_data decodes first.
  UdrValues,       \* The values the data register may hold on an error.
  MaxFrames        \* Bound: the number of frames the radio sends.

ASSUME SizeAssumption ==
  /\ RXBUFFER_SIZE \in Nat /\ CONTROL_BYTES \in Nat
  /\ 0 < CONTROL_BYTES /\ CONTROL_BYTES < RXBUFFER_SIZE
  /\ UdrValues \subseteq Nat
  /\ MaxFrames \in Nat

VARIABLES
  sending, pos,      \* The wire: frame being sent, next byte of it.
  UCSR0A,            \* The next byte carries DOR0: the USART lost a byte.
  damaged,           \* The last frame a byte of which was not received well.
  overlap,           \* The frame that ended during the running call of
                     \* update_serial_data, 0 if none did.
  rx_buff, rx_ok_buff, idx, discard_frame,
  protocol_flags, protocol_flags2,   \* The bits of each that are set.
  UCSR0B,            \* Interrupt enables: RXCIE0 and UDRIE0.
  TIMSK1, TIFR1,     \* Compare B interrupt enable and match flag.
  accepted,          \* The last frame the interrupt handed over.
  ctx,               \* Which code is running, and what it preempted.
  mainAt, half, reg, \* The main program: its step, the next half of a load
                     \* and store, and the value loaded.
  taken              \* The bytes update_serial_data has decoded.

wire    == <<sending, pos, UCSR0A, damaged>>
buffers == <<rx_buff, rx_ok_buff, idx, discard_frame, accepted>>
flags   == <<protocol_flags, protocol_flags2>>
timer   == <<TIMSK1, TIFR1>>
main    == <<mainAt, half, reg, taken>>
linkVars == <<wire, overlap, buffers, flags, UCSR0B, timer, ctx, main>>

(***************************************************************************)
(* A byte is known by the frame it belongs to and its place there; frame 0 *)
(* stands for the zeroed buffers of the program start.                     *)
(***************************************************************************)
Slots      == 0 .. RXBUFFER_SIZE - 1
Bytes      == (0 .. MaxFrames) \X Slots
Zeroed     == [i \in Slots |-> <<0, i>>]
IsWhole(b) == \E f \in 1 .. MaxFrames : b = [i \in Slots |-> <<f, i>>]
Incoming   == <<sending, pos>>

(***************************************************************************)
(* Telemetry pause (serial.hh): tx_resume does nothing while a pause flag  *)
(* is up.                                                                  *)
(***************************************************************************)
IS_TX_PAUSE_on(bits) == bits \cap {"TX_MAIN_PAUSE", "TX_RX_PAUSE"} # {}
tx_pause(enables)    == enables \ {"UDRIE0"}
tx_resume_always(enables, bits) == enables \cup {"UDRIE0"}
tx_resume(enables, bits) ==
  IF IS_TX_PAUSE_on(bits) THEN enables ELSE enables \cup {"UDRIE0"}

-----------------------------------------------------------------------------
(***************************************************************************)
(* The wire.  The radio leaves a gap between two frames: long enough for   *)
(* the compare B timer to expire, for the interrupt handlers to return and *)
(* for the call of update_serial_data that was running when the last frame *)
(* ended to return.                                                        *)
(***************************************************************************)
GapElapsed == TIMSK1 = {} /\ overlap = 0 /\ ctx = "main"

StartFrame ==
  /\ pos = RXBUFFER_SIZE /\ sending < MaxFrames
  /\ GapElapsed
  /\ sending' = sending + 1 /\ pos' = 0
  /\ damaged' = IF UCSR0A = {} THEN damaged ELSE sending'
  /\ UNCHANGED <<UCSR0A, overlap, buffers, flags, UCSR0B, timer, ctx, main>>

\* The interrupt was held off too long and the USART dropped a byte.
LoseByte ==
  /\ pos < RXBUFFER_SIZE
  /\ pos' = pos + 1 /\ UCSR0A' = {"DOR0"} /\ damaged' = sending
  /\ UNCHANGED <<sending, overlap, buffers, flags, UCSR0B, timer, ctx, main>>

\* The cable is pulled, or the radio switched off, in the middle of a frame.
CutFrame ==
  /\ pos < RXBUFFER_SIZE
  /\ pos' = RXBUFFER_SIZE /\ damaged' = sending
  /\ UNCHANGED <<sending, UCSR0A, overlap, buffers, flags, UCSR0B, timer, ctx,
                 main>>

(***************************************************************************)
(* Timer 1 runs freely.  Armed, compare B matches 3250us after the first   *)
(* byte was accepted, when the 3120us of the frame are over; not armed, a  *)
(* match with an old OCR1B may set the flag at any time.                   *)
(***************************************************************************)
CompareMatch ==
  /\ TIFR1 = {}
  /\ TIMSK1 # {} => pos = RXBUFFER_SIZE
  /\ TIFR1' = {"OCF1B"}
  /\ UNCHANGED <<wire, overlap, buffers, flags, UCSR0B, TIMSK1, ctx, main>>

-----------------------------------------------------------------------------
(***************************************************************************)
(* The receive interrupt.  It masks itself and re-enables interrupts on    *)
(* entry, so that only compare B can nest in it.                           *)
(***************************************************************************)
RxEnter ==
  /\ "RXCIE0" \in UCSR0B
  /\ ctx \in {"main", "compb"}
  /\ ctx' = IF ctx = "main" THEN "rx" ELSE "rx_in_compb"

\* The frame timer: compare B 3250us from now, an old match forgotten.
StartTimerStaleMatch == TIMSK1' = {"OCIE1B"} /\ UNCHANGED TIFR1
StartTimer           == TIMSK1' = {"OCIE1B"} /\ TIFR1' = {}

GoodByte == RxEnter /\ pos < RXBUFFER_SIZE /\ UCSR0A = {} /\ pos' = pos + 1

\* A good byte while looking for the start of a frame...
LookForHeader ==
  /\ GoodByte
  /\ idx = 0 \/ discard_frame = 1
  /\ discard_frame' = 0
  /\ rx_buff' = [rx_buff EXCEPT ![0] = Incoming]
  /\ UNCHANGED <<sending, UCSR0A, damaged, overlap, rx_ok_buff, accepted,
                 protocol_flags, main>>

\* ... is 0x54 or 0x55, as the first byte of every frame is.
RxHeader ==
  /\ LookForHeader
  /\ idx' = 1
  /\ protocol_flags2' = (protocol_flags2 \ {"RX_MISSED_BUFF"})
                          \cup {"TX_RX_PAUSE"}
  /\ UCSR0B' = tx_pause(UCSR0B) \ {"RXCIE0"}
  /\ StartTimer

\* ... or is another byte of the frame.
RxNoHeader ==
  /\ LookForHeader
  /\ pos # 0
  /\ idx' = 0
  /\ protocol_flags2' = protocol_flags2 \ {"RX_MISSED_BUFF"}
  /\ UCSR0B' = UCSR0B \ {"RXCIE0"}
  /\ UNCHANGED timer

\* A good byte of a frame in progress...
StoreByte ==
  /\ GoodByte
  /\ idx # 0 /\ discard_frame = 0
  /\ rx_buff' = [rx_buff EXCEPT ![idx] = Incoming]
  /\ idx' = idx + 1
  /\ UCSR0B' = UCSR0B \ {"RXCIE0"}
  /\ UNCHANGED <<sending, UCSR0A, damaged, timer, main>>

RxByte ==
  /\ StoreByte
  /\ idx + 1 < RXBUFFER_SIZE
  /\ UNCHANGED <<rx_ok_buff, discard_frame, accepted, flags, overlap>>

\* ... the last one, which hands the frame over...
RxGoodFrame ==
  /\ StoreByte
  /\ idx + 1 >= RXBUFFER_SIZE
  /\ discard_frame' = 1 /\ accepted' = sending
  /\ "RX_DONOTUPDTAE" \notin protocol_flags2
  /\ rx_ok_buff' = rx_buff'
  /\ protocol_flags' = protocol_flags \cup {"RX_FLAG"}
  /\ UNCHANGED <<protocol_flags2, overlap>>

\* ... or, while rx_ok_buff is being decoded, leaves it in rx_buff.
RxMissedFrame ==
  /\ StoreByte
  /\ idx + 1 >= RXBUFFER_SIZE
  /\ discard_frame' = 1 /\ accepted' = sending
  /\ "RX_DONOTUPDTAE" \in protocol_flags2
  /\ protocol_flags2' = protocol_flags2 \cup {"RX_MISSED_BUFF"}
  /\ overlap' = sending
  /\ UNCHANGED <<rx_ok_buff, protocol_flags>>

(***************************************************************************)
(* A byte with a frame, overrun or parity error: a byte of the frame, or   *)
(* noise on the idle line.  The dummy read leaves any value in idx.        *)
(***************************************************************************)
ErrorByte ==
  /\ RxEnter
  /\ idx' \in UdrValues
  /\ UCSR0B' = UCSR0B \ {"RXCIE0"}
  /\ UCSR0A' = {}
  /\ \/ pos < RXBUFFER_SIZE /\ pos' = pos + 1 /\ damaged' = sending
     \/ pos = RXBUFFER_SIZE /\ UNCHANGED <<pos, damaged>>
  /\ UNCHANGED <<sending, overlap, rx_buff, rx_ok_buff, accepted, flags, timer,
                 main>>
RxErrorKeepsFrame == ErrorByte /\ UNCHANGED discard_frame
RxError           == ErrorByte /\ discard_frame' = 1

\* The end of the handler: stop the timer and resume telemetry if the frame
\* is over, unmask the interrupt, return.
RxExit ==
  /\ ctx \in {"rx", "rx_in_compb"}
  /\ IF discard_frame = 1
       THEN /\ TIMSK1' = {}
            /\ protocol_flags2' = protocol_flags2 \ {"TX_RX_PAUSE"}
            /\ UCSR0B' = tx_resume(UCSR0B, protocol_flags2') \cup {"RXCIE0"}
       ELSE /\ UCSR0B' = UCSR0B \cup {"RXCIE0"}
            /\ UNCHANGED <<TIMSK1, protocol_flags2>>
  /\ ctx' = IF ctx = "rx" THEN "main" ELSE "compb"
  /\ UNCHANGED <<wire, overlap, buffers, protocol_flags, TIFR1, main>>

(***************************************************************************)
(* The compare B interrupt.  A receive interrupt may run between its two   *)
(* steps.                                                                  *)
(***************************************************************************)
TimerExpired ==
  /\ TIMSK1 # {} /\ TIFR1 # {}
  /\ ctx \in {"main", "rx"}
  /\ ctx' = IF ctx = "main" THEN "compb" ELSE "compb_in_rx"
  /\ TIFR1' = {}
  /\ UNCHANGED <<wire, overlap, rx_buff, rx_ok_buff, idx, accepted, flags,
                 UCSR0B, TIMSK1, main>>
CompbKeepsFrame == TimerExpired /\ UNCHANGED discard_frame
CompbEnter      == TimerExpired /\ discard_frame' = 1

CompbExit ==
  /\ ctx \in {"compb", "compb_in_rx"}
  /\ TIMSK1' = {}
  /\ UCSR0B' = tx_resume(UCSR0B, protocol_flags2)
  /\ ctx' = IF ctx = "compb" THEN "main" ELSE "rx"
  /\ UNCHANGED <<wire, overlap, buffers, flags, TIFR1, main>>

\* The data register empty interrupt turns itself off when nothing is left
\* to send (external to this module: the ring is modelled in TxRing).
TxDrained ==
  /\ "UDRIE0" \in UCSR0B
  /\ UCSR0B' = tx_pause(UCSR0B)
  /\ UNCHANGED <<wire, overlap, buffers, flags, timer, ctx, main>>
-----------------------------------------------------------------------------
(***************************************************************************)
(* The main program.  A flag macro such as RX_FLAG_off is a load followed  *)
(* by a store of the whole byte.                                           *)
(***************************************************************************)
Load(step, byte) ==
  /\ ctx = "main" /\ mainAt = step /\ half = "load"
  /\ half' = "store" /\ reg' = byte
  /\ UNCHANGED <<wire, overlap, buffers, flags, UCSR0B, timer, ctx, mainAt, taken>>

Store(step, next) ==
  /\ ctx = "main" /\ mainAt = step /\ half = "store"
  /\ half' = "load" /\ reg' = {} /\ mainAt' = next
  /\ UNCHANGED <<wire, buffers, timer, ctx, taken>>

SetBits(on, off) == (reg \ off) \cup on

RmwFlags(step, next, on, off) ==
  \/ Load(step, protocol_flags)
  \/ /\ Store(step, next)
     /\ protocol_flags' = SetBits(on, off)
     /\ UNCHANGED <<overlap, protocol_flags2, UCSR0B>>

RmwFlags2(step, next, on, off) ==
  \/ Load(step, protocol_flags2)
  \/ /\ Store(step, next)
     /\ protocol_flags2' = SetBits(on, off)
     /\ UNCHANGED <<overlap, protocol_flags, UCSR0B>>

RmwUCSR0B(step, next, on, off) ==
  \/ Load(step, UCSR0B)
  \/ /\ Store(step, next)
     /\ UCSR0B' = SetBits(on, off)
     /\ UNCHANGED <<overlap, flags>>

\* A step of the main program that changes no shared byte.
Goto(step, next) ==
  /\ ctx = "main" /\ mainAt = step
  /\ mainAt' = next
  /\ UNCHANGED <<wire, buffers, UCSR0B, timer, ctx, half, reg>>

\* update_serial: a frame is waiting.
update_serial ==
  /\ "RX_FLAG" \in protocol_flags
  /\ Goto("loop", "dnu_on")
  /\ UNCHANGED <<overlap, flags, taken>>

RX_DONOTUPDTAE_on  == RmwFlags2("dnu_on", "flag_off", {"RX_DONOTUPDTAE"}, {})
RX_FLAG_off        == RmwFlags("flag_off", "control", {}, {"RX_FLAG"})
RX_DONOTUPDTAE_off == RmwFlags2("dnu_off", "mask", {}, {"RX_DONOTUPDTAE"})

\* The bind, power, option and model bytes, then the channels.
ReadControl ==
  /\ Goto("control", "channels")
  /\ taken' = [i \in Slots |-> IF i < CONTROL_BYTES THEN rx_ok_buff[i]
                                                  ELSE taken[i]]
  /\ UNCHANGED <<overlap, flags>>

ReadChannels ==
  /\ Goto("channels", "dnu_off")
  /\ taken' = [i \in Slots |-> IF i < CONTROL_BYTES THEN taken[i]
                                                  ELSE rx_ok_buff[i]]
  /\ UNCHANGED <<overlap, flags>>

\* With the receive interrupt masked, take over a frame that was completed
\* while rx_ok_buff was being decoded.
MaskRx == RmwUCSR0B("mask", "missed", {}, {"RXCIE0"})

TakeMissedBuffer(flags2) ==
  /\ ctx = "main" /\ mainAt = "missed"
  /\ IF "RX_MISSED_BUFF" \in protocol_flags2
       THEN /\ rx_ok_buff' = rx_buff
            /\ protocol_flags' = protocol_flags \cup {"RX_FLAG"}
            /\ protocol_flags2' = flags2
       ELSE UNCHANGED <<rx_ok_buff, flags>>
  /\ mainAt' = "unmask"
  /\ UNCHANGED <<wire, overlap, rx_buff, idx, discard_frame, accepted, UCSR0B,
                 timer, ctx, half, reg, taken>>
TakeMissedTwice == TakeMissedBuffer(protocol_flags2)
TakeMissed      == TakeMissedBuffer(protocol_flags2 \ {"RX_MISSED_BUFF"})

UnmaskRx ==
  \/ Load("unmask", UCSR0B)
  \/ /\ Store("unmask", "signal")
     /\ UCSR0B' = SetBits({"RXCIE0"}, {})
     /\ overlap' = 0
     /\ UNCHANGED flags

\* update_serial sets a bit of protocol_flags2 that no interrupt uses.
INPUT_SIGNAL_on == RmwFlags2("signal", "loop", {}, {})

(***************************************************************************)
(* The rest of the main loop: flags of either byte that the interrupts do  *)
(* not use are changed (BIND_DONE, INPUT_SIGNAL_on, ...), telemetry bytes  *)
(* are written (Serial_write calls tx_resume), and every protocol callback *)
(* runs between TX_MAIN_PAUSE_on and TX_MAIN_PAUSE_off.                    *)
(***************************************************************************)
Elsewhere ==
  /\ \E next \in {"flag_rmw", "flag2_rmw", "resume", "pause_on"} :
       Goto("loop", next)
  /\ UNCHANGED <<overlap, flags, taken>>

OtherFlag     == RmwFlags("flag_rmw", "loop", {}, {})
OtherFlag2    == RmwFlags2("flag2_rmw", "loop", {}, {})
TX_MAIN_PAUSE_on  == RmwFlags2("pause_on", "pause", {"TX_MAIN_PAUSE"}, {})
TxPause       == RmwUCSR0B("pause", "callback", {}, {"UDRIE0"})
LinkCallback  == Goto("callback", "pause_off")
                   /\ UNCHANGED <<overlap, flags, taken>>
TX_MAIN_PAUSE_off == RmwFlags2("pause_off", "resume", {}, {"TX_MAIN_PAUSE"})

\* tx_resume: test the pause flags, then set the interrupt enable.
TestResume ==
  /\ Goto("resume", IF IS_TX_PAUSE_on(protocol_flags2) THEN "loop"
                                                       ELSE "enable")
  /\ UNCHANGED <<overlap, flags, taken>>
EnableTx == RmwUCSR0B("enable", "loop", {"UDRIE0"}, {})

-----------------------------------------------------------------------------
LinkInit ==
  /\ sending = 0 /\ pos = RXBUFFER_SIZE /\ UCSR0A = {} /\ damaged = 0
  /\ overlap = 0
  /\ rx_buff = Zeroed /\ rx_ok_buff = Zeroed /\ idx = 0
  /\ discard_frame = 0 /\ accepted = 0
  /\ protocol_flags = {} /\ protocol_flags2 = {}
  /\ UCSR0B = {"RXCIE0"}
  /\ TIMSK1 = {} /\ TIFR1 = {}
  /\ ctx = "main" /\ mainAt = "loop" /\ half = "load" /\ reg = {}
  /\ taken = Zeroed

Wire      == StartFrame \/ LoseByte \/ CutFrame \/ CompareMatch
LinkInterrupt ==
             \/ RxHeader \/ RxNoHeader \/ RxByte
             \/ RxGoodFrame \/ RxMissedFrame \/ RxError \/ RxExit
             \/ CompbEnter \/ CompbExit \/ TxDrained
Decode    == \/ update_serial \/ RX_DONOTUPDTAE_on \/ RX_FLAG_off
             \/ ReadControl \/ ReadChannels \/ RX_DONOTUPDTAE_off
             \/ MaskRx \/ TakeMissed \/ UnmaskRx \/ INPUT_SIGNAL_on
Loop      == \/ Elsewhere \/ OtherFlag \/ OtherFlag2
             \/ TX_MAIN_PAUSE_on \/ TxPause \/ LinkCallback \/ TX_MAIN_PAUSE_off
             \/ TestResume \/ EnableTx

LinkNext == Wire \/ LinkInterrupt \/ Decode \/ Loop

LinkSpec == LinkInit /\ [][LinkNext]_linkVars

-----------------------------------------------------------------------------
LinkSteps == {"loop", "dnu_on", "flag_off", "control", "channels", "dnu_off",
          "mask", "missed", "unmask", "signal", "flag_rmw", "flag2_rmw", "pause_on",
          "pause", "callback", "pause_off", "resume", "enable"}
FlagBits  == {"RX_FLAG"}
FlagBits2 == {"RX_DONOTUPDTAE", "RX_MISSED_BUFF", "TX_MAIN_PAUSE",
              "TX_RX_PAUSE"}
IrqBits   == {"RXCIE0", "UDRIE0"}

LinkType ==
  /\ sending \in 0 .. MaxFrames /\ pos \in 0 .. RXBUFFER_SIZE
  /\ UCSR0A \subseteq {"DOR0"}
  /\ damaged \in 0 .. MaxFrames /\ overlap \in 0 .. MaxFrames
  /\ TIMSK1 \subseteq {"OCIE1B"} /\ TIFR1 \subseteq {"OCF1B"}
  /\ ctx \in {"main", "rx", "compb", "compb_in_rx", "rx_in_compb"}

BufferType ==
  /\ rx_buff \in [Slots -> Bytes] /\ rx_ok_buff \in [Slots -> Bytes]
  /\ taken \in [Slots -> Bytes] /\ accepted \in 0 .. MaxFrames
  /\ discard_frame \in {0, 1}
  /\ idx \in Nat /\ (discard_frame = 0 => idx \in Slots)

BitType ==
  /\ protocol_flags \subseteq FlagBits /\ protocol_flags2 \subseteq FlagBits2
  /\ UCSR0B \subseteq IrqBits
  /\ reg \subseteq FlagBits \cup FlagBits2 \cup IrqBits

\* Type correctness; in particular rx_buff is never written outside its
\* bounds, because idx is in range whenever a byte is stored.
LinkTypes ==
  /\ LinkType /\ BufferType /\ BitType
  /\ mainAt \in LinkSteps /\ half \in {"load", "store"}

\* What update_serial_data has decoded when it releases the buffer is one
\* frame as the radio sent it: never bytes of two frames, never a frame out
\* of step, whatever was lost on the wire and wherever the interrupts ran.
FrameIntegrity == mainAt \in {"dnu_off", "mask", "missed", "unmask"} => IsWhole(taken)

(***************************************************************************)
(* Why FrameIntegrity holds.  Each part is what one of the three parties   *)
(* relies on; together they are preserved by every step.                   *)
(***************************************************************************)
InProgress == idx # 0 /\ discard_frame = 0
Decoding   == {"flag_off", "control", "channels", "dnu_off"}

\* The bytes collected so far are consecutive bytes of the current frame,
\* and the frame timer is running; it can only expire after the frame.
CollectsInStep ==
  /\ pos < RXBUFFER_SIZE => sending # 0
  /\ InProgress => TIMSK1 # {}
  /\ InProgress /\ UCSR0A = {} /\ pos < RXBUFFER_SIZE =>
       /\ idx <= pos
       /\ \A i \in Slots : i < idx => rx_buff[i] = <<sending, (pos - idx) + i>>
  /\ TIMSK1 # {} /\ TIFR1 # {} => pos = RXBUFFER_SIZE
  /\ ctx \notin {"main", "rx"} => pos = RXBUFFER_SIZE /\ discard_frame = 1

\* While RX_MISSED_BUFF is up, in memory or in the main program's register,
\* rx_buff holds a whole frame and the next frame has not begun.
MissedIsWhole ==
  "RX_MISSED_BUFF" \in protocol_flags2 \cup reg =>
    /\ pos = RXBUFFER_SIZE /\ overlap # 0
    /\ IsWhole(rx_buff)
    /\ mainAt \in Decoding \cup {"mask", "missed"}

\* rx_ok_buff holds a whole frame from the first hand-over on.
HandedOverIsWhole ==
  \/ IsWhole(rx_ok_buff)
  \/ "RX_FLAG" \notin protocol_flags \cup reg
     /\ mainAt \notin Decoding \cup {"dnu_on"}

\* rx_ok_buff is kept from the receive interrupt while it is decoded.
DecodesUndisturbed ==
  /\ mainAt \in Decoding <=> "RX_DONOTUPDTAE" \in protocol_flags2
  /\ "RX_DONOTUPDTAE" \in reg => mainAt \in Decoding
  /\ mainAt = "channels" => \A i \in Slots : i < CONTROL_BYTES
                                           => taken[i] = rx_ok_buff[i]

\* What a pending store will write is a value of the byte it was loaded from.
FlagSteps   == {"flag_off", "flag_rmw"}
Flag2Steps  == {"dnu_on", "dnu_off", "signal", "flag2_rmw", "pause_on",
                "pause_off"}
EnableSteps == {"mask", "unmask", "pause", "enable"}
RegisterOK ==
  /\ half = "load" => reg = {}
  /\ half = "store" => mainAt \in FlagSteps \cup Flag2Steps \cup EnableSteps
  /\ mainAt \in FlagSteps => reg \subseteq FlagBits
  /\ mainAt \in Flag2Steps => reg \subseteq FlagBits2
  /\ mainAt \in EnableSteps => reg \subseteq IrqBits

\* These parts alone are preserved by every step of every party.
FrameInvariant ==
  /\ LinkTypes /\ RegisterOK
  /\ CollectsInStep /\ MissedIsWhole /\ HandedOverIsWhole
  /\ DecodesUndisturbed /\ FrameIntegrity

\* A frame received without an error is handed over: resynchronisation and
\* the frame timer only ever discard damaged frames.
CleanFrameAccepted ==
  pos = RXBUFFER_SIZE /\ damaged # sending => accepted = sending

\* Why: nothing is in progress when a frame begins, and an undamaged one is
\* collected from its first byte to its last.
CleanInStep ==
  pos < RXBUFFER_SIZE /\ damaged # sending =>
    /\ UCSR0A = {}
    /\ pos = 0 => ~InProgress
    /\ pos # 0 => InProgress /\ idx = pos

\* While a protocol callback runs the transmit interrupt stays off, although
\* the receive interrupt resumes telemetry whenever a frame ends.
CallbackUndisturbed == mainAt = "callback" => "UDRIE0" \notin UCSR0B

\* Why: TX_MAIN_PAUSE is up from its store to the end of the callback, and
\* both interrupts test it before they resume telemetry.
PauseKept ==
  mainAt \in {"pause", "callback", "pause_off"}
    => "TX_MAIN_PAUSE" \in protocol_flags2

\* The frame decoded last, the one handed over and the one left in rx_buff.
Decoded    == taken[0][1]
HandedOver == rx_ok_buff[0][1]
Missed     == rx_buff[0][1]

\* A frame is decoded at most once and never after a later one: the missed
\* buffer hand-over does not bring back an old frame.
FramesInOrder == [][ReadControl => HandedOver > Decoded]_linkVars

\* Why: frames move on in the order they were sent, and RX_FLAG and
\* RX_MISSED_BUFF each stand for a frame that is newer than the last one.
NewerFramesNotified ==
  /\ Decoded <= HandedOver /\ HandedOver <= accepted /\ accepted <= sending
  /\ pos < RXBUFFER_SIZE => accepted < sending
  /\ "RX_FLAG" \in protocol_flags \cup reg => Decoded < HandedOver
  /\ mainAt \in {"dnu_on", "flag_off", "control"} => Decoded < HandedOver
  /\ mainAt \in {"control", "channels", "dnu_off"}
       => "RX_FLAG" \notin protocol_flags
  /\ "RX_MISSED_BUFF" \in protocol_flags2 \cup reg
       => HandedOver < Missed /\ Missed <= accepted

\* The inductive invariant of all the properties above.
LinkInvariant ==
  /\ FrameInvariant
  /\ CleanFrameAccepted /\ CleanInStep
  /\ CallbackUndisturbed /\ PauseKept
  /\ NewerFramesNotified

(***************************************************************************)
(* A statement of the source that the code does not keep.                  *)
(***************************************************************************)
\* The handed over frame is known to the main program, or already decoded:
\* RX_FLAG and RX_MISSED_BUFF reach it.  (A main-program load and store of
\* the flag byte around the interrupt erases the bit.)
HandOverNotified ==
  mainAt = "loop" /\ ctx = "main" /\ accepted > Decoded
    => "RX_FLAG" \in protocol_flags
=============================================================================
