------------------------------- MODULE BashSerial -------------------------------
(***************************************************************************)
(* Telemetry as the shipped AVR build sends it (INVERT_TELEMETRY, so       *)
(* BASH_SERIAL): no USART, the timer 0 interrupts shift each byte out bit  *)
(* by bit on an inverted pin.  Serial_write encodes a byte and puts it in  *)
(* the ring; resumeBashSerial starts the shifting, which stops by itself   *)
(* when the ring is empty or telemetry is paused.  tx_pause and            *)
(* serial_reset_buf do nothing in this build.                              *)
(*                                                                         *)
(* In serial mode two compare interrupts take turns (A: start bit and      *)
(* seven data bits, B: the last data bit, parity and stop bits); in PPM    *)
(* mode the overflow interrupt shifts all bits.                            *)
(***************************************************************************)
EXTENDS Integers, Sequences

CONSTANTS
  SLOTS,         \* Bytes the ring has place for: 32.
  SPACE,         \* tx_buff_has_space: the places that must be free.
  FrameSizes,    \* The lengths of the telemetry frames.
  Modes,         \* The input modes: MODE_SERIAL, or any other for PPM.
  MaxByte,       \* Bound: the number of bytes written,
  Content        \* and what they are.

ASSUME BashAssumption ==
  /\ SLOTS \in Nat /\ SPACE \in 2 .. SLOTS
  /\ FrameSizes \subseteq Nat \ {0}
  /\ MaxByte \in Nat /\ Content \in [1 .. MaxByte -> 0 .. 255]

VARIABLES
  data, head, tail, busy,      \* SerialControl; data with the number of the byte.
  GPIOR0, GPIOR1, GPIOR2,      \* Low bits, bits to go, high bits.
  TIMSK0,                      \* The timer 0 interrupts that are enabled.
  protocol_flags2,             \* The pause flags that are up.
  mode_select,
  pc, half, reg,               \* The main program: its step, the next half of a
                               \* load and store, and the value loaded.
  todo, size,                  \* Bytes of the frame still to write, its length.
  written, gone,               \* The last byte put in the ring, the last one out.
  UDR0,                        \* The byte being shifted, or shifted last.
  idle,                        \* No byte is being shifted.
  line                         \* The levels of the pin since UDR0 was loaded.

shift == <<GPIOR0, GPIOR1, GPIOR2, TIMSK0, busy>>
frame == <<todo, size>>
main  == <<pc, half, reg>>
sent  == <<gone, UDR0, idle, line>>
vars == <<data, head, tail, shift, protocol_flags2, mode_select, main, frame, written, sent>>

MODE_SERIAL == 0
SPEED_100K  == 0
SPEED_9600  == 1
speed == IF mode_select = MODE_SERIAL THEN SPEED_100K ELSE SPEED_9600

Slots == 0 .. SLOTS - 1
NextSlot(i) == (i + 1) % SLOTS
FreeSlots == IF head >= tail THEN tail + SLOTS - head ELSE tail - head
HasSpaceOneTooFew == FreeSlots + 1 >= SPACE
tx_buff_has_space == FreeSlots >= SPACE
IS_TX_PAUSE_on == protocol_flags2 # {}

----------------------------------------------------------------------------
(***************************************************************************)
(* Serial_write's encoding: what is shifted out, lowest bit first.  The    *)
(* pin is inverted, so everything but the start bit is too.                *)
(***************************************************************************)
Weight == <<1, 2, 4, 8, 16, 32, 64, 128>>
Bit(b, i) == (b \div Weight[i + 1]) % 2
Ones(b) == Bit(b, 0) + Bit(b, 1) + Bit(b, 2) + Bit(b, 3)
           + Bit(b, 4) + Bit(b, 5) + Bit(b, 6) + Bit(b, 7)
ParityBit(b) == (Ones(b) + 1) % 2
Encode(s, byte) ==
  LET inverted == 255 - byte
  IN [lo |-> (2 * inverted + 1) % 256,
      hi |-> IF s = SPEED_100K THEN (inverted \div 128) + 2 * ParityBit(inverted)
             ELSE (inverted \div 128) + 254]

\* The pin for a byte at 100K: start, data, even parity and stop bit.
Pin(level) == 1 - level
Levels(b) == <<0>> \o [i \in 1 .. 8 |-> Bit(b, i - 1)] \o <<Ones(b) % 2, 1>>
Wire(b) == [i \in 1 .. 11 |-> Pin(Levels(b)[i])]

----------------------------------------------------------------------------
(***************************************************************************)
(* The timer 0 interrupts.                                                 *)
(***************************************************************************)
Lowest(register) == line' = Append(line, register % 2)
NotOfTimer == <<data, head, protocol_flags2, mode_select, main, frame, written>>

\* The next byte, with its first bits and the number of them.
LoadByte(bits) ==
  /\ head # tail
  /\ GPIOR0' = data[tail].lo /\ GPIOR2' = data[tail].hi /\ GPIOR1' = bits
  /\ tail' = NextSlot(tail)
  /\ UDR0' = data[tail].number /\ gone' = gone + 1 /\ idle' = FALSE /\ line' = <<>>
StopAt(interrupt, state) ==
  /\ GPIOR2' = GPIOR2 \div 2 /\ GPIOR1' = 0
  /\ busy' = state /\ TIMSK0' = TIMSK0 \ {interrupt}
  /\ idle' = TRUE /\ line' = <<>>
  /\ UNCHANGED <<tail, GPIOR0, UDR0, gone>>
StopKeepsBusy(interrupt) == StopAt(interrupt, busy)
Stop(interrupt) == StopAt(interrupt, 0)

NoStopBit == 2
BitsOfB == 3       \* The highest data bit, parity and stop bit.
TIMER0_COMPA ==
  /\ "OCIE0A" \in TIMSK0
  /\ Lowest(GPIOR0) /\ GPIOR0' = GPIOR0 \div 2
  /\ IF GPIOR1 = 1 THEN GPIOR1' = BitsOfB /\ TIMSK0' = TIMSK0 \ {"OCIE0A"}
     ELSE GPIOR1' = GPIOR1 - 1 /\ UNCHANGED TIMSK0
  /\ UNCHANGED <<GPIOR2, busy, tail, UDR0, idle, gone, NotOfTimer>>

\* B is due after all of A's bits, and no earlier than 20us after a start.
Starting == pc \in {"prepare", "arm", "busy"}
BDue == "OCIE0B" \in TIMSK0 /\ "OCIE0A" \notin TIMSK0 /\ ~(Starting /\ speed = SPEED_100K)
CompbBit ==
  /\ BDue /\ GPIOR1 # 1
  /\ Lowest(GPIOR2) /\ GPIOR2' = GPIOR2 \div 2 /\ GPIOR1' = GPIOR1 - 1
  /\ UNCHANGED <<GPIOR0, TIMSK0, busy, tail, UDR0, idle, gone, NotOfTimer>>
CompbLoad ==
  /\ BDue /\ GPIOR1 = 1 /\ ~IS_TX_PAUSE_on
  /\ LoadByte(8) /\ TIMSK0' = TIMSK0 \cup {"OCIE0A"}
  /\ UNCHANGED <<busy, NotOfTimer>>
CompbStop ==
  /\ BDue /\ GPIOR1 = 1 /\ (IS_TX_PAUSE_on \/ head = tail)
  /\ Stop("OCIE0B")
  /\ UNCHANGED NotOfTimer
TIMER0_COMPB == CompbBit \/ CompbLoad \/ CompbStop

\* Overflow does not ask for a pause.
OvfBit ==
  /\ "TOIE0" \in TIMSK0 /\ GPIOR1 # 1
  /\ IF GPIOR1 > 2 THEN Lowest(GPIOR0) /\ GPIOR0' = GPIOR0 \div 2 /\ UNCHANGED GPIOR2
     ELSE Lowest(GPIOR2) /\ GPIOR2' = GPIOR2 \div 2 /\ UNCHANGED GPIOR0
  /\ GPIOR1' = GPIOR1 - 1
  /\ UNCHANGED <<TIMSK0, busy, tail, UDR0, idle, gone, NotOfTimer>>
OvfLoad ==
  /\ "TOIE0" \in TIMSK0 /\ GPIOR1 = 1
  /\ LoadByte(10)
  /\ UNCHANGED <<TIMSK0, busy, NotOfTimer>>
OvfStop ==
  /\ "TOIE0" \in TIMSK0 /\ GPIOR1 = 1 /\ head = tail
  /\ Stop("TOIE0")
  /\ UNCHANGED NotOfTimer
TIMER0_OVF == OvfBit \/ OvfLoad \/ OvfStop

----------------------------------------------------------------------------
(***************************************************************************)
(* resumeBashSerial.  A start within the receive interrupt is one step:    *)
(* interrupt B, the only one in serial mode, comes 20us later.             *)
(***************************************************************************)
Interrupt == IF speed = SPEED_100K THEN "OCIE0B" ELSE "TOIE0"
Prepare == GPIOR2' = 0 /\ GPIOR1' = 1 /\ idle' = TRUE /\ line' = <<>>
TxResume(flags) ==
  /\ IF flags = {} /\ busy = 0
     THEN Prepare /\ TIMSK0' = TIMSK0 \cup {"OCIE0B"} /\ busy' = 1
     ELSE UNCHANGED <<GPIOR1, GPIOR2, TIMSK0, busy, idle, line>>
  /\ UNCHANGED <<GPIOR0, UDR0, gone>>
NotOfReceive == <<data, head, tail, mode_select, main, frame, written>>

RxStart ==
  /\ mode_select = MODE_SERIAL
  /\ protocol_flags2' = protocol_flags2 \cup {"TX_RX_PAUSE"}
  /\ UNCHANGED <<shift, sent, NotOfReceive>>
RxEnd ==
  /\ mode_select = MODE_SERIAL
  /\ protocol_flags2' = protocol_flags2 \ {"TX_RX_PAUSE"}
  /\ TxResume(protocol_flags2')
  /\ UNCHANGED NotOfReceive
\* The frame took too long; the pause flag stays up.
RxTimeout ==
  /\ mode_select = MODE_SERIAL
  /\ TxResume(protocol_flags2) /\ UNCHANGED <<protocol_flags2, NotOfReceive>>

----------------------------------------------------------------------------
(***************************************************************************)
(* The main program.                                                       *)
(***************************************************************************)
Goto(step, next) ==
  /\ pc = step /\ pc' = next
  /\ UNCHANGED <<tail, GPIOR0, mode_select, half, reg, UDR0, gone>>
Quietly == UNCHANGED <<GPIOR1, GPIOR2, TIMSK0, busy, idle, line>>

RmwFlags2(step, next, on, off) ==
  /\ pc = step
  /\ \/ half = "load" /\ half' = "store" /\ reg' = protocol_flags2
        /\ UNCHANGED <<pc, protocol_flags2>>
     \/ half = "store" /\ half' = "load" /\ reg' = {} /\ pc' = next
        /\ protocol_flags2' = (reg \ off) \cup on
  /\ UNCHANGED <<data, head, tail, shift, mode_select, frame, written, sent>>

\* TelemetryUpdate: one telemetry frame, if there is room.
TelemetryUpdate ==
  /\ Goto("loop", "write") /\ Quietly
  /\ tx_buff_has_space
  /\ \E n \in FrameSizes : written + n <= MaxByte /\ todo' = n /\ size' = n
  /\ UNCHANGED <<data, head, protocol_flags2, written>>

\* Serial_write: a byte for which there is no place is dropped.
Encoded ==
  LET code == Encode(speed, Content[written + 1])
  IN [number |-> written + 1, lo |-> code.lo, hi |-> code.hi]
NeverFull == TRUE
NotFull == NextSlot(head) # tail
Serial_write ==
  /\ \/ /\ NotFull /\ Goto("write", "publish")
        /\ data' = [data EXCEPT ![head] = Encoded] /\ UNCHANGED todo
     \/ /\ ~NotFull /\ Goto("write", "resume")
        /\ todo' = todo - 1 /\ UNCHANGED data
  /\ Quietly /\ UNCHANGED <<head, protocol_flags2, size, written>>
PublishHead ==
  /\ Goto("publish", "resume") /\ Quietly
  /\ head' = NextSlot(head) /\ written' = written + 1 /\ todo' = todo - 1
  /\ UNCHANGED <<data, protocol_flags2, size>>

\* tx_resume, at the end of Serial_write and after a callback.
AfterResume == IF todo = 0 THEN "loop" ELSE "write"
NotOfStart == <<data, head, protocol_flags2, frame, written>>
TestResume ==
  /\ Goto("resume", IF IS_TX_PAUSE_on THEN AfterResume ELSE "start") /\ Quietly
  /\ UNCHANGED NotOfStart
TestBusy ==
  /\ Goto("start", IF busy = 0 THEN "prepare" ELSE AfterResume) /\ Quietly
  /\ UNCHANGED NotOfStart
PrepareShift ==
  /\ Goto("prepare", "arm")
  /\ Prepare /\ UNCHANGED <<TIMSK0, busy, NotOfStart>>
EnableTimer0 ==
  /\ Goto("arm", "busy")
  /\ TIMSK0' = TIMSK0 \cup {Interrupt}
  /\ UNCHANGED <<GPIOR1, GPIOR2, busy, idle, line, NotOfStart>>
SetBusy ==
  /\ Goto("busy", AfterResume)
  /\ busy' = 1 /\ UNCHANGED <<GPIOR1, GPIOR2, TIMSK0, idle, line, NotOfStart>>
resumeBashSerial == TestBusy \/ PrepareShift \/ EnableTimer0 \/ SetBusy

\* The main loop: a callback, or another protocol.
Elsewhere ==
  /\ \E next \in {"pause_on", "rx_off"} : Goto("loop", next)
  /\ Quietly /\ UNCHANGED NotOfStart
TX_MAIN_PAUSE_on  == RmwFlags2("pause_on", "callback", {"TX_MAIN_PAUSE"}, {})
Callback == Goto("callback", "pause_off") /\ Quietly /\ UNCHANGED NotOfStart
TX_MAIN_PAUSE_off == RmwFlags2("pause_off", "resume", {}, {"TX_MAIN_PAUSE"})
telemetry_reset ==
  \/ RmwFlags2("rx_off", "main_off", {}, {"TX_RX_PAUSE"})
  \/ RmwFlags2("main_off", "loop", {}, {"TX_MAIN_PAUSE"})

----------------------------------------------------------------------------
Init ==
  /\ data = [i \in Slots |-> [number |-> 0, lo |-> 0, hi |-> 0]]
  /\ head = 0 /\ tail = 0 /\ busy = 0
  /\ GPIOR0 = 0 /\ GPIOR1 = 0 /\ GPIOR2 = 0 /\ TIMSK0 = {}
  /\ protocol_flags2 = {} /\ mode_select \in Modes
  /\ pc = "loop" /\ half = "load" /\ reg = {} /\ todo = 0 /\ size = 0
  /\ written = 0 /\ gone = 0 /\ UDR0 = 0 /\ idle = TRUE /\ line = <<>>

Timer0  == TIMER0_COMPA \/ TIMER0_COMPB \/ TIMER0_OVF
Receive == RxStart \/ RxEnd \/ RxTimeout
Work ==
  \/ Serial_write \/ PublishHead \/ TestResume \/ resumeBashSerial
  \/ TX_MAIN_PAUSE_on \/ Callback \/ TX_MAIN_PAUSE_off \/ telemetry_reset
Next == Timer0 \/ Receive \/ TelemetryUpdate \/ Elsewhere \/ Work
Spec == Init /\ [][Next]_vars

\* The CPU and timer 0 run, and no pause lasts for ever just when a bit ends:
\* now and then a byte is loaded.  The radio goes on sending frames, and some
\* of them end while the loop waits.  Nothing makes the loop start anything.
FairSpec ==
  /\ Spec
  /\ WF_vars(Timer0) /\ SF_vars(CompbLoad) /\ WF_vars(Work)
  /\ SF_vars(pc = "loop" /\ RxEnd)

----------------------------------------------------------------------------
\* Types: rings, registers and counters stay in their bounds.
TypeOK ==
  /\ data \in [Slots -> [number : 0 .. MaxByte, lo : 0 .. 255, hi : 0 .. 255]]
  /\ {head, tail} \subseteq Slots /\ busy \in {0, 1} /\ idle \in BOOLEAN
  /\ {GPIOR0, GPIOR2} \subseteq 0 .. 255 /\ GPIOR1 \in 0 .. 10
  /\ {protocol_flags2, reg} \subseteq SUBSET {"TX_MAIN_PAUSE", "TX_RX_PAUSE"}
  /\ mode_select \in Modes /\ half \in {"load", "store"}
  /\ {todo, size, written, gone, UDR0} \subseteq 0 .. MaxByte
  /\ line \in Seq({0, 1}) /\ Len(line) <= 10

\* From tail to head lie the bytes that were written and have not gone, encoded;
\* and behind them the one about to be published.
Slot(k) == (tail + k) % SLOTS
Holds(slot, n) ==
  LET code == Encode(speed, Content[n])
  IN data[slot] = [number |-> n, lo |-> code.lo, hi |-> code.hi]
RingExact ==
  /\ gone <= written /\ written - gone < SLOTS /\ UDR0 = gone
  /\ head = Slot(written - gone)
  /\ \A k \in 0 .. SLOTS - 1 : k < written - gone => Holds(Slot(k), gone + 1 + k)
  /\ pc = "publish" => written - gone < SLOTS - 1 /\ Holds(head, written + 1)

\* A byte is only ever dropped from a frame that is longer than the places
\* tx_buff_has_space makes sure of.
FramesKept ==
  /\ pc \in {"write", "publish"} => todo > 0
  /\ written + todo <= MaxByte
  /\ todo > 0 /\ size < SPACE => written - gone + todo < SLOTS
  /\ pc = "write" /\ size < SPACE => NotFull

\* In serial mode A counts down the first bits and B the others, and a start
\* finds both off, unless it is the other caller's.
CompareInTurn == mode_select = MODE_SERIAL =>
  /\ TIMSK0 \subseteq {"OCIE0A", "OCIE0B"}
  /\ "OCIE0A" \in TIMSK0 =>
       /\ "OCIE0B" \in TIMSK0 /\ ~Starting /\ ~idle
       /\ GPIOR1 \in 1 .. 8 /\ Len(line) = 8 - GPIOR1
  /\ "OCIE0B" \in TIMSK0 /\ "OCIE0A" \notin TIMSK0 =>
       IF idle THEN GPIOR1 = 1 /\ GPIOR2 = 0
       ELSE GPIOR1 \in 1 .. 3 /\ Len(line) = 11 - GPIOR1
  /\ "OCIE0B" \notin TIMSK0 \/ Starting => idle
  /\ idle => line = <<>>
  /\ (busy = 1 \/ pc = "busy") <=> "OCIE0B" \in TIMSK0
  /\ pc \in {"arm", "busy"} => GPIOR1 = 1 /\ GPIOR2 = 0

\* In the other modes the overflow alone does, and only the loop starts it.
OverflowAlone == mode_select # MODE_SERIAL =>
  /\ TIMSK0 \subseteq {"TOIE0"}
  /\ TIMSK0 # {} => IF idle THEN GPIOR1 = 1 ELSE GPIOR1 \in 1 .. 10 /\ Len(line) = 10 - GPIOR1
  /\ (busy = 0 /\ pc # "busy") \/ pc \in {"prepare", "arm"} => TIMSK0 = {}
  /\ pc = "arm" => GPIOR1 = 1 /\ idle
  /\ idle => line = <<>>

\* What was on the pin and what the registers still hold make up the byte.
Coming(k) ==
  IF k <= Len(line) THEN line[k]
  ELSE IF "OCIE0A" \notin TIMSK0 THEN Bit(GPIOR2, k - 1 - Len(line))
  ELSE IF k <= 8 THEN Bit(GPIOR0, k - 1 - Len(line)) ELSE Bit(GPIOR2, k - 9)
ByteOnItsWay ==
  /\ ~idle => UDR0 > 0
  /\ mode_select = MODE_SERIAL /\ ~idle => \A k \in 1 .. 11 : Coming(k) = Wire(Content[UDR0])[k]

\* The inductive invariant.
BashInvariant ==
  TypeOK /\ RingExact /\ FramesKept /\ CompareInTurn /\ OverflowAlone /\ ByteOnItsWay

\* The ring, the encoding and the interrupts implement the queue: a byte leaves
\* it when the interrupts begin to shift it out; a byte for which there is no place
\* is not put in it.
Queue == INSTANCE TxQueue WITH Capacity <- SLOTS - 1, stale <- 0, oversize <- FALSE
BashQueue == Queue!Spec

\* In serial mode, whenever shifting goes on to the next byte or stops, and
\* however starts, stops and pauses fell, what has been on the pin is a start
\* bit, all data bits, even parity and a stop bit, or the one stop bit a start
\* begins with.  (At any other speed the stop bit is not inverted.)
LastBit == Append(line, GPIOR2 % 2)
Due == IF idle THEN <<Pin(1)>> ELSE Wire(Content[UDR0])
WireRight ==
  [][mode_select = MODE_SERIAL /\ (UDR0' # UDR0 \/ (idle' /\ ~idle) \/ busy' < busy)
       => LastBit = Due]_vars

\* In serial mode every byte that was put in the ring is shifted out: no pause
\* strands it.
BashLeaves ==
  mode_select = MODE_SERIAL => \A n \in 1 .. MaxByte : written = n ~> gone >= n

(***************************************************************************)
(* A statement of the source that the code does not keep.                  *)
(***************************************************************************)
\* Telemetry is resumed by enabling the transmitter interrupt: between two things
\* the loop does, a transmitter that is busy has one.  (In PPM mode the overflow
\* may come just before SetBusy and find the ring empty.)
ResumeEnables == pc = "loop" /\ busy = 1 => TIMSK0 # {}
=============================================================================
