------------------------------- MODULE TxRing -------------------------------
(***************************************************************************)
(* The telemetry transmit ring of the builds that use a hardware USART     *)
(* (serial.cc without BASH_SERIAL): written by the main program, emptied   *)
(* by the data register empty interrupt, paused around every protocol      *)
(* callback and while the radio is sending a frame, and reset when another *)
(* protocol is selected.  Frames may be longer than what is made sure of   *)
(* before they are written: a head that meets the tail empties the ring.   *)
(*                                                                         *)
(* The main program changes tx_buff, tx_head, the pause flags and the      *)
(* interrupt enable in separate steps; the interrupts run between any two  *)
(* of them.  The receive interrupt is here its effect on the pause         *)
(* (SerialLink has its steps).                                             *)
(***************************************************************************)
EXTENDS Naturals

CONSTANTS
  TXBUFFER_SIZE,   \* Slots in the ring.
  SPACE,           \* tx_buff_has_space: the slots that must be free.
  FrameSizes,      \* The lengths of the telemetry frames.
  Modes,           \* The input modes: MODE_SERIAL, or any other for PPM.
  MaxByte,         \* Bound: the number of bytes written.
  MaxResets        \* Bound: the number of protocol changes.

ASSUME RingAssumption ==
  /\ TXBUFFER_SIZE \in Nat /\ SPACE \in Nat
  /\ 1 < SPACE /\ SPACE <= TXBUFFER_SIZE
  /\ FrameSizes \subseteq Nat \ {0}
  /\ MaxByte \in Nat /\ MaxResets \in Nat

VARIABLES
  tx_buff, tx_head, tx_tail,
  protocol_flags2,         \* The pause flags that are up.
  UCSR0B,                  \* The transmit interrupt enable, UDRIE0.
  UCSR0A,                  \* Data register empty, UDRE0.
  UDR0,                    \* The last byte handed to the USART.
  at, half, reg,           \* The main program: its step, the next half of a
                           \* load and store, and the value loaded.
  todo, size,              \* Bytes of the frame still to write, its length.
  written, gone,           \* The last byte put in the ring, the last one out.
  stale,                   \* Bytes from before a reset that are in the ring.
  mode_select, resets

ring == <<tx_buff, tx_head, tx_tail>>
frame == <<todo, size>>
main == <<at, half, reg, frame>>
out == <<gone, stale>>
setup == <<mode_select, resets>>
ringVars ==
  <<ring, protocol_flags2, UCSR0B, UCSR0A, UDR0, main, written, out, setup>>

MODE_SERIAL == 0
Slots == 0 .. TXBUFFER_SIZE - 1
NextSlot(i) == IF i + 1 >= TXBUFFER_SIZE THEN 0 ELSE i + 1

\* The slots between the head and the tail, counted as in tx_buff_has_space.
FreeSlots == IF tx_head >= tx_tail THEN tx_tail + TXBUFFER_SIZE - tx_head
                                   ELSE tx_tail - tx_head
HasSpaceOneTooFew == FreeSlots + 1 >= SPACE
tx_buff_has_space == FreeSlots >= SPACE

IS_TX_PAUSE_on == protocol_flags2 # {}

-----------------------------------------------------------------------------
(***************************************************************************)
(* The transmit interrupt.                                                 *)
(***************************************************************************)
UdrePending == "UDRIE0" \in UCSR0B /\ "UDRE0" \in UCSR0A

UdreSend ==
  /\ UdrePending /\ tx_head # tx_tail
  /\ tx_tail' = NextSlot(tx_tail)
  /\ UDR0' = tx_buff[tx_tail'] /\ UCSR0A' = {}
  /\ IF stale > 0 THEN stale' = stale - 1 /\ UNCHANGED gone
                  ELSE gone' = gone + 1 /\ UNCHANGED stale
  /\ UCSR0B' = IF tx_tail' = tx_head THEN {} ELSE UCSR0B
  /\ UNCHANGED <<tx_buff, tx_head, protocol_flags2, main, written, setup>>

UdreNothing ==
  /\ UdrePending /\ tx_head = tx_tail
  /\ UCSR0B' = {}
  /\ UNCHANGED <<ring, protocol_flags2, UCSR0A, UDR0, main, written, out,
                 setup>>

\* The USART takes the byte from its data register.
Shifted ==
  /\ UCSR0A = {} /\ UCSR0A' = {"UDRE0"}
  /\ UNCHANGED <<ring, protocol_flags2, UCSR0B, UDR0, main, written, out,
                 setup>>

(***************************************************************************)
(* The receive interrupt and the frame timer.                              *)
(***************************************************************************)
Resume(bits) == IF bits = {} THEN {"UDRIE0"} ELSE UCSR0B

RxStart ==
  /\ mode_select = MODE_SERIAL
  /\ protocol_flags2' = protocol_flags2 \cup {"TX_RX_PAUSE"} /\ UCSR0B' = {}
  /\ UNCHANGED <<ring, UCSR0A, UDR0, main, written, out, setup>>

\* A frame is complete, or a byte was in error.
RxEnd ==
  /\ mode_select = MODE_SERIAL
  /\ protocol_flags2' = protocol_flags2 \ {"TX_RX_PAUSE"}
  /\ UCSR0B' = Resume(protocol_flags2')
  /\ UNCHANGED <<ring, UCSR0A, UDR0, main, written, out, setup>>

\* Compare B: the frame took too long.  The pause flag stays up.
RxTimeout ==
  /\ mode_select = MODE_SERIAL
  /\ UCSR0B' = Resume(protocol_flags2)
  /\ UNCHANGED <<ring, protocol_flags2, UCSR0A, UDR0, main, written, out,
                 setup>>

-----------------------------------------------------------------------------
(***************************************************************************)
(* The main program, which runs when no interrupt is pending.              *)
(***************************************************************************)
At(step) == ~UdrePending /\ at = step

Goto(step, next) ==
  /\ At(step) /\ at' = next
  /\ UNCHANGED <<UCSR0A, UDR0, half, reg>>

Load(step, byte) ==
  /\ At(step) /\ half = "load"
  /\ half' = "store" /\ reg' = byte
  /\ UNCHANGED <<ring, protocol_flags2, UCSR0B, UCSR0A, UDR0, at, frame,
                 written, out, setup>>

Store(step, next) ==
  /\ At(step) /\ half = "store"
  /\ half' = "load" /\ reg' = {} /\ at' = next
  /\ UNCHANGED <<ring, UCSR0A, UDR0, frame, written, out, setup>>

RmwFlags2(step, next, on, off) ==
  \/ Load(step, protocol_flags2)
  \/ /\ Store(step, next)
     /\ protocol_flags2' = (reg \ off) \cup on
     /\ UNCHANGED UCSR0B

RmwUCSR0B(step, next, on, off) ==
  \/ Load(step, UCSR0B)
  \/ /\ Store(step, next)
     /\ UCSR0B' = (reg \ off) \cup on
     /\ UNCHANGED protocol_flags2

\* TelemetryUpdate: one telemetry frame, if there is room.
TelemetryUpdate ==
  /\ Goto("loop", "write")
  /\ tx_buff_has_space
  /\ \E n \in FrameSizes : written + n <= MaxByte /\ todo' = n /\ size' = n
  /\ UNCHANGED <<ring, protocol_flags2, UCSR0B, written, out, setup>>

\* Serial_write: the byte is stored, then the head moves, then telemetry is
\* resumed.
StoreByteAt(slot) ==
  /\ Goto("write", "publish")
  /\ tx_buff' = [tx_buff EXCEPT ![slot] = written + 1]
  /\ UNCHANGED <<tx_head, tx_tail, protocol_flags2, UCSR0B, frame, written,
                 out, setup>>
StoreAtHead  == StoreByteAt(tx_head)
Serial_write == StoreByteAt(NextSlot(tx_head))

PublishHead ==
  /\ Goto("publish", "resume")
  /\ tx_head' = NextSlot(tx_head)
  /\ written' = written + 1 /\ todo' = todo - 1
  /\ IF tx_head' = tx_tail THEN gone' = written' /\ stale' = 0   \* Overrun.
                           ELSE UNCHANGED out
  /\ UNCHANGED <<tx_buff, tx_tail, protocol_flags2, UCSR0B, size, setup>>

\* tx_resume, at the end of Serial_write and after a callback.
AfterResume == IF todo = 0 THEN "loop" ELSE "write"
TestResume ==
  /\ Goto("resume", IF IS_TX_PAUSE_on THEN AfterResume ELSE "enable")
  /\ UNCHANGED <<ring, protocol_flags2, UCSR0B, frame, written, out, setup>>
EnableTx == RmwUCSR0B("enable", AfterResume, {"UDRIE0"}, {})

\* The main loop: a protocol callback, another protocol, another flag of the
\* byte that holds the pause flags.
Elsewhere ==
  /\ \E next \in {"pause_on", "flag2_rmw"} : Goto("loop", next)
  /\ UNCHANGED <<ring, protocol_flags2, UCSR0B, frame, written, out, setup>>
OtherFlag2 == RmwFlags2("flag2_rmw", "loop", {}, {})

TX_MAIN_PAUSE_on  == RmwFlags2("pause_on", "pause", {"TX_MAIN_PAUSE"}, {})
TxPause           == RmwUCSR0B("pause", "callback", {}, {"UDRIE0"})
Callback ==
  /\ Goto("callback", "pause_off")
  /\ UNCHANGED <<ring, protocol_flags2, UCSR0B, frame, written, out, setup>>
PauseOffNoResume  == RmwFlags2("pause_off", "loop", {}, {"TX_MAIN_PAUSE"})
TX_MAIN_PAUSE_off == RmwFlags2("pause_off", "resume", {}, {"TX_MAIN_PAUSE"})

\* telemetry_reset, from protocol_init.  The end of a frame may enable the
\* transmit interrupt again: nothing forbids it to, as no pause flag is raised.
ProtocolInit ==
  /\ Goto("loop", "reset") /\ resets < MaxResets
  /\ resets' = resets + 1 /\ UNCHANGED mode_select
  /\ UNCHANGED <<ring, protocol_flags2, UCSR0B, frame, written, out>>
ResetNoPause == RmwUCSR0B("reset", "tail", {}, {})
ResetPause == RmwUCSR0B("reset", "tail", {}, {"UDRIE0"})
ResetTail ==
  /\ Goto("tail", "head") /\ tx_tail' = 0
  /\ gone' = written /\ stale' = tx_head
  /\ UNCHANGED <<tx_buff, tx_head, protocol_flags2, UCSR0B, frame, written,
                 setup>>
ResetHead ==
  /\ Goto("head", "rx_off") /\ tx_head' = 0
  /\ stale' = IF tx_tail = 0 THEN 0 ELSE TXBUFFER_SIZE - tx_tail
  /\ UNCHANGED <<tx_buff, tx_tail, protocol_flags2, UCSR0B, frame, written,
                 gone, setup>>
ResetRxPause   == RmwFlags2("rx_off", "main_off", {}, {"TX_RX_PAUSE"})
ResetMainPause == RmwFlags2("main_off", "loop", {}, {"TX_MAIN_PAUSE"})

-----------------------------------------------------------------------------
RingInit ==
  /\ tx_buff = [i \in Slots |-> 0] /\ tx_head = 0 /\ tx_tail = 0
  /\ protocol_flags2 = {} /\ UCSR0B = {} /\ UCSR0A = {"UDRE0"} /\ UDR0 = 0
  /\ at = "loop" /\ half = "load" /\ reg = {} /\ todo = 0 /\ size = 0
  /\ written = 0 /\ gone = 0 /\ stale = 0 /\ resets = 0 /\ mode_select \in Modes

Udre     == UdreSend \/ UdreNothing
Receive  == RxStart \/ RxEnd \/ RxTimeout
Write    == Serial_write \/ PublishHead \/ TestResume \/ EnableTx
PauseForCallback ==
  TX_MAIN_PAUSE_on \/ TxPause \/ Callback \/ TX_MAIN_PAUSE_off \/ OtherFlag2
Reset ==
  ResetPause \/ ResetTail \/ ResetHead \/ ResetRxPause \/ ResetMainPause

\* The main program finishes what it started; it may idle in its loop.
Work == Write \/ PauseForCallback \/ Reset
RingNext ==
  \/ Udre \/ Shifted \/ Receive
  \/ TelemetryUpdate \/ Elsewhere \/ ProtocolInit \/ Work

RingSpec == RingInit /\ [][RingNext]_ringVars

\* The CPU and the USART run; nothing makes the loop start anything.
RingFairSpec == RingSpec /\ WF_ringVars(Udre) /\ WF_ringVars(Shifted) /\ WF_ringVars(Work)

-----------------------------------------------------------------------------
\* Type correctness: the ring is never accessed outside its bounds.
RingTypes ==
  /\ tx_buff \in [Slots -> 0 .. MaxByte]
  /\ tx_head \in Slots /\ tx_tail \in Slots
  /\ protocol_flags2 \subseteq {"TX_MAIN_PAUSE", "TX_RX_PAUSE"}
  /\ UCSR0B \subseteq {"UDRIE0"} /\ UCSR0A \subseteq {"UDRE0"}
  /\ UDR0 \in 0 .. MaxByte
  /\ at \in {"loop", "write", "publish", "resume", "enable", "pause_on",
             "flag2_rmw", "pause", "callback", "pause_off", "reset", "tail",
             "head", "rx_off", "main_off"}
  /\ half \in {"load", "store"}
  /\ reg \subseteq {"TX_MAIN_PAUSE", "TX_RX_PAUSE", "UDRIE0"}
  /\ todo \in 0 .. MaxByte /\ size \in 0 .. MaxByte
  /\ written \in 0 .. MaxByte /\ gone \in 0 .. MaxByte /\ stale \in Slots
  /\ mode_select \in Modes /\ resets \in 0 .. MaxResets

\* The ring holds exactly the bytes that were written and have not left, in
\* order, behind those a reset has left there: one is left only in serial mode,
\* or while the reset has moved the tail and not yet the head.
Held == written - gone + stale
Wrap(i) == IF i >= TXBUFFER_SIZE THEN i - TXBUFFER_SIZE ELSE i
RingExact ==
  /\ gone <= written /\ Held < TXBUFFER_SIZE
  /\ tx_head = Wrap(tx_tail + Held)
  /\ \A k \in 1 .. TXBUFFER_SIZE - 1 :
       stale < k /\ k <= Held => tx_buff[Wrap(tx_tail + k)] = gone + k - stale
  /\ \A slot \in Slots :
       tx_buff[slot] <= written \/ (at = "publish" /\ slot = NextSlot(tx_head))
  /\ stale > 0 => mode_select = MODE_SERIAL \/ at = "head"

\* A frame overruns the ring only if it is as long as what tx_buff_has_space
\* makes sure of.
Oversize == size >= SPACE
FramesFit == todo > 0 => Held + todo <= TXBUFFER_SIZE - SPACE + size

(***************************************************************************)
(* Why RingExact holds: each step of the main program finds what the steps *)
(* before it prepared.                                                     *)
(***************************************************************************)
FlagSteps   == {"pause_on", "pause_off", "flag2_rmw", "rx_off", "main_off"}
EnableSteps == {"enable", "pause", "reset"}
RegisterOK ==
  /\ half = "load" => reg = {}
  /\ half = "store" => at \in FlagSteps \cup EnableSteps
  /\ at \in FlagSteps => reg \subseteq {"TX_MAIN_PAUSE", "TX_RX_PAUSE"}
  /\ at \in EnableSteps => reg \subseteq {"UDRIE0"}

FrameInProgress ==
  /\ written + todo <= MaxByte
  /\ at \in {"write", "publish"} => todo > 0
  /\ at \notin {"write", "publish", "resume", "enable"} => todo = 0
  /\ at = "publish" => tx_buff[NextSlot(tx_head)] = written + 1

\* Without frames nothing enables the transmit interrupt during a reset.
ResetQuiet ==
  /\ at = "head" => gone = written
  /\ at \in {"tail", "head"} /\ mode_select # MODE_SERIAL => UCSR0B = {}
  /\ at = "head" /\ mode_select # MODE_SERIAL => tx_tail = 0

\* The inductive invariant.
RingInvariant ==
  /\ RingTypes /\ RegisterOK /\ FrameInProgress /\ FramesFit /\ ResetQuiet /\ RingExact

\* The ring implements the queue: bytes leave in order, each once; only a frame
\* that is too long makes it lose what it holds; and only after a reset are
\* there others, that were written before it.
Queue == INSTANCE TxQueue
           WITH Capacity <- TXBUFFER_SIZE - 1, oversize <- Oversize
QueueSpec == Queue!Spec

\* Every byte written is sent, lost to an overrun, or discarded by a change of
\* protocol: no pause of the main program, and no pair of updates of the
\* interrupt enable, strands it.  (In PPM mode: a radio that never ends a frame
\* keeps telemetry off.)
EverythingLeaves ==
  mode_select # MODE_SERIAL =>
    \A n \in 1 .. MaxByte : written = n ~> gone >= n
=============================================================================
