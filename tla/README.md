# Verification of the DIY Multiprotocol TX module

TLA+ models of the firmware under `src/Multiprotocol/`, TLC configurations that
check them on small instances, and TLAPS proofs, in eight `*_proofs` modules, of
every safety property of every component but the radio protocols. Line numbers
refer to `Multiprotocol.ino` unless another file is named. The build that is
modelled is the ATmega328p one with the configuration of `_Config.h` as it is
shipped, and all 28 protocols installed. One switch is modelled both ways:
`INVERT_TELEMETRY` (`_Config.h:122`) is on as shipped, and telemetry leaves
through a bit-bashed port (`BashSerial`); with it commented out the hardware
USART is used (`TxRing`).

## 1. The system

The program runs on a single CPU without an operating system: `setup`, then
`loop` for ever. It takes stick positions from a radio transmitter, either as
26-byte serial frames (`MODE_SERIAL`) or as a PPM pulse train (`MODE_PPM`), and
sends them over one of four radio chips with one of 28 protocols; received
telemetry goes back over the serial port. All concurrency is between interrupt
handlers and the main program, through global variables:

| Activity | Runs | Shares |
|---|---|---|
| `ISR(USART_RX_vect)` 1100-1169 | per received byte; masks itself, then re-enables interrupts | `rx_buff`, `rx_ok_buff`, `idx`, `discard_frame`, `RX_FLAG`, `RX_MISSED_BUFF`, `RX_DONOTUPDTAE`, pause flags, `UCSR0B` |
| `ISR(TIMER1_COMPB_vect)` 1171-1189 | 3250us after a frame began | `discard_frame`, `TIMSK1`, `UCSR0B` |
| `ISR(USART_UDRE_vect)` serial.cc 181-201 | while there is telemetry to send (USART) | ring `tx_buff`, `tx_head`, `tx_tail`, `UCSR0B` |
| three interrupts of timer 0, serial.cc 338-444 | per bit of telemetry (bit-bashed) | ring `SerialControl`, `busy`, `GPIOR0` to `GPIOR2`, `TIMSK0`, pause flags |
| `PPM_decode` 1058-1088 | per edge of the PPM signal; may nest in itself | `PPM_data`, `PPM_FLAG` |
| `loop` 406-482 | otherwise | all of the above; timer 1 compare A (polled) |

The main program calls the selected protocol through the function pointer
`remote_callback`, at the times the protocol asks for, and `Update_All` in
between; `Update_All` decodes input, restarts protocols (`modules_reset`,
`protocol_init`), sends telemetry and watches the input signal. All protocols
share one set of global variables (`phase`, `hopping_frequency_no`,
`bind_counter`, `packet` and more), which nothing clears between them.

### Inventory

| Component | State | Operations | What makes it correct | Module |
|---|---|---|---|---|
| Serial input link | two frame buffers, collector state, flags, frame timer | receive and timer interrupts, `update_serial`, `update_serial_data` | decoded frames are whole, in order, once; an undamaged frame is never discarded; telemetry is quiet during callbacks | `SerialLink` |
| Telemetry ring, hardware USART | ring, pause flags, interrupt enable | `tx_buff_has_space`, `Serial_write`, transmit interrupt, `tx_pause`, `tx_resume`, `telemetry_reset` | FIFO; nothing lost, doubled or stranded | `TxRing`, `TxQueue` |
| Telemetry ring, bit-bashed serial | second ring, shift registers, `busy`, timer 0 | three interrupts, `Serial_write`, `resumeBashSerial` | FIFO; each byte's bits on the pin in order; nothing stranded | `BashSerial`, `TxQueue` |
| Telemetry relay, SPORT | parser, two frame buffers, chunk numbers | `frsky_check_telemetry`, `proces_sport_data`, `sportSendFrame` | a frame is relayed whole and once | `SportRelay` |
| Telemetry relay, hub, link, DSM, AFHDS2A frames | `telemetry_link`, passes, user bytes | `TelemetryUpdate` and its senders | each answer once, user bytes to the last | `TelemetryRelay` |
| Protocol scheduler | compare A, its flag, `next_callback`, `remote_callback` | `loop` | a callback is never early, late by one `Update_All` at most; `Update_All` follows each that leaves time for it; no call through null | `Scheduler` |
| Protocol selection, binding, input timeout | bind, autobind and change flags, decoded controls and sticks, clocks | `update_serial_data`, `update_ppm`, bind channel, `modules_reset`, `protocol_init`, `update_led_status` | the selected protocol runs; it binds when asked and restarts only when asked; stale sticks are not transmitted | `ProtocolSelect` |
| PPM input | edge times, channel being filled, frame flag | edge interrupt, `update_ppm`, `update_channels_aux` | channels are neither torn nor shifted; recovery from noise | `PpmInput` |
| NRF24L01 protocols (17) | the shared globals; address, channel and scrambling of the chip | init and callback of each | what is sent is as after power-up; bind ends, data only after it, under the right address; hopping stays in its table and is even; packets are in step | `NrfCountdown`, `NrfPhases`, `Protocols` |
| A7105 protocols: FlySky, AFHDS2A, Hubsan | the same | the same, with hand-shakes | the same | `A7105Protocols`, `Protocols` |
| CC2500 protocols: FrSky D, V, X, SFHSS | the same | the same, with calibration | the same | `CC2500Protocols`, `Protocols` |
| CYRF6936 protocols: DSM, Devo, WK2x01, J6Pro | the same, code registers | the same | the same; channel and code of a pair agree | `CyrfProtocols`, `Protocols` |
| Radio chip drivers | registers | SPI transfers | - | partly: channel, address, code, packet and scrambling as fields of the record in `Globals` |
| Identity in EEPROM | identity, its mark, receivers, fixed-identity marks | `random_id`, AFHDS2A's receiver, Devo's mark | the same after every power loss | `Identity` |
| Time base (Arduino.ino) | precounts, last timer value | `micros`, `millis`, `delayMilliseconds`, bounded waits | monotonic while called every 32ms; waits are bounded | planned |
| Channel conversions (Common.ino) | none | `convert_channel_*`, `map`, `Frsky_init_hop` | results within the protocol's range; hop table without repetitions | planned |
| Set-up, random seed, build files, vendored core | registers | - | - | not planned: configuration or code of others |

`PROJECT.json` lists every component with its files, and all hazards with the
line where each bites.

### Behaviours that are hard

* The main program changes single bits of shared bytes with a load and a store
  (the flag macros, Multiprotocol.h 224-284; `UCSR0B`), interrupts in between.
* Two interrupts nest in each other: receive re-enables interrupts, the frame
  timer is `ISR_NOBLOCK`. The bit-bashed port is started by the main program and
  by the receive interrupt while three others shift.
* Everything is timed with one 16-bit timer at 0.5us that wraps every 32.7ms.
* A restart blocks the main program for 100ms and more while input arrives.
* A protocol starts on the globals another has left, and its init sets only
  some of them.
* Input is lost, cut or damaged; PPM pulses are split by noise.
* Bind hand-shakes and telemetry wait for packets that are lost, late or of
  others; a radio chip may be late; options move between two packets of a pair.
* EEPROM is written byte by byte with the power about to fail.

## 2. Modules

Every module declares what it depends on as CONSTANTS with an ASSUME, one
action per operation or atomic step, and uses no RECURSIVE operator. `MC*`
modules give constants values that a `.cfg` cannot express. `X_proofs` extends
`X` with the theorems about it (section 4); the invariants those rest on stand
in `X`, under "Why these hold".

### SerialLink

State names are those of the code; `UCSR0B`, `TIMSK1`, `TIFR1`, `UCSR0A`,
`protocol_flags` and `protocol_flags2` are the *sets of bits* that are set.
`ctx` says which code is running and what it preempted, `mainAt`, `half` and
`reg` are the step of the main program and the register of an unfinished load
and store. A byte is the pair (frame, place), so that a frame joined from two is
visible; `sending` and `pos` are the byte that comes next. `accepted`,
`damaged`, `overlap` and `taken` are history.

| Code | Actions |
|---|---|
| radio and wire | `StartFrame`, `LoseByte`, `CutFrame`; bytes arrive in the receive actions |
| `ISR(USART_RX_vect)` | `RxHeader`, `RxNoHeader`, `RxByte`, `RxGoodFrame`, `RxMissedFrame`, `RxError`, then `RxExit`; the frame timer may run between |
| `ISR(TIMER1_COMPB_vect)` | `CompareMatch`, `CompbEnter`, `CompbExit`; a receive interrupt may run between |
| `update_serial`, `update_serial_data` | `update_serial`, `RX_DONOTUPDTAE_on`, `RX_FLAG_off`, `ReadControl`, `ReadChannels`, `RX_DONOTUPDTAE_off`, `MaskRx`, `TakeMissed`, `UnmaskRx`, `INPUT_SIGNAL_on` |
| `loop` around a callback | `TX_MAIN_PAUSE_on`, `TxPause`, `LinkCallback`, `TX_MAIN_PAUSE_off`, `TestResume`, `EnableTx` |
| other flag macros | `OtherFlag`, `OtherFlag2`: a load and a store of a bit nobody else uses |

Assumptions about the environment: the radio leaves a gap between frames in
which the frame timer can expire and a call of `update_serial_data` that was
interrupted can return (frames take 3.12ms every 7 or 9ms).

### TxQueue and TxRing

`TxQueue` is the promise: bytes leave in the order they were put in, each once,
no more than a capacity waiting. It has three exceptions: a reset discards what
waits; a frame that is too long (`oversize`) may cost everything that waits, this
frame's bytes so far included; and after a reset some bytes from before it may be
sent again.

`TxRing` is serial.cc with the pause macros of serial.hh, the pauses of `loop`, of
the receive interrupt and of `telemetry_reset`; the variable `mode_select` is the
dial switch read by `setup` (0 is `MODE_SERIAL`): frames arrive only in serial
mode. `written` and `gone` number the bytes, `size` is the length of the frame
being written, `stale` counts the bytes from before a reset that are in the ring.

* Frames of any length are written, as `TelemetryUpdate` asks for 16 free slots and
  then writes 18 to 30 bytes in some protocols (section 3). A head that meets the
  tail reads as an empty ring (`PublishHead`), and what it held is lost.
* `telemetry_reset` runs at every change of protocol, in both modes. In serial mode
  the end of a frame may enable the transmit interrupt between `tx_pause` and
  `serial_reset_buf`, and an interrupt between the store of the tail and that of
  the head sends on from slot 0: `ResetTail` and `ResetHead` are separate steps,
  and the ring may hold old bytes after them.

The ring implements the queue under

    written <- written, gone <- gone, stale <- stale, UDR0 <- UDR0,
    Capacity <- TXBUFFER_SIZE - 1, oversize <- size >= SPACE

and TLC checks `Queue!Spec` as a property. `Serial_write` is three actions
(store, `PublishHead`, resume) because the transmit interrupt sees the ring in
between. The steps of the main program are enabled while no transmit interrupt
is pending, as the CPU serves it first.

### BashSerial

The same queue for the build as shipped. The ring holds each byte encoded
(`Encode`: both halves as `Serial_write` leaves them) with its number, which is
history. `UDR0` is the number of the byte being shifted, `line` the levels the
pin has had since it was loaded, `idle` says that none is.

| Code (serial.cc) | Actions |
|---|---|
| `Serial_write` 246-299 | `Serial_write`, `PublishHead`, then the resume |
| `resumeBashSerial` 301-334 | `TestResume`, `TestBusy`, `PrepareShift`, `EnableTimer0`, `SetBusy`: the timer 0 interrupts may run between any two |
| `ISR(TIMER0_COMPA_vect)` | `TIMER0_COMPA`: start bit and the lower data bits |
| `ISR(TIMER0_COMPB_vect)` | `CompbBit`, `CompbLoad`, `CompbStop`: the last data bit, parity, stop bit, next byte |
| `ISR(TIMER0_OVF_vect)` (PPM mode) | `OvfBit`, `OvfLoad`, `OvfStop` |
| receive interrupt, frame timer | `RxStart`, `RxEnd`, `RxTimeout` |
| `loop` around a callback, `telemetry_reset` | `TX_MAIN_PAUSE_on`, `Callback`, `TX_MAIN_PAUSE_off`, `telemetry_reset` |

Taken for granted: compare B comes 20us after a start, whose code sets its
register so, and thus not within the few instructions of the start; and compare
A's bits come before B's. The abstract queue is `TxQueue` under
`Capacity <- SLOTS - 1`; a byte is gone when its first bit is loaded.
`tx_pause` and `serial_reset_buf` are empty in this build, so a reset discards
nothing. `Wire` is the reference for the encoding: what a UART sends for a byte.

### Scheduler

`ahead` is OCR1A - TCNT1 modulo the timer's period, so one number stands for
both registers; `OCF1A` is the compare flag, which an update of OCR1A clears.
`diff` is that distance as it was read after the delay loop (line 478), which
line 412 tests a whole turn later. `due` is history: the time until the callback
asked for, negative when late; `overran` is history too: some callback took
longer than it may (`Fits`). `loop` is `SkipUpdate`/`Update` (406-419; `pc`
"idle" while no protocol is selected), `SyncLate`/`SyncInTime` (420-438),
`RunCallback`/`NoSignal` (439-448), `SetWait`, `UpdateInWait`, `Wait2ms`
(449-468) and `SetCallback` (469-481). What callbacks and `Update_All` take is a
constant set of times. A `protocol_init` may deselect the protocol
(`remote_callback` 0) at every `Update_All`, also in the middle of a wait.

### ProtocolSelect

A frame is what the code compares: the model (protocol, sub-protocol, receiver
number), the autobind and bind bits, and of the sticks only the bind channel and
the throttle. `Update_All` is `UpdateInput`, `BindChannel`, `protocol_init`
(with the 100ms of `modules_reset` before it) and `update_led_status`; frames
arrive and time passes between them. `quiet`, `age`, `asked` and `button` are
history: `asked` says whether the frame just decoded asks for a restart, uses
the bind channel, asks to bind; `button` that the bind button was held at
power-up (in serial mode, until the second frame). The bits of `protocol_flags`
are separate variables here: the lost updates between them are SerialLink's
subject. `Modes` and `Buttons` say which positions of the dial switch and of the
bind button `setup` may find.

### PpmInput

The receiver sends a gap and `SENT` pulses; noise adds edges, also within the
interrupt, and interrupts the signal. The interrupt is `ISR_NOBLOCK`, so a second
edge may nest between any two accesses to what it shares with itself; each is a
step of its own, and `isr` is the stack of the interrupts that run.

| Code (1058-1088) | Actions |
|---|---|
| shorter than 500us | `Glitch` |
| start of frame | `StartOfFrame` (the flag), `ResetChan`, `OpenFrame` |
| a channel | `Ignored` while the frame is bad; else `Accept` (the test), `LoadChan`, `StoreChannel`, `CountChannel` (`chan++` and its test), `CloseFrame` |
| end | `LeaveISR`: `Prev_TCNT1` moves |

`chan` is not volatile: `CountChannel` counts on from the value it stored by, or
reads `chan` again; the build may do either. With an edge nested after the test of
`bad_frame` the store goes up to two channels beyond the room; `Places` are the
room and what lies behind it. The main program reads a channel byte by byte.
Values are the channel they belong to and the parity of the frame; an edge that
ends no whole pulse of a channel has the value `Noise`.

### The radio protocols: Globals, NrfCountdown, NrfPhases, A7105Protocols, CC2500Protocols, CyrfProtocols, Protocols

`Globals` has the variables that all protocols share as one record, with what
the radio chip remembers: the channel (`rf`), the address (`adr`), the
spreading code or checksum (`code`) and the scrambling. A channel is the place
of the hopping table it was taken from, so that one beyond the table (`"stray"`)
shows; an address is that of binding, the transmitter's own or a protocol's only
one. A protocol is two operators: its init maps the globals to new ones; its
callback relates the globals before and after, puts at most one packet on the
`air` and sets `delay`, the time it returns. They keep the source's names.

| Module | Protocols |
|---|---|
| `NrfCountdown` | NRF24L01 protocols that send a number of bind packets, then data: YD717, FQ777, Hontai, CG023, Bayang, ESky, MJXQ, MT99xx, SymaX |
| `NrfPhases` | those with phases or a hand-shake: V2x2, SLT, HiSky, KN, CX10, FY326, Assan, Shenqi |
| `A7105Protocols` | FlySky, AFHDS2A, Hubsan |
| `CC2500Protocols` | FrSky D, V and X, SFHSS |
| `CyrfProtocols` | DSM, Devo, WK2x01, J6Pro |

`Protocols` runs them as `protocol_init` and `loop` do. A journey is a sequence
of stays: `Start` chooses the variant of the next stay, with or without binding,
at any time; a stay that is not the last ends after at most `callbacks`
callbacks (bound; `left` counts them), the last goes on for ever. The callback
of the chosen protocol is told something as input: an answer that is the model's
(`good`), someone else's (`bad`) or none; a receiver's request (`settings`,
`failsafe`, of AFHDS2A), one that has few or many channels (DSM), a chip that is
not ready (`late`), an option that was moved between two packets (`option`, also
of Hubsan), the video button (`video`, of Q282). A bind countdown of hundreds of
packets is `Shortened` to one lap of the hopping table with the same remainder,
so that index and counters end where the code's do. Hubsan's `packet_count` is a
byte that each move of the option counts up and nothing else stops: it wraps at
`CountSize`, three above the count at which sticks are sent, which stands for
256.

A packet is its kind, the channel, address and code it is sent under, the channel it
names (`says`) and what it carries on from packets before it (`carries`): the static
counts of YZ and LS, the video bits that Q282 and Q222 keep in `packet[14]`. What
those find there when they start is what any protocol may have left (`FoundVideo`).

Beside the globals `g` runs `fresh`: the globals of a module that has just been
switched on with the protocol chosen now, and is told the same. What `g` puts on
the air and `fresh` does not comes from an earlier protocol. (`fresh` is not followed
for Hubsan, Devo and AFHDS2A, whose turn is stale from the start: `StaleTurn`.)
`visits`, `since`
and `strays` observe the packets: how often each place of the table was used,
how long ago the last packet was, how many left the table.

`ProtocolInvariant` says why the properties hold: what is true of the globals of
each protocol between two callbacks, which of them it has in common with
`fresh`, and where in its period it is.

### SportRelay and TelemetryRelay

`SportRelay` follows FrSkyX's telemetry from the answer to the bus. The receiver
is external: an endless stream of SPORT frames, cut into chunks of any length,
one in each answer with the next number modulo 4. `proces_sport_data` takes one
byte at a time, as `telem_update_sport` feeds them; `sportSendFrame` is a slot of
the bus; `OtherReceiver` is a new start with another receiver, whose stream is at
any place. What an answer may be:

| On the air | Action |
|---|---|
| lost | `NoAnswer` (`Missed`: counted, the link lost after `MISSES`) |
| not the receiver's, or damaged in its address or length | `ForeignAnswer` |
| as it was sent | `Answers`, `Overwrites` (the chunk before was not relayed yet) |
| damaged elsewhere: the CRC of the CC2500 is off (FrSkyX_cc2500.ino:49), `frsky_check_telemetry` tests only address and length (Telemetry.ino:189) | `DamagedAnswer`: any number, and `noise` bytes that are of no frame, which `FeedDamaged` gives to the parser as start, escape or plain bytes |

Of the bytes in `pktx` the model keeps which frame they belong to and how many are
in place. `started`, `instep`, `gap` and `slipped` are history: `slipped` says that
since the last start byte of the receiver a chunk was damaged, or lost in a way the
code has no means to see. `seq_last_sent` only goes out to the receiver, and is left
out. (Bound: when an answer is lost the chunk before has been relayed; `Overwrites`
and `DamagedAnswer` cover a chunk that is not.)

`TelemetryRelay` adds `TelemetryUpdate` for the other protocols: the order of
its senders by protocol and `telemetry_link`, the link frame, the two passes of
`frsky_user_frame` over the user bytes of FrSkyD. They share `telemetry_link`,
`pass`, `indx` and `pktx` with SPORT; `pktt6` is `pktt[6]`, which may hold what
FrSkyX left: of a damaged answer, any length. `taken`, `passed`, `mine` and
`frame` are history. A call without space in the ring does nothing and is left
out.

### Identity

`eeprom` maps the addresses that are used to bytes; a byte is its kind, its
number and its place, so that mixtures show. `pc` says whether the module is
off, in `setup`, in `loop`, or within a store of several bytes.

| Code | Actions |
|---|---|
| `setup` 318-350 | `PowerUp` (dial and bind button), `ReadId` or `CreateId` |
| `random_id` 1024-1038 | `Begin`, `WriteId` for each byte, `WriteMark` |
| `protocol_init` 620-889 | `StartHubsan` (a new identity with the bind button), `StartAFHDS2A`, `StartDevo` (also Walkera), `StartOther` |
| AFHDS2A_a7105.ino 240-253 | `ReadAFHDS2A` (an answer), `WriteReceiver` for each byte |
| Devo_cyrf6936.ino 63-75, WK2x01_cyrf6936.ino 296-307 | `BindButton` |
| power | `PowerLost`, at any time; `PowerUp` again |

`id` is the local variable of `random_id`, which is shifted as it is stored.
`kept`, `bound`, `fixed` are history, what was stored last; `torn` are the stores
that were being replaced when power was lost. A single byte is written whole or
not at all, which is external.

### What connects them

`SerialLink` and `TxRing` share the pause flags and the interrupt enable: in
`SerialLink` the ring is only the interrupt that turns itself off
(`TxDrained`), in `TxRing` and `BashSerial` the receive interrupt is only its
effect on the pause (`RxStart`, `RxEnd`, `RxTimeout`). `TelemetryRelay` extends
`SportRelay`, whose frames and its own are what `TelemetryUpdate` of the rings
writes. `ProtocolSelect` takes from both inputs that a whole frame may be
waiting; `Scheduler` takes from `ProtocolSelect` that `Update_All` may start
another protocol or none, and from the protocols the times they ask for;
`Protocols` takes from `ProtocolSelect` that any protocol may be chosen after any
other, at any time, with or without binding.

`MCInput` and `MCLoop` each check two modules in one run, one running while the
other rests. In `MCInput` the dial decides, as in the code, which of the two inputs
runs. The scheduler and the ring of `MCLoop` share no state of their models, so
that their product would only repeat each.

## 3. Runs

Passing runs:

| Run | Bounds | What it shows |
|---|---|---|
| `input` | serial: frames of 3 bytes (1 control), 3 frames, any lost or damaged byte, error bytes leave 0 or 5 in `idx`. PPM: room for 2 channels, 3 sent, ticks of 250us, two disturbances: edges in a pulse, in the gap, within the interrupt, a dropout longer than the timer's period | `FrameIntegrity`: what is decoded is one frame; `CleanFrameAccepted`: no undamaged frame is discarded; `CallbackUndisturbed`: no telemetry interrupt in a callback; `FramesInOrder`: never an older frame after a newer, never twice; `ChannelsRight`: no channel is torn, and a glitch does not shift channels; `Recovers`: the third start of frame after the last noise hands over a frame that is right; `PpmInvariant`: with it, that no more than two channels are stored beyond the room |
| `loop` | scheduler: timer period 64 ticks of 500us, so one wrap is 32ms as in the code; callbacks that fit what they ask for, ones that fit and leave 200us or less, and ones that overrun it, a wait, or the timer's period. Ring: 5 slots, 3 asked for, frames of 2 bytes and of 4, which may overrun it, 8 bytes, two changes of protocol, both modes | `NeverEarly`, `CallsAProtocol` for all callbacks; `OnTime` until one overruns; `LoopServesBoth`: the callback happens, and one that leaves more than 200us is followed by `Update_All`; `QueueSpec`: the ring implements the queue; `RingInvariant`: the slots from tail to head are the bytes that wait, behind old ones after a reset in serial mode, and each step finds what it needs; `EverythingLeaves`: in PPM mode every byte is sent, discarded or overrun |
| `bash_serial` | ring of 6 slots, 3 kept free, frames of 2 bytes and of 5, which need not fit, 12 bytes; both modes | `BashQueue`: the ring implements the queue; `BashInvariant`: bytes are dropped only from frames that are too long; `WireRight`: in serial mode what was on the pin, whenever a byte ends, is that byte with start, parity and stop bits; `BashLeaves`: in serial mode every byte in the ring is shifted out |
| `select` | two models (one not in the firmware), sticks that bind and do not, both modes, bind button held or not in each, a restart longer than the timeout; fairness | `SelectedProtocolRuns`, `BindsAsAsked` (a pilot who asks to bind gets it, and nothing but what is named restarts a protocol), `TransmitsFreshSticks`, `InsistedModelTransmits`: a model that is kept is transmitted for, again and again |
| `protocols` | every protocol and sub-protocol that differs in its control, alone; each (but Devo and Hubsan, whose globals are their own) after two callbacks of YZ or CG023, which leave the scrambling off and an index beyond the table; those that send an old packet first after two of FrSkyD or the blue CX10, which have heard one; Hubsan, AFHDS2A, LS, YZ and Q282 after 15, 8, 19, 41 and 5 callbacks of themselves; one lap of each bind countdown | `StartsAfresh`: on the air as after power-up; `OneStray`: at most one packet off the table; `EvenlyUsed`: all its places used alike; `PacketsFit`: bind and data packets under their address, a packet that names a channel on that channel, checksum and channel of a DSM2 pair together, what was heard is not sent; `BindIsOver`: no bind packet once bound; `KeepsPace`: packets of the 14 protocols that promise a pace (`Periods`) in step; `BindEnds`: the protocol chosen last is bound some time |
| `relay` | frames of 2 bytes, one stuffed, chunks up to 2 bytes, a link lost at the second miss in a row, answers damaged in any way, up to 3 user bytes in frames of 2 | `RelayedWhole`: a relayed SPORT frame is all of one frame, except after what the code cannot see, and not relayed again once the next has begun; `SportKeepsRelaying`: however the link was lost, frames go on when answers do; `RelayedOnce`: each other answer is passed on once, user bytes to the last |
| `identity` | identities of 2 bytes, 3 of them, 2 receiver numbers, 2 answers, 2 dials with Devo; power lost at any time | `IdentityKept`: the identity read at power-up is the one stored last, and none is made anew; `SettingsKept`: the receiver and the fixed identity found are those chosen last under that number and dial; `IdentityInvariant`: stores keep to their places, and what is torn is known |

Every passing run also checks the inductive invariant of its module, which
includes type correctness and from which section 4 proves the rest
(`LinkInvariant`, `RingInvariant`, `BashInvariant`, `SchedulerInvariant`,
`SelectInvariant`, `PpmInvariant`, `RelayInvariant`, `IdentityInvariant`,
`ProtocolsInvariant`).

Why the bounds are enough. Serial input: three frames are the smallest number
with one being decoded, one missed and one arriving; a frame needs a first, a
middle and a last byte. Rings: the smallest sizes at which head and tail wrap
separately, a frame needs more than one byte, and the ring fills up or overruns
(a frame of 4 bytes is to 5 slots what AFHDS2A's 30 are to 32); eight bytes are
more than one turn, and two changes of protocol one whose old bytes meet the
next. Scheduler: a tick of 500us still tells 200us, 2ms and 4ms apart and every
ratio that matters (a wait below a quarter of the period, an overrun above one
period) occurs; callbacks leave 0, 1, 2 and more ticks where `LEAVE` is one.
Selection: the restart, at least 100ms, takes longer than the 70ms timeout, so
the timeout and frames that wait during a restart both occur; a model the
firmware lacks and one that it has are the two kinds that differ. PPM: one
channel more than the room, two disturbances so that a second hits the recovery
from the first. Protocols: tables have their real sizes and indices their real
arithmetic, so a wrap, or an index left beyond the table, is the code's; what a
protocol leaves in the globals is a matter of the last callbacks only, and each
handover is long enough for the bound state, for a countdown, or for the one
static count that a stay changes. Relay: chunks shorter than a frame and as long
as one, a stuffed and a plain byte, three user bytes for two frames and two for
one, and numbers modulo 4 as in the code; that the link is lost early hides
nothing, as a foreign answer resets the count: more chunks in a row are lost
than numbers can tell. Identity: a store needs a first and a last byte, a third
identity a second one to replace.

Refuted runs. Each states what a comment or a document says and shows the code
doing something else (the details, with both quotations, are in
`PROJECT.json`, "findings"):

| Run | Statement | What the code does |
|---|---|---|
| `lost_hand_over` | a frame handed over is notified to the main program | a flag macro around the interrupt erases `RX_FLAG` or `RX_MISSED_BUFF` |
| `bind_needs_autobind` | the bind channel binds only a model with autobind (Protocols_Details.md:43) | after the bind button was held at power-up in PPM mode, and while the bind bit is set, it restarts and binds any model |
| `first_identity` | the identity generated at the first power-up is the one used (README-old.md:100) | that power-up runs with the identity 0, as `random_id` returns what is left of `id` after shifting it out (1032-1038); what is bound then is lost at the next |
| `reversed_again` | a reversed channel is reversed | each run of `Update_All` reverses it again |
| `telemetry_dead` | telemetry is resumed by enabling its interrupt | in PPM mode an overflow between the enabling and `busy=1` leaves telemetry busy for ever, with no interrupt |

Behaviour of the code the models contain and no property excludes:

* `TelemetryUpdate` makes sure of 16 free slots of 32 in the USART ring and then
  writes a frame that may be longer: `DSM_frame` 18 bytes (Telemetry.ino:142-144),
  `AFHDSA_short_frame` 30, or 33 with `MULTI_TELEMETRY` (155-158), stuffed hub and
  SPORT frames up to 20 and 18 (162-175, 416-441). When the head meets the tail, what
  waits is lost (`Overrun` of `TxQueue`). The bit-bashed ring drops bytes instead.
* In serial mode the end of a frame resumes telemetry between `tx_pause` and
  `serial_reset_buf` of `telemetry_reset`, which raises no pause flag: bytes from
  before a reset are then sent after it (`stale`).
* A callback that fits what it asks for but leaves 200us or less (line 412 compares
  half-microseconds with 2*200) is followed by the next callback without
  `Update_All`; when every callback does so, sticks are not refreshed and the
  failsafe timer is not checked. FrSkyX asks for as little as 200us between two of
  its callbacks (FrSkyX_cc2500.ino:250), though not in all. The comment at lines
  481-482 says that `Update_All` is launched whenever the appointment is not past.
* When the frame timer ends a frame it leaves `TX_RX_PAUSE` up, so its
  `tx_resume` does nothing; the next frame resumes telemetry.
* At the speeds of PPM mode the stop bit of the bit-bashed port is not inverted
  (serial.cc:284), and all speeds but 100K are shifted at 9600 baud's interrupt.
* After a callback longer than 2ms, the next 2ms wait lasts a turn of the timer
  (32.7ms), as compare A is already past: `overran` excuses `OnTime` then.
* A protocol selected during a long wait is first called when the old one's wait
  is over: the flag that would end the wait has been cleared.
* A restart takes longer than the 70ms after which the signal counts as lost.
* In serial mode the bind button lets a bind channel that is up restart the first
  model once more, before the next frame.
* A PPM frame cut by a glitch after its fourth channel is handed over. The bound of
  `PPM_data` is tested after the store, so one channel more is stored, and a second
  one when an edge nests between the test of `bad_frame` and `chan++`.
* Protocols inherit: KN, FrSkyX and HK310 send one packet of the protocol before
  (`SendsOld`), also one that it heard from others (`LeftOver`), and HK310 never
  builds bytes 6 and 9 of its packets; CX10, MJXQ, MT99xx, FY326, H8_3D and FrSky
  start on an old place of the table (`StaleHop`); Hubsan, Devo and AFHDS2A have
  static variables that nothing resets (`StaleTurn`); YZ and LS go on with the static
  counts of MT99xx (MT99xx_nrf24l01.ino:81-82), Q282 and Q222 with bits of
  `packet[14]` that any protocol may have left (CX10_nrf24l01.ino:82, 108-118).
* While the option of Hubsan is moved, each packet announces the new video channel
  and counts up `packet_count`, a byte: moved often enough it wraps, and the neutral
  sticks of the start are sent again (Hubsan_a7105.ino:118-125, 174).
* The bind packets of CX20, and those KN sends before its first data packet, go out
  on a channel of their own that is not the one they name.
* ESky sends to a place after its table; SLT goes on sending bind packets; the
  first pair of SFHSS goes out where calibration ended (place 29).
* Devo with a fixed identity and autobind never counts as bound (`Unending`);
  Devo and WK2x01 count down their bind packets again when the option is moved;
  when Devo's chip is late just after the last bind packet, the code of the
  bound transmitter is never set (Devo_cyrf6936.ino:278).
* J6Pro, while it asks, sends a foreign answer of the right length from then on as
  its own bind packet (J6Pro_cyrf6936.ino:169).
* SPORT chunks lost while the numbers are out of step, four in a row, or
  overwritten before they are relayed are not noticed, nor is damage to an answer
  beyond its address and length (`slipped`): bytes of two frames, or of none, are
  relayed as one frame until the receiver's next start byte; a frame whose
  successor's start byte was lost is relayed again; a frame of the old receiver is
  relayed for the new one.
* User bytes of an FrSkyD answer that arrives between two user frames of the
  one before are lost; what FrSkyX has left may be sent as user bytes.
* The identity that Hubsan makes with the bind button (line 665) is not used before
  the next power-up, and power lost while it, or a receiver of AFHDS2A, is stored
  over the old one leaves a mixture in use (`torn`).

Left out: that the two bytes of `Prev_TCNT1` may be read before and after an edge
that nests between them (the interrupt's other steps, and the lost update of
`Prev_TCNT1` as a whole, are modelled).

Fairness. `TxRing`, `BashSerial`: the transmit interrupts and the shift
registers run, and the main program finishes a sequence it began; nothing makes
it begin one. In `BashSerial` no pause is up each time a byte ends, and some
frames from the radio end while the loop waits (strong fairness of `CompbLoad`
and of `RxEnd` in the loop): pauses are shorter than the time a byte takes, and
the loop waits most of the time. `Scheduler`: the loop never stops.
`ProtocolSelect`: the loop goes on and time passes; nothing is assumed of the
transmitter. `Protocols`: the timer calls back, the chip is not late for ever,
and the model, or receiver, at the other end of a hand-shake answers some time
each question that is asked again and again; without a model the code waits for
ever, and means to. `TelemetryRelay`: FrSkyX is called back, and `Update_All`
relays. These hold because the CPU is not stopped, and because the radio
chips answer: `SLT_nrf24l01.ino:100`, `SHENQI_nrf24l01.ino:82` and
`Bayang_nrf24l01.ino:129` wait for the end of a transmission without a bound, so a
chip that never ends one stops the module. `SerialLink`, `PpmInput` and `Identity`
assume no fairness and check safety alone. All runs check deadlock.

Every property of every passing run has a mutant in `PROJECT.json`: a plausible
bug in one definition with which the same run reports that property violated.

## 4. Proofs

Everything in this section is proved for all values of the constants that
satisfy the modules' ASSUMEs: frames, rings and chunks of any length, any number
of frames, models, receivers and channels, any timing. Each module states an
inductive invariant, which the run of the module checks on its instance before
anything is built on it; the proof that a step preserves it has a step per
action, and frame lemmas for the parts an action leaves alone.

* `SerialLink_proofs`: `LinkInvariantHolds`, and from it
  `DecodedFramesAreWhole`, `CleanFramesAreAccepted`, `CallbacksAreUndisturbed`
  and `FramesAreInOrder`. `FrameIntegrity` alone is not inductive: it says
  that the two halves decoded belong to one frame. `FrameInvariant` adds why:
  the bytes collected so far are consecutive bytes of the frame on the wire and
  the frame timer is armed, but only expires after the frame (`CollectsInStep`);
  a missed frame in `rx_buff` is whole, and the next one has not begun, while
  `RX_MISSED_BUFF` is up in the byte or in the register about to be stored
  (`MissedIsWhole`); `rx_ok_buff` is whole from the first hand-over on
  (`HandedOverIsWhole`); `RX_DONOTUPDTAE` is up exactly while the frame is being
  decoded, and the bytes decoded first still are in `rx_ok_buff`
  (`DecodesUndisturbed`); and what a pending store writes belongs to the byte it
  was loaded from (`RegisterOK`). `CleanInStep` says that nothing is left over
  when a frame begins, so an undamaged one is collected from its first byte on;
  `PauseKept`, that the pause flag both interrupts test is up around a callback;
  `NewerFramesNotified`, that each flag that announces a frame, in its byte or in
  a register, stands for one newer than the last.
* `TxRing_proofs`: `RingInvariantHolds`, `RingHoldsWaitingBytes` and the
  refinement `RingImplementsQueue`, for frames of any length and resets in both
  modes. `RingInvariant` strengthens `RingExact` (the slots from the tail to the head
  are exactly the bytes written and not gone, behind `stale` old ones) with what each
  step of `Serial_write` and of the reset finds prepared, what a register loaded from
  a flag byte may hold, and that a frame shorter than `SPACE` always fits
  (`FramesFit`), so that only one that is as long overruns. In the refinement
  `PublishHead` is a `Put` or an `Overrun`, `UdreSend` a `Send` or a `SendStale`,
  `ResetTail` and `ResetHead` each a `Discard`, all else stutters.
* `BashSerial_proofs`: `BashInvariantHolds`, the refinement `BashImplementsQueue`
  and `WireIsRight`. The ring is argued about as in `TxRing`; bytes that do
  not fit are dropped. `CompareInTurn` (serial mode)
  and `OverflowAlone` say which of the interrupts of timer 0 is on at which
  bit, and that whoever starts the shifting, main program or receive interrupt,
  finds them off or leaves them alone.
  `ByteOnItsWay` is what makes the wire right: the levels the pin has had
  followed by the bits that the registers still hold are, at any moment, the
  whole of `Wire(byte)`. `EncodesEveryByte` proves for each of the 256 bytes that
  the two halves `Serial_write` stores begin so, parity included.
* `Scheduler_proofs`: `SchedulerTypeOK`, `CallbacksAreNeverEarly`,
  `ProtocolIsCalled`, `SchedulerInvariantHolds` and `CallbacksAreOnTime`, for
  every timer period, whatever the callbacks take.
  `NeverEarly` speaks of the moment of the call; `TimeIsLeft` says for every
  place in the loop where the time still to wait is kept: before compare A
  (`UntilCompare`), in `next_callback`, or in both, counted from the last match
  (`SinceCompare`) once the flag is set. The steps rest on lemmas about
  remainders and on `PassTime`, which says what any number of ticks, turns of
  the timer included, do to both distances. `CallsAProtocol` needs
  `NoneLeftInWait`: when `Update_All` has left no protocol in the middle of a
  wait, the wait ends exactly at compare A, so that the next appointment is
  ahead and cannot read as missed. `OnTime` needs the bounds in the other
  direction: compare A is never further in the past than the delay loop makes up
  for (`StillToCome`), so that no time is lost in it and what is left is exact
  (`TimeIsExact`). These two are true only if `Update_All`, while it keeps the
  protocol, takes no longer than one wait of 2ms: the hypothesis `UpdatesFit`.
  `NeverEarly` has none.
* `ProtocolSelect_proofs`: `SelectInvariantHolds`, `TheSelectedProtocolRuns`,
  `BindsExactlyWhenAsked`, `OnlyFreshSticks`. `RunsUnlessRestarting` says that a
  protocol other than the one decoded runs only while its restart is due;
  `BindIsUnderWay` follows a request to bind through the bind channel and the
  restart; `AutobindIsAllowed` says whose the autobind flag is, the frame's or the bind
  button's, and `BindChannelSeen` that a bind channel which stays up does not
  restart again; `FramesAreRecent` relates the ages of the signal, of the frame that
  waits and of the sticks to the time `Update_All` last began. `RestartsAreAsked`
  names the cases in which the bind button lets the bind channel restart a model
  without autobind, as the code does and the documentation does not say
  (`bind_needs_autobind`).
* `PpmInput_proofs`: `PpmInvariantHolds`, `StickPositionsAreRight`,
  `DecoderRecovers`. `RoomOK` bounds the stores behind `PPM_data`, for edges
  that nest between any two steps: of nested edges the inner one measures the
  same time as the outer one, or none, so they do not start and count a frame at
  once, and each lets one channel more in, that it closes the frame after.
  `CopyUndisturbed` (no interrupt between the two bytes) makes channels whole.
  `OnlyGlitches` keeps them in place: as long as there was no other noise, an
  edge is measured from the edge before, only the gap is longer than `LONG`, and
  while `bad_frame` is 0 the channel being filled is the one being sent.
  `Recovering` needs nothing of the past: one start of frame puts the measuring
  right, the second the counting, so the third hands over a frame that is right
  (`Collected`).
* `TelemetryRelay_proofs`, about `SportRelay` too: `RelayInvariantHolds`,
  `RelayIsTyped`, `FramesAreRelayedWhole`, `AnswersArePassedOnOnce`. For FrSkyX:
  a chunk is relayed before the next is lost, and joins it (`ChunkJoins`); a
  damaged one, of any number and length, leaves no more behind than a parser out
  of step (`slipped`); while in step the numbers modulo 4 count the chunks lost
  (`NumbersCount`), so that three are noticed; unless `slipped` the parser waits
  for the very byte that comes next on the wire, and what it holds is good
  (`ParserInStep`), which rests on lemmas about `UpTo`, the wire up to a place
  (its length, its bytes, where it wraps); a frame has begun afresh before it is
  put up again (`StartedAfresh`). For the others `HubInStep` counts the frames
  passed on since the last answer against the user bytes gone.
* `Identity_proofs`: `IdentityInvariantHolds`, `IdentityIsKept`,
  `SettingsAreKept`, wherever power fails. `WritesInOrder` says which bytes of a
  number have reached the EEPROM while it is being stored; `IdentityStored`, that
  the mark, written last, vouches for a whole identity unless one is being
  stored over it (`torn`); `SettingsStored`, the same of the receivers, whose
  places do not overlap (`PlacesApart`).

Induction. The provers cannot instantiate the library's induction theorems, so
what is recursive (`UpTo`, the greatest of a finite set of times) is argued about
by the least counterexample: `LeastNumber` follows from the well-foundedness of
`<` on Nat, and the number before the least counterexample is none.

The assumptions about constants are the code's values, or weaker. A SPORT frame
has `SIZE` 8 bytes (more than 1 is assumed) and comes in chunks of at most
`CHUNK` 6; the link is lost after `MISSES` 100 misses in a row (any number is
assumed); user packets have at most `MAX_PKTX` 10 bytes, which two frames of
`USER_MAX_BYTES` 6 take; `PPM_data` has `NUM_CHN` 16 channels and a frame is
handed over after more than `SEEN` 3; the SPORT slots of FrSkyX are not all the
own ones; the run of `Update_All` takes some time (`UpdateTimes` is not empty);
`tx_buff_has_space` asks for more than one slot and no more than the ring has.

Only model-checked:

* Liveness, and what depends on fairness (`EverythingLeaves`, `BashLeaves`,
  `LoopServesBoth`, `InsistedModelTransmits`, `SportKeepsRelaying`, `BindEnds`):
  the proof system does not reason about ENABLED.
* The properties of `Protocols` (`StartsAfresh`, `OneStray`, `EvenlyUsed`,
  `PacketsFit`, `BindIsOver`, `KeepsPace`). They speak of 28 protocols with
  tables, phases and counters of their own, none of it a parameter: a proof
  would go through the reachable states of each, which is what TLC does, for
  all of them. `KeepsPace` says nothing of the 14 protocols that `Periods` does not
  name (YD717, FQ777, Hontai, CG023, ESky, MJXQ, MT99xx, SymaX, SLT, KN, CX10, FY326,
  Assan, Shenqi): their callbacks differ too much, or too little, for a pace between
  packets to be more than the constant they return.

## 5. Plan

Still to be modelled, in this order:

1. `Timebase`: `micros` with its wrap, and the bounded waits of DSM and AFHDS2A
   with the widths and promotions C gives them.
2. `Conversions` and `Frsky_init_hop` against reference definitions.
3. A composition of `Scheduler` and `ProtocolSelect`: the restart as a callback
   sees it.

Theorems still worth having: how late a callback can be after one that overran,
which `OnTime` excuses now; that the waits of the time base end; and, for the
protocols, the parts of `StartsAfresh` and `EvenlyUsed` that follow from the hop
arithmetic alone, for tables of any size.

## 6. Not modelled

The time base and the conversions, until the plan reaches them. Register-level
work on the radio chips, power levels and checksums; pin and peripheral set-up;
the random seed; the STM32 and Orange builds where they differ from the modelled
one; boards, documents and the vendored Arduino core. What stick positions
become in a packet, and the formatting of telemetry fields, are left out where
only the order, the number and the kind of packets and bytes matter. The status
frames of `MULTI_TELEMETRY`, which is not in the shipped configuration, are left
out.
