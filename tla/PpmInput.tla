------------------------------ MODULE PpmInput -------------------------------
(***************************************************************************)
(* PPM input: the interrupt at every edge of the PPM signal measures the   *)
(* time since the edge before, sorts it into glitch, channel and start of  *)
(* frame, and fills PPM_data; update_ppm copies a frame to Servo_data, and *)
(* update_channels_aux reverses channels.                                  *)
(*                                                                         *)
(* The interrupt lets others in (ISR_NOBLOCK), itself too when an edge is  *)
(* followed by another at once: it runs in steps, one for each access to   *)
(* what it shares with itself.  What is kept of a channel value is where   *)
(* it comes from: the channel, and whether its frame is even or odd.       *)
(***************************************************************************)
EXTENDS Integers, Sequences, SequencesExt

CONSTANTS
  NUM_CHN,     \* The channels there is room for.
  SENT,        \* The channels the receiver sends.
  SEEN,        \* A frame counts when more channels than this were seen: 3.
  PERIOD,      \* Ticks until the timer wraps.
  SHORT,       \* Below this a pulse is a glitch: 500us.
  LONG,        \* Above this it is the start of a frame: 2420us.
  Pulses,      \* The widths of servo pulses.
  Gaps,        \* The widths of the gap between frames.
  Dropouts,    \* How long the signal may be interrupted.
  NoiseAt,     \* Where in a pulse an edge of noise may come.
  NESTED,      \* 1: it may also come while the interrupt is running.
  NOISE,       \* Bound: edges of noise and dropouts.
  REVERSE      \* 1: channel 0 is reversed (REVERSE_AILERON).

ASSUME PpmAssumption ==
  /\ {NUM_CHN, SENT, SEEN, PERIOD, SHORT, LONG, NOISE} \subseteq Nat
  /\ 0 < NUM_CHN /\ SEEN < SENT /\ SEEN <= NUM_CHN /\ 0 < SHORT /\ SHORT < LONG /\ LONG < PERIOD
  /\ Pulses \subseteq SHORT .. LONG /\ Gaps \subseteq LONG + 1 .. PERIOD - 1
  /\ Dropouts \subseteq Nat /\ NoiseAt \subseteq Nat \ {0}
  /\ {NESTED, REVERSE} \subseteq {0, 1}

VARIABLES
  slot,        \* What the receiver sends: gap 0, or the pulse of channel slot - 1.
  width, run,  \* Its width, and the time since it began.
  odd,         \* 1 in every second frame.
  noise,       \* What is left of the noise.
  clean,       \* Starts of frame since the last noise, up to 3.
  harm,        \* 1 after noise other than glitches.
  since,       \* TCNT1 - Prev_TCNT1, modulo the timer's period.
  isr,         \* The interrupts that are running, the innermost first: the
               \* time measured, the channel it is of, the next step, and the
               \* channel to store it in.
  chan, bad_frame,
  PPM_data,
  PPM_FLAG,
  pc, i,       \* The main program, and the channel it copies.
  lo,          \* The low byte it has read.
  masked,      \* 1 between cli and sei.
  Servo_data,  \* <<low byte, high byte>> of each channel.
  INPUT_SIGNAL, \* 1 once a frame was copied (ProtocolSelect has its loss).
  turned       \* How often channel 0 was reversed since it was copied, mod 2.

sender  == <<slot, width, run, odd, noise, clean, harm>>
decoder == <<chan, bad_frame, PPM_data>>
copying == <<i, lo, masked, Servo_data, INPUT_SIGNAL, turned>>
vars == <<sender, since, isr, decoder, PPM_FLAG, pc, copying>>

Channels == 0 .. NUM_CHN - 1
\* What is stored to, the room and what lies behind it.
Places == 0 .. NUM_CHN + NESTED
\* A value that no channel of the receiver has.
Noise == <<-1, 0>>
Values == (Places \cup 0 .. SENT - 1) \X {0, 1} \cup {Noise}

-----------------------------------------------------------------------------
(***************************************************************************)
(* The receiver, and noise.                                                *)
(***************************************************************************)
Widths(s) == IF s = 0 THEN Gaps ELSE Pulses
Interrupt(cur, value) == [cur |-> cur, value |-> value, step |-> "body", to |-> 0]
Edge(cur, value) == isr' = <<Interrupt(cur, value)>> \o isr
Wait(d) == since' = (since + d) % PERIOD

PulseEnds ==
  /\ isr = <<>> /\ masked = 0
  /\ Wait(width - run)
  /\ Edge(since', IF slot > 0 /\ since' = width THEN <<slot - 1, odd>> ELSE Noise)
  /\ slot' = (slot + 1) % (SENT + 1) /\ width' \in Widths(slot') /\ run' = 0
  /\ odd' = IF slot' = 0 THEN 1 - odd ELSE odd
  /\ clean' = IF slot = 0 /\ clean < 3 THEN clean + 1 ELSE clean
  /\ UNCHANGED <<noise, harm, decoder, PPM_FLAG, pc, copying>>

\* A glitch is an edge less than 500us after another.
Disturb(glitch) ==
  /\ noise > 0 /\ noise' = noise - 1 /\ clean' = 0
  /\ harm' = IF glitch THEN harm ELSE 1
NoiseEdge ==
  /\ isr = <<>> /\ masked = 0
  /\ \E at \in NoiseAt :
       /\ run < at /\ at < width
       /\ Wait(at - run) /\ run' = at /\ Disturb(at - run < SHORT)
  /\ Edge(since', Noise)
  /\ UNCHANGED <<slot, width, odd, decoder, PPM_FLAG, pc, copying>>
NestedEdge ==
  /\ NESTED = 1 /\ Len(isr) = 1 /\ Disturb(FALSE)
  /\ Edge(since, Noise)
  /\ UNCHANGED <<slot, width, run, odd, since, decoder, PPM_FLAG, pc, copying>>
Dropout ==
  /\ isr = <<>> /\ Disturb(FALSE)
  /\ slot' = 0 /\ width' \in Dropouts /\ run' = 0
  /\ UNCHANGED <<odd, since, isr, decoder, PPM_FLAG, pc, copying>>

-----------------------------------------------------------------------------
(***************************************************************************)
(* The interrupt: Cur_TCNT1 was captured at its entry, Prev_TCNT1 moves at *)
(* its end.                                                                *)
(***************************************************************************)
Steps == {"body", "first", "open", "load", "store", "count", "close", "leave"}
Step(s) == isr # <<>> /\ isr[1].step = s
Goes(s) == isr' = [isr EXCEPT ![1].step = s]
Body == Step("body")
Cur  == isr[1].cur

Glitch ==
  /\ Body /\ Cur < SHORT
  /\ bad_frame' = 1 /\ Goes("leave")
  /\ UNCHANGED <<sender, since, chan, PPM_data, PPM_FLAG, pc, copying>>

StartOfFrame ==
  /\ Body /\ Cur > LONG
  /\ PPM_FLAG' = IF chan > SEEN THEN 1 ELSE PPM_FLAG
  /\ Goes("first")
  /\ UNCHANGED <<sender, since, decoder, pc, copying>>

NextChannelKeep == UNCHANGED chan
FirstChannel    == chan' = 0
ResetChan ==
  /\ Step("first") /\ FirstChannel /\ Goes("open")
  /\ UNCHANGED <<sender, since, bad_frame, PPM_data, PPM_FLAG, pc, copying>>
OpenFrame ==
  /\ Step("open") /\ bad_frame' = 0 /\ Goes("leave")
  /\ UNCHANGED <<sender, since, chan, PPM_data, PPM_FLAG, pc, copying>>

IsPulse == Body /\ SHORT <= Cur /\ Cur <= LONG
Ignored ==
  /\ IsPulse /\ bad_frame = 1
  /\ Goes("leave")
  /\ UNCHANGED <<sender, since, decoder, PPM_FLAG, pc, copying>>

\* PPM_data[chan] = ...; if (chan++ >= NUM_CHN) bad_frame = 1.  chan is not
\* volatile: it may be read again for chan++, or not.
Accept ==
  /\ IsPulse /\ bad_frame = 0
  /\ Goes("load")
  /\ UNCHANGED <<sender, since, decoder, PPM_FLAG, pc, copying>>
Takes(c) == isr' = [isr EXCEPT ![1].step = "store", ![1].to = c]
LoadChan ==
  /\ Step("load")
  /\ Takes(chan)
  /\ UNCHANGED <<sender, since, decoder, PPM_FLAG, pc, copying>>
StoreChannel ==
  /\ Step("store")
  /\ PPM_data' = [PPM_data EXCEPT ![isr[1].to] = isr[1].value]
  /\ Goes("count")
  /\ UNCHANGED <<sender, since, chan, bad_frame, PPM_FLAG, pc, copying>>
TooManyLate(c) == c > NUM_CHN
TooMany(c)     == c >= NUM_CHN
CountChannel ==
  /\ Step("count")
  /\ \E c \in {isr[1].to, chan} :
       chan' = c + 1 /\ Goes(IF TooMany(c) THEN "close" ELSE "leave")
  /\ UNCHANGED <<sender, since, bad_frame, PPM_data, PPM_FLAG, pc, copying>>
CloseFrame ==
  /\ Step("close") /\ bad_frame' = 1 /\ Goes("leave")
  /\ UNCHANGED <<sender, since, chan, PPM_data, PPM_FLAG, pc, copying>>

\* Prev_TCNT1 += Cur_TCNT1.  When the outer interrupt has loaded it, it will
\* overwrite what the inner one stores.
Moved == since' = (since - Cur) % PERIOD
Overwritten == Len(isr) = 2 /\ isr[2].step = "leave" /\ since' = since
LeaveISR ==
  /\ Step("leave")
  /\ Moved \/ Overwritten
  /\ isr' = Tail(isr)
  /\ UNCHANGED <<sender, decoder, PPM_FLAG, pc, copying>>

PPM_decode ==
  \/ Glitch \/ StartOfFrame \/ ResetChan \/ OpenFrame
  \/ Ignored \/ Accept \/ LoadChan \/ StoreChannel \/ CountChannel \/ CloseFrame
  \/ LeaveISR

-----------------------------------------------------------------------------
(***************************************************************************)
(* Update_All.  The main program runs while no interrupt does.             *)
(***************************************************************************)
At(here, there) == isr = <<>> /\ pc = here /\ pc' = there
frame == <<sender, since, isr, decoder>>

FrameReady ==
  /\ PPM_FLAG = 1 /\ At("poll", "cli") /\ i' = 0
  /\ UNCHANGED <<frame, PPM_FLAG, lo, masked, Servo_data, INPUT_SIGNAL, turned>>
NoFrame ==
  /\ PPM_FLAG = 0 /\ At("poll", "aux")
  /\ UNCHANGED <<frame, PPM_FLAG, copying>>

\* One channel, read byte by byte between cli and sei.
NoCli == UNCHANGED masked
Cli   == masked' = 1
Mask ==
  /\ At("cli", "low") /\ Cli
  /\ UNCHANGED <<frame, PPM_FLAG, i, lo, Servo_data, INPUT_SIGNAL, turned>>
ReadLow ==
  /\ At("low", "high") /\ lo' = PPM_data[i]
  /\ UNCHANGED <<frame, PPM_FLAG, i, masked, Servo_data, INPUT_SIGNAL, turned>>
ReadHigh ==
  /\ At("high", "sei")
  /\ Servo_data' = [Servo_data EXCEPT ![i] = <<lo, PPM_data[i]>>]
  /\ turned' = IF i = 0 THEN 0 ELSE turned
  /\ UNCHANGED <<frame, PPM_FLAG, i, lo, masked, INPUT_SIGNAL>>
Unmask ==
  /\ At("sei", IF i + 1 < NUM_CHN THEN "cli" ELSE "off")
  /\ masked' = 0 /\ i' = IF i + 1 < NUM_CHN THEN i + 1 ELSE 0
  /\ UNCHANGED <<frame, PPM_FLAG, lo, Servo_data, INPUT_SIGNAL, turned>>
PPM_FLAG_off ==
  /\ At("off", "aux") /\ PPM_FLAG' = 0 /\ INPUT_SIGNAL' = 1
  /\ UNCHANGED <<frame, i, lo, masked, Servo_data, turned>>

update_channels_aux ==
  /\ At("aux", "callback") /\ turned' = (turned + REVERSE) % 2
  /\ UNCHANGED <<frame, PPM_FLAG, i, lo, masked, Servo_data, INPUT_SIGNAL>>
Callback ==
  /\ At("callback", "poll")
  /\ UNCHANGED <<frame, PPM_FLAG, copying>>

-----------------------------------------------------------------------------
\* setup has put all channels in the middle; Prev_TCNT1 is 0, the timer runs.
Init ==
  /\ slot = 0 /\ width \in Gaps /\ run = 0 /\ odd = 0
  /\ noise = NOISE /\ clean = 0 /\ harm = 0
  /\ since \in {0, PERIOD - 1} /\ isr = <<>>
  /\ chan = 0 /\ bad_frame = 1 /\ PPM_FLAG = 0
  /\ PPM_data = [c \in Places |-> <<c, 0>>]
  /\ pc = "poll" /\ i = 0 /\ lo = Noise /\ masked = 0 /\ INPUT_SIGNAL = 0
  /\ turned = 0
  /\ Servo_data = [c \in Channels |-> <<<<c, 0>>, <<c, 0>>>>]

Receiver == PulseEnds \/ NoiseEdge \/ NestedEdge \/ Dropout
Main == \/ FrameReady \/ NoFrame \/ Mask \/ ReadLow \/ ReadHigh \/ Unmask
        \/ PPM_FLAG_off \/ update_channels_aux \/ Callback
Next == Receiver \/ PPM_decode \/ Main
Spec == Init /\ [][Next]_vars

-----------------------------------------------------------------------------
\* Type correctness; in particular channels are stored beyond the room there is:
\* one, and one more when an edge comes within the interrupt of another, but
\* never further, however noise, starts of frame and nested edges follow.
TypeOK ==
  /\ chan \in 0 .. NUM_CHN + 1 + NESTED
  /\ {bad_frame, PPM_FLAG, masked, turned, harm, INPUT_SIGNAL} \subseteq {0, 1}
  /\ PPM_data \in [Places -> Values] /\ lo \in Values
  /\ Servo_data \in [Channels -> Values \X Values]
  /\ since \in 0 .. PERIOD - 1 /\ Len(isr) <= 1 + NESTED
  /\ isr \in Seq([cur : 0 .. PERIOD - 1, value : Values, step : Steps, to : Places])
  /\ slot \in 0 .. SENT /\ width \in Nat /\ run \in 0 .. width
  /\ odd \in {0, 1} /\ clean \in 0 .. 3
  /\ i \in Channels

\* No stick position is put together from two: both bytes of a channel are of
\* one pulse, although the interrupt writes while update_ppm reads; and
ChannelsWhole == \A c \in Channels : Servo_data[c][1] = Servo_data[c][2]

\* every stick position that was copied is one of its own channel: glitches
\* that the decoder is made for never shift the channels nor leave a wrong
\* value.
ChannelsInPlace ==
  harm = 0 => \A c \in Channels : Servo_data[c][1][1] = c
ChannelsRight == ChannelsWhole /\ ChannelsInPlace

\* The decoder recovers from any noise, edges within its own interrupt and
\* dropouts included: the third start of frame after the last noise hands
\* over a frame with all its channels right.
Recovers ==
  Step("leave") /\ clean = 3 /\ slot = 1 =>
    /\ PPM_FLAG = 1 /\ chan = 0 /\ bad_frame = 0
    /\ \A c \in Channels : c < SENT => PPM_data[c] = <<c, 1 - odd>>

(***************************************************************************)
(* Why ChannelsRight and Recovers hold.                                    *)
(***************************************************************************)
\* Of nested edges the inner one measures the same time as the outer one, or,
\* after another one, none: it does not start a frame while the outer one counts
\* a channel, nor count one while the outer one starts a frame.  Each edge that
\* has counted a channel too many and not yet closed the frame lets in another.
Storing == {"load", "store", "count"}
In(k, steps) == k \in 1 .. Len(isr) /\ isr[k].step \in steps
Closing(k) == IF In(k, {"close"}) THEN 1 ELSE 0
RoomOK ==
  /\ Len(isr) = 1 => since \in {0, isr[1].cur}
  /\ Len(isr) = 2 => since = isr[1].cur /\ since \in {0, isr[2].cur}
  /\ \A k \in {1, 2} :
       /\ In(k, Storing \cup {"close"}) => SHORT <= isr[k].cur /\ isr[k].cur <= LONG
       /\ In(k, {"first", "open"}) => isr[k].cur > LONG
       /\ In(k, {"open"}) => chan = 0
       /\ In(k, Storing) => chan <= NUM_CHN + NESTED
       /\ In(k, {"store", "count"}) /\ bad_frame = 0 =>
            isr[k].to <= NUM_CHN + Closing(1) + Closing(2)
  /\ Len(isr) = 2 /\ In(1, Storing) => bad_frame = 0
  /\ bad_frame = 0 => chan <= NUM_CHN + Closing(1) + Closing(2)

\* update_ppm copies a channel while no interrupt runs.
CopyUndisturbed ==
  /\ masked = 1 <=> pc \in {"low", "high", "sei"}
  /\ masked = 1 => isr = <<>>
  /\ pc = "high" => lo = PPM_data[i]

\* The channels of the frame that have been sent, and whether it is odd.
Counted == IF slot = 0 THEN SENT ELSE slot - 1
Parity  == IF slot = 0 THEN 1 - odd ELSE odd

\* No edge is being counted.
Settled == isr = <<>> \/ Step("leave")

\* With no noise but glitches every edge is measured from the one before (at
\* power-up, from about the start), only the gap looks like a start of frame,
\* and a frame without glitches is counted along.
OnlyGlitches ==
  harm = 0 =>
    /\ \A c \in Channels : PPM_data[c][1] = c
    /\ Len(isr) <= 1 /\ width \in Widths(slot)
    /\ isr = <<>> =>
         \/ since = 0
         \/ since = PERIOD - 1 /\ slot = 0 /\ run = 0 /\ bad_frame = 1
    /\ isr # <<>> => since = Cur
    /\ Settled /\ bad_frame = 0 => run = 0 /\ chan = Counted
    /\ (Body /\ Cur > LONG) \/ In(1, {"first", "open"}) => run = 0 /\ slot = 1
    /\ (IsPulse /\ bad_frame = 0) \/ In(1, Storing) =>
         run = 0 /\ Counted = chan + 1 /\ isr[1].value[1] = chan
    /\ Step("open") => chan = 0
    /\ In(1, {"store", "count"}) => isr[1].to = chan

\* n channels of a frame have been stored, but those there is no room for.
Stored(n, parity) == \A c \in 0 .. NUM_CHN : c < n => PPM_data[c] = <<c, parity>>
Collected(n, parity) ==
  /\ chan = IF n > NUM_CHN THEN NUM_CHN + 1 ELSE n
  /\ bad_frame = IF n > NUM_CHN THEN 1 ELSE 0
  /\ Stored(n, parity)

\* After noise of any kind: from the first start of frame on edges are measured
\* from the one before, from the second on channels are counted along.
Recovering ==
  /\ clean > 0 =>
       /\ Len(isr) <= 1 /\ run = 0 /\ width \in Widths(slot)
       /\ since = IF isr = <<>> THEN 0 ELSE Cur
  /\ clean > 1 =>
       /\ Settled => Collected(Counted, Parity)
       /\ Body /\ slot = 1 => Cur > LONG /\ (clean = 3 => Collected(SENT, 1 - odd))
       /\ Body /\ slot # 1 => IsPulse
       /\ (Body /\ slot # 1) \/ In(1, Storing) =>
            /\ slot # 1 /\ isr[1].value = <<Counted - 1, Parity>>
            /\ Collected(Counted - 1, Parity)
       /\ In(1, Storing) => bad_frame = 0
       /\ In(1, {"store", "count"}) => isr[1].to = chan
       /\ Step("count") => PPM_data[chan] = isr[1].value
       /\ Step("close") => slot # 1 /\ chan = NUM_CHN + 1 /\ Stored(Counted, Parity)
                         /\ Counted = chan
       /\ In(1, {"first", "open"}) =>
            slot = 1 /\ (clean = 3 => PPM_FLAG = 1 /\ Stored(SENT, 1 - odd))
       /\ Step("open") => chan = 0

PpmInvariant ==
  TypeOK /\ RoomOK /\ CopyUndisturbed /\ OnlyGlitches /\ ChannelsRight /\ Recovering /\ Recovers

(***************************************************************************)
(* A statement of _Config.h that the code does not keep.                   *)
(***************************************************************************)
\* A reversed channel is reversed in all that protocols transmit.
ReversedOnce == 
  pc = "callback" /\ INPUT_SIGNAL = 1 /\ REVERSE = 1 => turned = 1
=============================================================================
