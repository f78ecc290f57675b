--------------------------- MODULE ProtocolSelect ----------------------------
(***************************************************************************)
(* Which protocol runs, whether it binds, and whether it transmits: how    *)
(* Update_All follows the frames of the transmitter, the bind channel and  *)
(* the bind button, restarts protocols, and watches the input signal.      *)
(*                                                                         *)
(* A frame (serial) or the channels (PPM) arrive at any time, by interrupt; *)
(* SerialLink and PpmInput have the details.  A model stands for what the   *)
(* code compares: protocol, sub-protocol and receiver number.              *)
(***************************************************************************)
EXTENDS Integers, FiniteSetsExt

CONSTANTS
  Models,        \* What the transmitter or the dial may select.
  Known,         \* The models whose protocol is in this firmware.
  AlwaysBind,    \* Known models whose protocol binds at every start.
  NeverBind,     \* Known models whose protocol has no bind phase.
  None,          \* No protocol: remote_callback is null.
  Seen,          \* The stick positions that occur, of Sticks.
  Modes,         \* Of MODE_SERIAL and MODE_PPM: the dial's positions.
  Buttons,       \* For each mode, {0, 1} when the bind button may be held at
                 \* power up.
  TIMEOUT,       \* 70ms without input, in ticks.
  RESET,         \* What modules_reset and protocol_init take.
  GAP            \* The longest time between two runs of Update_All.

MODE_SERIAL == "serial"
MODE_PPM    == "ppm"

\* The bind channel below PPM_MIN_COMMAND, above PPM_MAX_COMMAND or between;
\* the throttle within 25us of its lowest position or not.
Sticks  == [bind_ch : {"low", "mid", "high"}, throttle : {"low", "up"}]
Centred == [bind_ch |-> "mid", throttle |-> "low"]

ASSUME SelectAssumption ==
  /\ Known \subseteq Models /\ AlwaysBind \subseteq Known
  /\ NeverBind \subseteq Known \ AlwaysBind /\ Seen \subseteq Sticks
  /\ None \notin Models
  /\ Modes \subseteq {MODE_SERIAL, MODE_PPM}
  /\ Buttons \in [Modes -> SUBSET {0, 1}]
  /\ TIMEOUT \in Nat /\ RESET \in Nat /\ GAP \in Nat \ {0}

VARIABLES
  pc,
  mode_select,
  rx_ok_buff,        \* The last good frame; in PPM mode, its sticks are
                     \* PPM_data and its controls the dial's.
  RX_FLAG,           \* 1: it is not yet decoded (PPM_FLAG in PPM mode).
  cur_protocol,      \* The controls of the frame decoded last.
  Servo_data,        \* The sticks of the frame decoded last.
  protocol,          \* The model that is, or is about to be, started.
  AUTOBIND_FLAG, BIND_BUTTON_FLAG, BIND_DONE, BIND_CH_PREV,
  CHANGE_PROTOCOL_FLAG,
  remote_callback,   \* The model whose protocol is called, or None.
  INPUT_SIGNAL,      \* 1: callbacks may transmit.
  silence,           \* millis() - last_signal.
  elapsed,           \* Time spent at this pc.
  quiet,             \* Time since the last good frame arrived.
  age,               \* Time since the frame decoded last arrived.
  asked,             \* What the frame just decoded asks for.
  button             \* 1: the bind button was held at power-up; in serial mode,
                     \* until the second frame is decoded.

input    == <<mode_select, rx_ok_buff, RX_FLAG>>
decoded  == <<cur_protocol, Servo_data, protocol>>
bindings == <<AUTOBIND_FLAG, BIND_BUTTON_FLAG, BIND_DONE, BIND_CH_PREV>>
running  == <<remote_callback, CHANGE_PROTOCOL_FLAG>>
clocks   == <<silence, elapsed, quiet, age>>
history  == <<asked, button>>
vars == <<pc, input, decoded, bindings, running, INPUT_SIGNAL, clocks, history>>

Controls == [model : Models, autobind : {0, 1}, bind : {0, 1}]
NoFrame  == [model |-> None, autobind |-> 0, bind |-> 0]
Frames   == [control : Controls, sticks : Seen]

\* Clocks stop at LIMIT: what is older than that is all the same.
LIMIT == TIMEOUT + RESET + 2 * GAP + 1

-----------------------------------------------------------------------------
(***************************************************************************)
(* Interrupts and time.                                                    *)
(***************************************************************************)
Arrive ==
  /\ rx_ok_buff' \in {f \in Frames :
                        \/ mode_select = MODE_SERIAL
                        \/ f.control = cur_protocol}
  /\ RX_FLAG' = 1 /\ quiet' = 0
  /\ UNCHANGED <<pc, mode_select, decoded, bindings, running, INPUT_SIGNAL,
                 silence, elapsed, age, history>>

\* The loop is back at Update_All within GAP; a reset takes all of RESET.
Older(t) == Min({t + 1, LIMIT})
Tick ==
  /\ \/ pc = "loop" /\ elapsed < GAP
     \/ pc = "reset" /\ elapsed < RESET
  /\ elapsed' = elapsed + 1
  /\ silence' = Older(silence) /\ quiet' = Older(quiet) /\ age' = Older(age)
  /\ UNCHANGED <<pc, input, decoded, bindings, running, INPUT_SIGNAL, history>>

-----------------------------------------------------------------------------
(***************************************************************************)
(* Update_All.                                                             *)
(***************************************************************************)
\* What a transmitter, or its pilot, asks for with the frame just received:
\* to restart (another model or setting, the rise of the bind bit), to bind with
\* the bind channel (it is up with the throttle low, and was not so before), and
\* to bind, in any way: the button held at power-up does for the first model.
NewModel(control) == control.model # cur_protocol.model
NewAutobind(control) == control.autobind # cur_protocol.autobind
BindRises(control) == control.bind = 1 /\ cur_protocol.bind = 0
BindSticks == [bind_ch |-> "high", throttle |-> "low"]
ChannelRises(sticks) == Servo_data.bind_ch = "low" /\ sticks = BindSticks
Bit(condition) == IF condition THEN 1 ELSE 0
Asked(frame) ==
  [restart |-> Bit(\/ NewModel(frame.control) \/ NewAutobind(frame.control)
                   \/ BindRises(frame.control)),
   channel |-> Bit(frame.sticks = BindSticks /\ Servo_data # BindSticks),
   bind |-> Bit(\/ BindRises(frame.control)
                \/ BIND_BUTTON_FLAG = 1
                \/ frame.control.autobind = 1
                   /\ (NewModel(frame.control) \/ ChannelRises(frame.sticks)))]
Nothing == [restart |-> 0, channel |-> 0, bind |-> 0]

\* A new model, or another setting of its autobind option, restarts; so does
\* the bind bit, but only when it rises.
OtherModel(control) == NewModel(control) \/ NewAutobind(control)
RestartBindOnly(control)  == NewAutobind(control) \/ BindRises(control)
Restart(control)          == OtherModel(control) \/ BindRises(control)

DecodeSince(frame, time) ==
  /\ Servo_data' = frame.sticks
  /\ RX_FLAG' = 0 /\ INPUT_SIGNAL' = 1 /\ silence' = time
  /\ age' = quiet /\ asked' = Asked(frame)
  /\ button' = IF mode_select = MODE_SERIAL THEN BIND_BUTTON_FLAG ELSE button
DecodeKeepsClock(frame) == DecodeSince(frame, silence)
Decode(frame) == DecodeSince(frame, 0)
update_serial_data(control) ==
  /\ AUTOBIND_FLAG' = IF control.autobind = 1 \/ control.bind = 1 THEN 1 ELSE 0
  /\ CHANGE_PROTOCOL_FLAG' = IF Restart(control) THEN 1 ELSE 0
  /\ protocol' = IF OtherModel(control) THEN control.model ELSE protocol
  /\ cur_protocol' = control
update_ppm == UNCHANGED <<AUTOBIND_FLAG, CHANGE_PROTOCOL_FLAG, protocol, cur_protocol>>

UpdateInput ==
  /\ pc = "loop" /\ pc' = "bind_ch" /\ elapsed' = 0
  /\ \/ /\ RX_FLAG = 1
        /\ Decode(rx_ok_buff)
        /\ IF mode_select = MODE_SERIAL
           THEN update_serial_data(rx_ok_buff.control) ELSE update_ppm
     \/ /\ RX_FLAG = 0 /\ asked' = Nothing
        /\ UNCHANGED <<decoded, RX_FLAG, AUTOBIND_FLAG, CHANGE_PROTOCOL_FLAG,
                       INPUT_SIGNAL, silence, age, button>>
  /\ UNCHANGED <<mode_select, rx_ok_buff, BIND_BUTTON_FLAG, BIND_DONE,
                 BIND_CH_PREV, remote_callback, quiet>>

\* The bind channel is up with the throttle down, on a model with autobind,
\* and was not so before.
BindChannelUp == AUTOBIND_FLAG = 1 /\ Servo_data = BindSticks
BindChannelOn == BindChannelUp /\ BIND_CH_PREV = 0
BindChannelReleased   == Servo_data.bind_ch = "low"
BindChannel ==
  /\ pc = "bind_ch"
  /\ CHANGE_PROTOCOL_FLAG' = IF BindChannelOn THEN 1 ELSE CHANGE_PROTOCOL_FLAG
  /\ BIND_CH_PREV' = IF BindChannelOn THEN 1
                     ELSE IF BindChannelReleased THEN 0 ELSE BIND_CH_PREV
  /\ pc' = IF CHANGE_PROTOCOL_FLAG' = 1 THEN "reset" ELSE "led"
  /\ UNCHANGED <<input, decoded, AUTOBIND_FLAG, BIND_BUTTON_FLAG, BIND_DONE,
                 remote_callback, INPUT_SIGNAL, clocks, history>>

\* modules_reset has waited; start the protocol.
Binding(model, autobind) ==
  model \notin NeverBind /\ (autobind = 1 \/ model \in AlwaysBind)
StartProtocolChange(change) ==
  /\ remote_callback' = IF protocol \in Known THEN protocol ELSE None
  /\ CHANGE_PROTOCOL_FLAG' = change
  /\ AUTOBIND_FLAG' = IF BIND_BUTTON_FLAG = 1 THEN 1 ELSE AUTOBIND_FLAG
  /\ BIND_DONE' = IF Binding(protocol, AUTOBIND_FLAG') THEN 0 ELSE 1
  /\ BIND_BUTTON_FLAG' = 0
StartProtocolKeepsChange == StartProtocolChange(CHANGE_PROTOCOL_FLAG)
StartProtocol == StartProtocolChange(0)
protocol_init ==
  /\ pc = "reset" /\ elapsed = RESET
  /\ StartProtocol
  /\ pc' = "led"
  /\ UNCHANGED <<input, decoded, BIND_CH_PREV, INPUT_SIGNAL, clocks, history>>

SilentLong == silence >= LIMIT
Silent     == silence > TIMEOUT
update_led_status ==
  /\ pc = "led"
  /\ INPUT_SIGNAL' = IF Silent THEN 0 ELSE INPUT_SIGNAL
  /\ pc' = "loop" /\ elapsed' = 0
  /\ UNCHANGED <<input, decoded, bindings, running, silence, quiet, age, history>>

(***************************************************************************)
(* The protocol's callback transmits Servo_data; at some time it has sent   *)
(* enough bind packets, or got the answer it waits for.                    *)
(***************************************************************************)
Transmits == pc = "loop" /\ remote_callback # None /\ INPUT_SIGNAL = 1
Callback ==
  /\ Transmits
  /\ BIND_DONE' \in {BIND_DONE, 1}
  /\ UNCHANGED <<pc, input, decoded, AUTOBIND_FLAG, BIND_BUTTON_FLAG,
                 BIND_CH_PREV, running, INPUT_SIGNAL, clocks, history>>

-----------------------------------------------------------------------------
\* After setup.  In PPM mode it has started the protocol of the dial.
Init ==
  /\ pc = "loop" /\ mode_select \in Modes
  /\ RX_FLAG = 0 /\ Servo_data = Centred
  /\ BIND_CH_PREV = 0 /\ CHANGE_PROTOCOL_FLAG = 0 /\ INPUT_SIGNAL = 0
  /\ button \in Buttons[mode_select]
  /\ \/ /\ mode_select = MODE_SERIAL
        /\ cur_protocol = NoFrame /\ protocol = None /\ remote_callback = None
        /\ AUTOBIND_FLAG = 0 /\ BIND_BUTTON_FLAG = button /\ BIND_DONE = 0
     \/ /\ mode_select = MODE_PPM
        /\ cur_protocol \in {c \in Controls : c.bind = 0}
        /\ protocol = cur_protocol.model
        /\ remote_callback = IF protocol \in Known THEN protocol ELSE None
        /\ AUTOBIND_FLAG = Max({button, cur_protocol.autobind}) /\ BIND_BUTTON_FLAG = 0
        /\ BIND_DONE = IF Binding(protocol, AUTOBIND_FLAG) THEN 0 ELSE 1
  /\ rx_ok_buff = [control |-> cur_protocol, sticks |-> Centred]
  /\ silence = LIMIT /\ quiet = LIMIT /\ age = LIMIT /\ elapsed = 0
  /\ asked = Nothing

Main == UpdateInput \/ BindChannel \/ protocol_init \/ update_led_status
Next == Main \/ Callback \/ Arrive \/ Tick

Spec     == Init /\ [][Next]_vars
\* The loop goes on, and time passes.
FairSpec == Spec /\ WF_vars(Main) /\ WF_vars(Tick)

-----------------------------------------------------------------------------
\* Type correctness; a restart is never left pending over the main loop.
TypeOK ==
  /\ pc \in {"loop", "bind_ch", "reset", "led"}
  /\ rx_ok_buff.sticks \in Sticks /\ Servo_data \in Sticks
  /\ {rx_ok_buff.control, cur_protocol} \subseteq Controls \cup {NoFrame}
  /\ {protocol, remote_callback} \subseteq Models \cup {None}
  /\ {RX_FLAG, AUTOBIND_FLAG, BIND_BUTTON_FLAG, BIND_DONE, BIND_CH_PREV,
      CHANGE_PROTOCOL_FLAG, INPUT_SIGNAL, button} \subseteq {0, 1}
  /\ CHANGE_PROTOCOL_FLAG = 1 => pc \in {"bind_ch", "reset"}
  /\ {silence, elapsed, quiet, age} \subseteq 0 .. LIMIT

\* Between two runs of Update_All the protocol of the last decoded frame runs,
\* or none when the firmware does not have it: never the model before.
SelectedProtocolRuns ==
  pc = "loop" =>
    remote_callback = IF cur_protocol.model \in Known THEN cur_protocol.model
                      ELSE None

\* A pilot who asks to bind gets it, at any time: when the bind bit rises, when
\* a model with autobind is selected, when the bind channel goes up on one with
\* the throttle low, or for the first model when the bind button was held at
\* power-up, the protocol is binding at the end of Update_All; and
BindsWhenAsked ==
  pc = "led" /\ asked.bind = 1 /\ remote_callback \in Known \ NeverBind =>
    BIND_DONE = 0

\* a protocol is restarted (the link is lost for a tenth of a second and more)
\* only by a frame that selects another model or setting, by the rise of the
\* bind bit, or by that of the bind channel: holding them does not restart it
\* again and again.  The bind channel acts on models with autobind; with the
\* bind bit set it acts on any, and so it does, in PPM mode, ever after the bind
\* button was held at power-up.  In serial mode the button lets a bind channel
\* that is up restart the first model once more, before the next frame.
BindChannelAllowed ==
  \/ cur_protocol.autobind = 1 \/ cur_protocol.bind = 1
  \/ mode_select = MODE_PPM /\ button = 1
RestartsAreAsked ==
  pc = "reset" => \/ asked.restart = 1
                  \/ asked.channel = 1 /\ BindChannelAllowed
                  \/ mode_select = MODE_SERIAL /\ button = 1 /\ BIND_BUTTON_FLAG = 0
BindsAsAsked == BindsWhenAsked /\ RestartsAreAsked

\* What the documentation says of the bind channel: it restarts only a model
\* whose autobind is Y (Protocols_Details.md:43-44).  It does not hold.
BindChannelNeedsAutobind ==
  pc = "reset" => asked.restart = 1 \/ cur_protocol.autobind = 1

\* Stick positions that are transmitted are never older than the input timeout
\* and one restart: a transmitter that falls silent silences the module.
TransmitsFreshSticks == Transmits => age <= TIMEOUT + RESET + 2 * GAP

(***************************************************************************)
(* Why these hold.                                                         *)
(***************************************************************************)
\* What is started is what was decoded; in PPM mode the controls are the dial's.
ControlsAgree ==
  /\ protocol = cur_protocol.model
  /\ mode_select \in Modes
  /\ RX_FLAG = 1 => rx_ok_buff.control \in Controls
  /\ mode_select = MODE_PPM =>
       /\ rx_ok_buff.control = cur_protocol /\ cur_protocol \in Controls
       /\ cur_protocol.autobind = 1 => AUTOBIND_FLAG = 1

\* A restart that is due is carried out before the loop goes on.
RunsUnlessRestarting ==
  pc # "reset" /\ CHANGE_PROTOCOL_FLAG = 0 =>
    remote_callback = IF protocol \in Known THEN protocol ELSE None

\* A request to bind is on its way: the restart is due, or the bind channel is
\* about to ask for it, as BIND_CH_PREV fell when it was low.
BindIsUnderWay ==
  /\ pc # "bind_ch" /\ Servo_data.bind_ch = "low" => BIND_CH_PREV = 0
  /\ asked.bind = 1 /\ pc \in {"bind_ch", "reset"} =>
       AUTOBIND_FLAG = 1 \/ BIND_BUTTON_FLAG = 1
  /\ asked.bind = 1 /\ pc = "bind_ch" => CHANGE_PROTOCOL_FLAG = 1 \/ BindChannelOn
  /\ BindsWhenAsked

\* AUTOBIND_FLAG follows the frame and, in PPM mode, the button; in serial mode
\* the button raises it from the first start to the next frame.
AutobindIsAllowed ==
  /\ BindChannelAllowed => AUTOBIND_FLAG = 1
  /\ AUTOBIND_FLAG = 1 /\ ~BindChannelAllowed =>
       mode_select = MODE_SERIAL /\ button = 1 /\ BIND_BUTTON_FLAG = 0
  /\ BIND_BUTTON_FLAG = 1 =>
       /\ mode_select = MODE_SERIAL /\ button = 1
       /\ cur_protocol = NoFrame \/ asked.restart = 1
  /\ BIND_BUTTON_FLAG = 1 /\ pc # "bind_ch" /\ pc # "reset" => cur_protocol = NoFrame
  /\ cur_protocol = NoFrame => Servo_data # BindSticks

\* A bind channel that is up has been seen by the end of Update_All.
BindChannelSeen ==
  /\ {asked.restart, asked.channel, asked.bind} \subseteq {0, 1}
  /\ BindChannelAllowed /\ Servo_data = BindSticks /\ BIND_CH_PREV = 0 =>
       pc = "bind_ch" /\ (asked.restart = 1 \/ asked.channel = 1)
  /\ pc = "bind_ch" => (CHANGE_PROTOCOL_FLAG = 1 <=> asked.restart = 1)
  /\ RestartsAreAsked

\* A frame that waits arrived after the last run of Update_All began; and what
\* was decoded is older than the signal by no more than it had waited.
FramesAreRecent ==
  /\ pc = "loop" => elapsed <= GAP
  /\ pc = "bind_ch" => elapsed = 0
  /\ pc \in {"reset", "led"} => elapsed <= RESET
  /\ RX_FLAG = 1 => quiet <= elapsed + (IF pc = "loop" THEN RESET ELSE 0)
  /\ age <= silence + RESET + GAP
  /\ INPUT_SIGNAL = 1 /\ pc = "loop" => silence <= TIMEOUT + elapsed

\* The inductive invariant.
SelectInvariant ==
  /\ TypeOK /\ ControlsAgree /\ RunsUnlessRestarting /\ BindIsUnderWay
  /\ AutobindIsAllowed /\ BindChannelSeen
  /\ FramesAreRecent

\* A transmitter that settles on a model it keeps sending is eventually, and
\* then always again, transmitted for, whatever it did before.
InsistedModelTransmits ==
  <>[][rx_ok_buff' = rx_ok_buff]_rx_ok_buff /\ []<>(RX_FLAG = 1) =>
    []<>(Transmits \/ cur_protocol.model \notin Known)
=============================================================================
