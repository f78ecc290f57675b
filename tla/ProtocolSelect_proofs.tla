------------------------ MODULE ProtocolSelect_proofs ------------------------
(***************************************************************************)
(* SelectInvariant is inductive.  Hence, whatever models the firmware has  *)
(* and whatever frames arrive when, the selected protocol runs, it binds   *)
(* when asked, restarts only when asked, and stale sticks are not sent.    *)
(***************************************************************************)
EXTENDS ProtocolSelect, TLAPS

LEMMA Constants ==
  /\ TIMEOUT \in Nat /\ RESET \in Nat /\ GAP \in Nat /\ GAP > 0
  /\ LIMIT \in Nat /\ LIMIT = TIMEOUT + RESET + 2 * GAP + 1
  /\ None \notin Models /\ Known \subseteq Models
BY SelectAssumption DEF LIMIT

LEMMA OlderIs ==
  ASSUME NEW t \in 0 .. LIMIT
  PROVE  /\ Older(t) \in 0 .. LIMIT /\ Older(t) <= t + 1
         /\ Older(t) = t + 1 \/ Older(t) = LIMIT
<1> DEFINE least == IF t + 1 <= LIMIT THEN t + 1 ELSE LIMIT
<1>1. least \in {t + 1, LIMIT} /\ \A y \in {t + 1, LIMIT} : least <= y
  BY Constants
<1>2. /\ Older(t) \in {t + 1, LIMIT}
      /\ \A y \in {t + 1, LIMIT} : Older(t) <= y
  BY <1>1 DEF Older, Min
<1> QED BY <1>1, <1>2, Constants

\* The flag of autobind that setup leaves in PPM mode.
LEMMA GreaterOfBits ==
  ASSUME NEW a \in {0, 1}, NEW b \in {0, 1}
  PROVE  Max({a, b}) \in {0, 1} /\ (Max({a, b}) = 1 <=> a = 1 \/ b = 1)
<1> DEFINE greatest == IF a >= b THEN a ELSE b
<1>1. greatest \in {a, b} /\ \A y \in {a, b} : greatest >= y OBVIOUS
<1>2. Max({a, b}) \in {a, b} /\ \A y \in {a, b} : Max({a, b}) >= y
  BY <1>1 DEF Max
<1> QED BY <1>2

LEMMA NextCases ==
  Next => \/ UpdateInput \/ BindChannel \/ protocol_init \/ update_led_status
          \/ Callback \/ Arrive \/ Tick
BY DEF Next, Main

-----------------------------------------------------------------------------
(***************************************************************************)
(* Types.                                                                  *)
(***************************************************************************)
LEMMA FrameTypes ==
  /\ \A f \in Frames : f.control \in Controls /\ f.sticks \in Sticks
  /\ \A c \in Controls : c.model \in Models /\ {c.autobind, c.bind} \subseteq {0, 1}
  /\ NoFrame.model = None /\ NoFrame.autobind = 0 /\ NoFrame.bind = 0
  /\ NoFrame \notin Controls /\ Centred \in Sticks
  /\ Centred.bind_ch = "mid"
BY Constants, SelectAssumption DEF Frames, Controls, NoFrame, Centred, Sticks

LEMMA TypeStep == ASSUME SelectInvariant, Next PROVE TypeOK'
<1> USE Constants DEF SelectInvariant, TypeOK
<1>1. CASE UpdateInput
  <2>1. CASE RX_FLAG = 1
    <3>1. /\ pc' = "bind_ch" /\ elapsed' = 0 /\ Decode(rx_ok_buff)
          /\ UNCHANGED <<rx_ok_buff, BIND_BUTTON_FLAG, BIND_DONE, BIND_CH_PREV,
                         remote_callback, quiet>>
          /\ update_serial_data(rx_ok_buff.control) \/ update_ppm
      BY <1>1, <2>1 DEF UpdateInput
    <3>2. rx_ok_buff.control \in Controls BY <2>1 DEF ControlsAgree
    <3>3. /\ {AUTOBIND_FLAG', CHANGE_PROTOCOL_FLAG', button'} \subseteq {0, 1}
          /\ cur_protocol' \in Controls \cup {NoFrame}
          /\ protocol' \in Models \cup {None}
      BY <3>1, <3>2, FrameTypes DEF update_serial_data, update_ppm, Decode, DecodeSince
    <3> QED BY <3>1, <3>3 DEF Decode, DecodeSince
  <2>2. CASE RX_FLAG = 0
    BY <1>1, <2>2 DEF UpdateInput, decoded, Decode, DecodeSince
  <2> QED BY <2>1, <2>2
<1>2. CASE BindChannel
  BY <1>2 DEF BindChannel, input, decoded, clocks, history
<1>3. CASE protocol_init
  BY <1>3 DEF protocol_init, StartProtocol, StartProtocolChange, input,
     decoded, clocks, history
<1>4. CASE update_led_status
  BY <1>4 DEF update_led_status, input, decoded, bindings, running, history
<1>5. CASE Callback
  BY <1>5 DEF Callback, input, decoded, running, clocks, history
<1>6. CASE Arrive
  <2>1. rx_ok_buff' \in Frames /\ RX_FLAG' = 1 /\ quiet' = 0
    BY <1>6 DEF Arrive
  <2>2. rx_ok_buff'.sticks \in Sticks /\ rx_ok_buff'.control \in Controls
    BY <2>1, FrameTypes
  <2> QED BY <1>6, <2>1, <2>2 DEF Arrive, decoded, bindings, running, history
<1>7. CASE Tick
  <2>1. elapsed' \in 0 .. LIMIT
    BY <1>7 DEF Tick
  <2>2. {silence', quiet', age'} \subseteq 0 .. LIMIT
    BY <1>7, OlderIs DEF Tick
  <2> QED BY <1>7, <2>1, <2>2 DEF Tick, input, decoded, bindings, running, history
<1> QED
  BY NextCases, <1>1, <1>2, <1>3, <1>4, <1>5, <1>6, <1>7

-----------------------------------------------------------------------------
(***************************************************************************)
(* The selected protocol.                                                  *)
(***************************************************************************)
LEMMA ControlsStep == ASSUME SelectInvariant, Next PROVE ControlsAgree'
<1> USE DEF SelectInvariant, ControlsAgree
<1>1. CASE UpdateInput
  <2>1. CASE RX_FLAG = 1
    BY <1>1, <2>1, FrameTypes
       DEF UpdateInput, Decode, DecodeSince, update_serial_data, update_ppm,
           OtherModel, NewModel, TypeOK, MODE_SERIAL, MODE_PPM
  <2>2. CASE RX_FLAG # 1
    BY <1>1, <2>2 DEF UpdateInput, decoded
  <2> QED BY <2>1, <2>2
<1>2. CASE BindChannel BY <1>2 DEF BindChannel, input, decoded
<1>3. CASE protocol_init
  BY <1>3 DEF protocol_init, StartProtocol, StartProtocolChange, input, decoded
<1>4. CASE update_led_status
  BY <1>4 DEF update_led_status, input, decoded, bindings
<1>5. CASE Callback BY <1>5 DEF Callback, input, decoded
<1>6. CASE Arrive
  BY <1>6, FrameTypes DEF Arrive, decoded, bindings, MODE_SERIAL, MODE_PPM
<1>7. CASE Tick BY <1>7 DEF Tick, input, decoded, bindings
<1> QED
  BY NextCases, <1>1, <1>2, <1>3, <1>4, <1>5, <1>6, <1>7

LEMMA RunsStep == ASSUME SelectInvariant, Next PROVE RunsUnlessRestarting'
<1> USE DEF SelectInvariant, RunsUnlessRestarting, TypeOK
<1>1. CASE UpdateInput
  BY <1>1 DEF UpdateInput, Decode, DecodeSince, update_serial_data, update_ppm,
     Restart, decoded
<1>2. CASE BindChannel BY <1>2 DEF BindChannel, decoded
<1>3. CASE protocol_init
  BY <1>3 DEF protocol_init, StartProtocol, StartProtocolChange, decoded
<1>4. CASE update_led_status
  BY <1>4 DEF update_led_status, decoded, running
<1>5. CASE Callback BY <1>5 DEF Callback, decoded, running
<1>6. CASE Arrive BY <1>6 DEF Arrive, decoded, running
<1>7. CASE Tick BY <1>7 DEF Tick, decoded, running
<1> QED
  BY NextCases, <1>1, <1>2, <1>3, <1>4, <1>5, <1>6, <1>7

-----------------------------------------------------------------------------
(***************************************************************************)
(* Binding.                                                                *)
(***************************************************************************)
LEMMA DecodeAsks ==
  ASSUME SelectInvariant, UpdateInput, asked'.bind = 1
  PROVE  /\ AUTOBIND_FLAG' = 1 \/ BIND_BUTTON_FLAG' = 1
         /\ CHANGE_PROTOCOL_FLAG' = 1 \/ BindChannelOn'
<1> DEFINE control == rx_ok_buff.control
           sticks  == rx_ok_buff.sticks
<1>1. /\ RX_FLAG = 1 /\ asked' = Asked(rx_ok_buff) /\ Servo_data' = sticks
      /\ BIND_BUTTON_FLAG' = BIND_BUTTON_FLAG
  BY DEF UpdateInput, Decode, DecodeSince, Nothing
<1>2. \/ BindRises(control)
      \/ BIND_BUTTON_FLAG = 1
      \/ control.autobind = 1 /\ (NewModel(control) \/ ChannelRises(sticks))
  BY <1>1 DEF Asked, Bit
<1>3. ChannelRises(sticks) => BIND_CH_PREV' = 0 /\ Servo_data' = BindSticks
  BY <1>1 DEF ChannelRises, SelectInvariant, BindIsUnderWay, UpdateInput
<1>4. CASE mode_select = MODE_SERIAL
  <2>1. update_serial_data(control) BY <1>1, <1>4 DEF UpdateInput
  <2>2. BIND_BUTTON_FLAG = 1 => NewModel(control)
    <3>1. BIND_BUTTON_FLAG = 1 => cur_protocol = NoFrame
      BY DEF UpdateInput, SelectInvariant, AutobindIsAllowed
    <3>2. control.model \in Models
      BY <1>1, FrameTypes DEF SelectInvariant, ControlsAgree
    <3> QED BY <3>1, <3>2, Constants, FrameTypes DEF NewModel
  <2>3. AUTOBIND_FLAG' = 1 \/ BIND_BUTTON_FLAG = 1
    BY <1>2, <2>1 DEF update_serial_data, BindRises
  <2>4. CASE ChannelRises(sticks) /\ control.autobind = 1
    BY <1>1, <1>3, <2>1, <2>3, <2>4
       DEF update_serial_data, BindChannelOn, BindChannelUp
  <2>5. CASE BindRises(control) \/ NewModel(control)
    BY <1>1, <2>1, <2>3, <2>5 DEF update_serial_data, Restart, OtherModel
  <2> QED BY <1>2, <2>2, <2>4, <2>5
<1>5. CASE mode_select # MODE_SERIAL
  <2>1. mode_select = MODE_PPM
    BY <1>5, SelectAssumption DEF SelectInvariant, ControlsAgree
  <2>2. control = cur_protocol /\ AUTOBIND_FLAG' = AUTOBIND_FLAG
    BY <1>1, <1>5, <2>1 DEF SelectInvariant, ControlsAgree, UpdateInput, update_ppm
  <2>3. BIND_BUTTON_FLAG # 1
    BY <2>1 DEF SelectInvariant, AutobindIsAllowed, MODE_PPM, MODE_SERIAL
  <2>4. control.autobind = 1 /\ ChannelRises(sticks)
    BY <1>2, <2>2, <2>3 DEF BindRises, NewModel
  <2>5. AUTOBIND_FLAG' = 1
    BY <2>1, <2>2, <2>4 DEF SelectInvariant, ControlsAgree
  <2> QED BY <1>3, <2>4, <2>5 DEF BindChannelOn, BindChannelUp
<1> QED BY <1>4, <1>5

LEMMA BindStep == ASSUME SelectInvariant, Next PROVE BindIsUnderWay'
<1> USE DEF SelectInvariant, BindIsUnderWay, BindsWhenAsked, TypeOK
<1>1. CASE UpdateInput BY <1>1, DecodeAsks DEF UpdateInput
<1>2. CASE BindChannel
  <2>1. pc = "bind_ch" /\ pc' \in {"reset", "led"}
        /\ UNCHANGED <<Servo_data, AUTOBIND_FLAG, BIND_BUTTON_FLAG, asked>>
    BY <1>2 DEF BindChannel, decoded, history
  <2>2. asked.bind = 1 => pc' = "reset"
    BY <1>2, <2>1 DEF BindChannel
  <2>3. Servo_data.bind_ch = "low" => BIND_CH_PREV' = 0
    BY <1>2 DEF BindChannel, BindChannelReleased, BindChannelOn, BindChannelUp, BindSticks
  <2> QED BY <2>1, <2>2, <2>3
<1>3. CASE protocol_init
  <2>1. pc = "reset" /\ pc' = "led" /\ UNCHANGED <<Servo_data, BIND_CH_PREV, asked>>
    BY <1>3 DEF protocol_init, decoded, history
  <2>2. asked.bind = 1 => AUTOBIND_FLAG' = 1
    BY <1>3, <2>1 DEF protocol_init, StartProtocol, StartProtocolChange
  <2>3. asked.bind = 1 /\ remote_callback' \in Known \ NeverBind => BIND_DONE' = 0
    BY <1>3, <2>2, Constants
       DEF protocol_init, StartProtocol, StartProtocolChange, Binding
  <2> QED BY <2>1, <2>3
<1>4. CASE update_led_status
  BY <1>4 DEF update_led_status, decoded, bindings, history
<1>5. CASE Callback BY <1>5 DEF Callback, Transmits, decoded, running, history
<1>6. CASE Arrive
  BY <1>6 DEF Arrive, decoded, bindings, running, history, BindChannelOn, BindChannelUp
<1>7. CASE Tick
  BY <1>7 DEF Tick, decoded, bindings, running, history
<1> QED
  BY NextCases, <1>1, <1>2, <1>3, <1>4, <1>5, <1>6, <1>7

LEMMA AutobindStep == ASSUME SelectInvariant, Next PROVE AutobindIsAllowed'
<1> USE DEF SelectInvariant, AutobindIsAllowed, BindChannelAllowed, TypeOK
<1>1. CASE UpdateInput
  <2>1. /\ pc = "loop" /\ pc' = "bind_ch"
        /\ mode_select' = mode_select /\ BIND_BUTTON_FLAG' = BIND_BUTTON_FLAG
    BY <1>1 DEF UpdateInput
  <2>2. CASE RX_FLAG = 1
    <3>1. /\ Servo_data' = rx_ok_buff.sticks /\ asked' = Asked(rx_ok_buff)
          /\ button' = IF mode_select = MODE_SERIAL THEN BIND_BUTTON_FLAG ELSE button
      BY <1>1, <2>2 DEF UpdateInput, Decode, DecodeSince
    <3>2. rx_ok_buff.control \in Controls /\ rx_ok_buff.control # NoFrame
      BY <2>2, FrameTypes DEF ControlsAgree
    <3>3. rx_ok_buff.control.model \in Models BY <3>2, FrameTypes
    <3>4. CASE mode_select = MODE_SERIAL
      <4>1. /\ cur_protocol' = rx_ok_buff.control
            /\ AUTOBIND_FLAG' = 1 <=> cur_protocol'.autobind = 1 \/ cur_protocol'.bind = 1
        BY <1>1, <2>2, <3>4 DEF UpdateInput, update_serial_data
      <4>2. BindChannelAllowed' <=> cur_protocol'.autobind = 1 \/ cur_protocol'.bind = 1
        BY <2>1, <3>4 DEF MODE_SERIAL, MODE_PPM
      <4>3. BIND_BUTTON_FLAG = 1 => asked'.restart = 1
        BY <2>1, <3>1, <3>3, FrameTypes, Constants DEF Asked, Bit, NewModel
      <4> QED BY <2>1, <3>1, <3>2, <3>4, <4>1, <4>2, <4>3
    <3>5. CASE mode_select # MODE_SERIAL
      <4>1. /\ AUTOBIND_FLAG' = AUTOBIND_FLAG /\ cur_protocol' = cur_protocol
            /\ button' = button
        BY <1>1, <2>2, <3>1, <3>5 DEF UpdateInput, update_ppm
      <4>2. cur_protocol # NoFrame
        BY <3>5, FrameTypes, SelectAssumption DEF ControlsAgree
      <4> QED BY <2>1, <3>5, <4>1, <4>2
    <3> QED BY <3>4, <3>5
  <2>3. CASE RX_FLAG # 1
    <3>1. UNCHANGED <<cur_protocol, Servo_data, AUTOBIND_FLAG, button>>
      BY <1>1, <2>3 DEF UpdateInput, decoded
    <3> QED BY <2>1, <3>1
  <2> QED BY <2>2, <2>3
<1>2. CASE BindChannel
  <2>1. pc = "bind_ch" /\ pc' \in {"reset", "led"}
        /\ UNCHANGED <<mode_select, cur_protocol, Servo_data, AUTOBIND_FLAG,
                       BIND_BUTTON_FLAG, asked, button>>
    BY <1>2 DEF BindChannel, input, decoded, history
  <2>2. BIND_BUTTON_FLAG = 1 /\ pc' = "led" => cur_protocol = NoFrame
    BY <1>2 DEF BindChannel, BindChannelSeen
  <2> QED BY <2>1, <2>2
<1>3. CASE protocol_init
  BY <1>3 DEF protocol_init, StartProtocol, StartProtocolChange, input, decoded, history
<1>4. CASE update_led_status
  BY <1>4 DEF update_led_status, input, decoded, bindings, history
<1>5. CASE Callback
  BY <1>5 DEF Callback, Transmits, input, decoded, history
<1>6. CASE Arrive
  BY <1>6 DEF Arrive, decoded, bindings, running, history
<1>7. CASE Tick
  BY <1>7 DEF Tick, input, decoded, bindings, running, history
<1> QED
  BY NextCases, <1>1, <1>2, <1>3, <1>4, <1>5, <1>6, <1>7

\* A frame that asks for nothing changes nothing.
LEMMA QuietFrame ==
  ASSUME SelectInvariant, UpdateInput, asked'.restart = 0
  PROVE  /\ CHANGE_PROTOCOL_FLAG' = 0
         /\ asked'.channel = 0 => ~(BindChannelAllowed' /\ Servo_data' = BindSticks
                                    /\ BIND_CH_PREV' = 0)
<1>1. /\ CHANGE_PROTOCOL_FLAG = 0 /\ BIND_CH_PREV' = BIND_CH_PREV
      /\ mode_select' = mode_select /\ pc = "loop"
      /\ ~(BindChannelAllowed /\ Servo_data = BindSticks /\ BIND_CH_PREV = 0)
  BY DEF SelectInvariant, TypeOK, BindChannelSeen, UpdateInput
<1>2. CASE RX_FLAG = 1
  <2>1. /\ rx_ok_buff.control \in Controls \cup {NoFrame}
        /\ cur_protocol \in Controls \cup {NoFrame}
    BY DEF SelectInvariant, TypeOK
  <2>2. /\ ~NewModel(rx_ok_buff.control) /\ ~NewAutobind(rx_ok_buff.control)
        /\ ~BindRises(rx_ok_buff.control)
    BY <1>2 DEF UpdateInput, Decode, DecodeSince, Asked, Bit
  <2>3. /\ rx_ok_buff.control.autobind = cur_protocol.autobind
        /\ rx_ok_buff.control.bind = 1 => cur_protocol.bind = 1
    BY <2>1, <2>2, FrameTypes DEF NewAutobind, BindRises
  <2>4. CHANGE_PROTOCOL_FLAG' = 0
    BY <1>1, <1>2, <2>2
       DEF UpdateInput, update_serial_data, update_ppm, Restart, OtherModel
  <2>5. BindChannelAllowed' => BindChannelAllowed
    <3>1. CASE mode_select = MODE_SERIAL
      BY <1>1, <1>2, <2>3, <3>1
         DEF UpdateInput, update_serial_data, BindChannelAllowed, MODE_SERIAL, MODE_PPM
    <3>2. CASE mode_select # MODE_SERIAL
      BY <1>1, <1>2, <3>2
         DEF UpdateInput, update_ppm, Decode, DecodeSince, BindChannelAllowed
    <3> QED BY <3>1, <3>2
  <2>6. asked'.channel = 0 => Servo_data' # BindSticks \/ Servo_data = BindSticks
    BY <1>2 DEF UpdateInput, Decode, DecodeSince, Asked, Bit
  <2> QED BY <1>1, <2>4, <2>5, <2>6
<1>3. CASE RX_FLAG # 1
  BY <1>1, <1>3 DEF UpdateInput, decoded, BindChannelAllowed
<1> QED BY <1>2, <1>3

\* Another model or setting, and the rise of the bind bit, ask for a restart.
LEMMA RestartFrame ==
  ASSUME SelectInvariant, UpdateInput, asked'.restart = 1
  PROVE  CHANGE_PROTOCOL_FLAG' = 1
<1>1. RX_FLAG = 1 /\ asked' = Asked(rx_ok_buff)
  BY DEF UpdateInput, Decode, DecodeSince, Nothing
<1>2. Restart(rx_ok_buff.control)
  BY <1>1 DEF Asked, Bit, Restart, OtherModel
<1>3. CASE mode_select = MODE_SERIAL
  BY <1>1, <1>2, <1>3 DEF UpdateInput, update_serial_data
<1>4. CASE mode_select # MODE_SERIAL
  BY <1>1, <1>2, <1>4, SelectAssumption
     DEF SelectInvariant, ControlsAgree, Restart, OtherModel, NewModel, NewAutobind, BindRises
<1> QED BY <1>3, <1>4

LEMMA SeenStep == ASSUME SelectInvariant, Next PROVE BindChannelSeen'
<1> USE DEF SelectInvariant, BindChannelSeen, RestartsAreAsked, TypeOK
<1>1. CASE UpdateInput
  <2>1. pc' = "bind_ch" BY <1>1 DEF UpdateInput
  <2>2. {asked'.restart, asked'.channel, asked'.bind} \subseteq {0, 1}
    BY <1>1 DEF UpdateInput, Decode, DecodeSince, Asked, Bit, Nothing
  <2> QED BY <1>1, <2>1, <2>2, QuietFrame, RestartFrame
<1>2. CASE BindChannel
  <2>1. /\ pc = "bind_ch" /\ pc' \in {"reset", "led"}
        /\ UNCHANGED <<mode_select, cur_protocol, Servo_data, AUTOBIND_FLAG,
                       BIND_BUTTON_FLAG, asked, button>>
    BY <1>2 DEF BindChannel, input, decoded, history
  <2>2. ~(BindChannelAllowed' /\ Servo_data' = BindSticks /\ BIND_CH_PREV' = 0)
    <3>1. BindChannelAllowed' => BindChannelAllowed BY <2>1 DEF BindChannelAllowed
    <3>2. BindChannelAllowed /\ Servo_data = BindSticks /\ BIND_CH_PREV = 0 =>
            BIND_CH_PREV' = 1
      BY <1>2 DEF BindChannel, BindChannelOn, BindChannelUp, AutobindIsAllowed
    <3>3. BindChannelAllowed /\ Servo_data = BindSticks /\ BIND_CH_PREV = 1 =>
            BIND_CH_PREV' = 1
      BY <1>2 DEF BindChannel, BindChannelOn, BindChannelReleased, BindSticks
    <3> QED BY <2>1, <3>1, <3>2, <3>3
  <2>3. CASE pc' = "reset" /\ asked.restart = 0
    <3>1. BindChannelOn BY <1>2, <2>1, <2>3 DEF BindChannel
    <3>2. CASE BindChannelAllowed
      BY <2>1, <2>2, <2>3, <3>1, <3>2 DEF BindChannelOn, BindChannelUp, BindChannelAllowed
    <3>3. CASE ~BindChannelAllowed
      BY <2>1, <2>2, <2>3, <3>1, <3>3 DEF BindChannelOn, BindChannelUp, AutobindIsAllowed
    <3> QED BY <2>1, <2>2, <2>3, <3>2, <3>3
  <2>4. CASE pc' # "reset" \/ asked.restart # 0
    BY <2>1, <2>2, <2>4
  <2> QED BY <2>3, <2>4
<1>3. CASE protocol_init
  BY <1>3 DEF protocol_init, StartProtocol, StartProtocolChange, input, decoded, history,
     BindChannelAllowed
<1>4. CASE update_led_status
  BY <1>4 DEF update_led_status, input, decoded, bindings, history, BindChannelAllowed
<1>5. CASE Callback
  BY <1>5 DEF Callback, Transmits, input, decoded, history, BindChannelAllowed
<1>6. CASE Arrive
  BY <1>6 DEF Arrive, decoded, bindings, running, history, BindChannelAllowed
<1>7. CASE Tick
  BY <1>7 DEF Tick, input, decoded, bindings, running, history, BindChannelAllowed
<1> QED
  BY NextCases, <1>1, <1>2, <1>3, <1>4, <1>5, <1>6, <1>7

-----------------------------------------------------------------------------
(***************************************************************************)
(* The age of the sticks.                                                  *)
(***************************************************************************)
LEMMA RecentStep == ASSUME SelectInvariant, Next PROVE FramesAreRecent'
<1> USE Constants DEF SelectInvariant, FramesAreRecent, TypeOK
<1>1. CASE UpdateInput
  <2>1. pc = "loop" /\ pc' = "bind_ch" /\ elapsed' = 0 /\ RX_FLAG' = 0
    BY <1>1 DEF UpdateInput, Decode, DecodeSince
  <2>2. CASE RX_FLAG = 1
    <3>1. age' = quiet /\ silence' = 0
      BY <1>1, <2>2 DEF UpdateInput, Decode, DecodeSince
    <3> QED BY <2>1, <2>2, <3>1
  <2>3. CASE RX_FLAG # 1
    BY <1>1, <2>1, <2>3 DEF UpdateInput
  <2> QED BY <2>2, <2>3
<1>2. CASE BindChannel BY <1>2 DEF BindChannel, input, clocks
<1>3. CASE protocol_init BY <1>3 DEF protocol_init, input, clocks
<1>4. CASE update_led_status BY <1>4 DEF update_led_status, Silent, input
<1>5. CASE Callback BY <1>5 DEF Callback, input, clocks
<1>6. CASE Arrive BY <1>6 DEF Arrive
<1>7. CASE Tick
  <2>1. /\ pc' = pc /\ elapsed' = elapsed + 1 /\ RX_FLAG' = RX_FLAG
        /\ INPUT_SIGNAL' = INPUT_SIGNAL
        /\ \/ pc = "loop" /\ elapsed < GAP
           \/ pc = "reset" /\ elapsed < RESET
    BY <1>7 DEF Tick, input
  <2>2. /\ quiet' <= quiet + 1 /\ silence' <= silence + 1 /\ age' <= age + 1
        /\ silence' = silence + 1 \/ silence' = LIMIT
        /\ {quiet', silence', age'} \subseteq 0 .. LIMIT
    BY <1>7, OlderIs DEF Tick
  <2>3. age' <= silence' + RESET + GAP BY <2>2
  <2> QED BY <2>1, <2>2, <2>3
<1> QED
  BY NextCases, <1>1, <1>2, <1>3, <1>4, <1>5, <1>6, <1>7

-----------------------------------------------------------------------------
(***************************************************************************)
(* The invariant.                                                          *)
(***************************************************************************)
LEMMA SelectInit == Init => SelectInvariant
<1> SUFFICES ASSUME Init PROVE SelectInvariant OBVIOUS
<1> USE Constants DEF Init
<1>1. /\ cur_protocol \in Controls \cup {NoFrame}
      /\ mode_select = MODE_PPM => cur_protocol \in Controls
      /\ protocol = cur_protocol.model /\ protocol \in Models \cup {None}
  BY FrameTypes DEF MODE_SERIAL, MODE_PPM
<1>2. /\ BIND_BUTTON_FLAG \in {0, 1} /\ AUTOBIND_FLAG \in {0, 1} /\ button \in {0, 1}
      /\ mode_select = MODE_PPM =>
           /\ BIND_BUTTON_FLAG = 0
           /\ AUTOBIND_FLAG = 1 <=> button = 1 \/ cur_protocol.autobind = 1
  <2>1. button \in {0, 1} BY SelectAssumption
  <2>2. CASE mode_select = MODE_SERIAL
    BY <2>1, <2>2 DEF MODE_SERIAL, MODE_PPM
  <2>3. CASE mode_select # MODE_SERIAL
    BY <2>1, <2>3, GreaterOfBits, FrameTypes
  <2> QED BY <2>2, <2>3
<1>3. TypeOK
  BY <1>1, <1>2, FrameTypes, SelectAssumption DEF TypeOK
<1>4. ControlsAgree BY <1>1, <1>2 DEF ControlsAgree
<1>5. RunsUnlessRestarting BY DEF RunsUnlessRestarting
<1>6. BindIsUnderWay
  BY FrameTypes DEF BindIsUnderWay, BindsWhenAsked, Nothing
<1>7. AutobindIsAllowed
  <2>1. cur_protocol.bind = 0 BY FrameTypes
  <2> QED
    BY <1>2, <2>1, FrameTypes
       DEF AutobindIsAllowed, BindChannelAllowed, MODE_SERIAL, MODE_PPM, BindSticks, Centred
<1>9. BindChannelSeen
  BY FrameTypes DEF BindChannelSeen, RestartsAreAsked, BindSticks, Centred, Nothing
<1>8. FramesAreRecent BY DEF FramesAreRecent
<1> QED BY <1>3, <1>4, <1>5, <1>6, <1>7, <1>8, <1>9 DEF SelectInvariant

LEMMA SelectNext == SelectInvariant /\ [Next]_vars => SelectInvariant'
<1>1. ASSUME SelectInvariant, Next PROVE SelectInvariant'
  BY <1>1, TypeStep, ControlsStep, RunsStep, BindStep, AutobindStep, SeenStep, RecentStep
     DEF SelectInvariant
<1>2. ASSUME SelectInvariant, UNCHANGED vars PROVE SelectInvariant'
  BY <1>2 DEF SelectInvariant, vars, input, decoded, bindings, running, clocks, history,
     TypeOK, ControlsAgree, RunsUnlessRestarting, BindIsUnderWay,
     BindsWhenAsked, AutobindIsAllowed, BindChannelAllowed, BindChannelSeen,
     RestartsAreAsked, BindChannelOn, BindChannelUp, FramesAreRecent
<1> QED BY <1>1, <1>2

\* The inductive invariant of Update_All.
THEOREM SelectInvariantHolds == Spec => []SelectInvariant
BY SelectInit, SelectNext, PTL DEF Spec

\* Between two runs of Update_All the protocol of the frame decoded last runs
\* (Update_All, modules_reset, protocol_init).
THEOREM TheSelectedProtocolRuns == Spec => []SelectedProtocolRuns
<1>1. SelectInvariant => SelectedProtocolRuns
  BY Constants DEF SelectInvariant, TypeOK, ControlsAgree,
     RunsUnlessRestarting, SelectedProtocolRuns
<1> QED BY <1>1, SelectInvariantHolds, PTL

\* Who asks to bind gets it, the button of power-up included; and a protocol is
\* restarted only by another model or setting, the rise of the bind bit, or that
\* of the bind channel on a model with autobind, with the bind bit, or in PPM mode
\* after the bind button was held (update_serial_data, Update_All, protocol_init).
THEOREM BindsExactlyWhenAsked == Spec => []BindsAsAsked
<1>1. SelectInvariant => BindsAsAsked
  BY DEF SelectInvariant, BindIsUnderWay, BindChannelSeen, BindsAsAsked
<1> QED BY <1>1, SelectInvariantHolds, PTL

\* Sticks older than the input timeout and one restart are never transmitted.
THEOREM OnlyFreshSticks == Spec => []TransmitsFreshSticks
<1>1. SelectInvariant => TransmitsFreshSticks
  BY Constants DEF SelectInvariant, TypeOK, FramesAreRecent,
     TransmitsFreshSticks, Transmits
<1> QED BY <1>1, SelectInvariantHolds, PTL
=============================================================================
