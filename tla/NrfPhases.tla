------------------------------ MODULE NrfPhases -------------------------------
(***************************************************************************)
(* The NRF24L01 protocols whose callback is a machine of phases: some wait *)
(* for the model's answer to bind, some send batches of packets.           *)
(*                                                                         *)
(* in is what the chip reports to a callback that asks: "good", an answer  *)
(* it takes; "bad", some other packet; "late", the packet before is not    *)
(* sent yet; or "none".  "video" is a switch of the pilot's.               *)
(***************************************************************************)
EXTENDS Globals

Heard(in) == in \in {"good", "bad"}

----------------------------------------------------------------------------
(* V2x2: each of 16 channels twice.                                        *)
v202_init(s) == Tune(Address(NRF24L01_Initialize(s), "only"), Only("V2X2_init"))
V202_init2(s) == [s EXCEPT !.packet_sent = 0, !.hopping_frequency_no = 0]
V2X2_set_tx_id(s) == [s EXCEPT !.hopping_frequency = <<"V2X2", 16>>]
initV2x2(s) ==
  [V2X2_set_tx_id(v202_init(s)) EXCEPT
     !.counter = IF s.autobind THEN Shortened(1000, 32) ELSE @,
     !.phase = IF s.autobind THEN "V202_INIT2" ELSE "V202_INIT2_NO_BIND", !.delay = 50000]

V2X2_send_packet(s, bind) ==
  [Send(Tune(s, Hop(s, s.hopping_frequency_no \div 2)), Kind(bind)) EXCEPT
     !.hopping_frequency_no = (@ + 1) % 32, !.packet_sent = 1]

ReadV2x2(s, t, in) ==
  \/ /\ s.phase = "V202_INIT2"
     /\ t = After(Phase(V202_init2(s), "V202_BIND2"), 150)
  \/ /\ s.phase = "V202_INIT2_NO_BIND"
     /\ t = After(Phase(V202_init2(s), "V202_DATA"), 150)
  \/ /\ s.phase \in {"V202_BIND2", "V202_DATA"} /\ s.packet_sent = 1 /\ in = "late"
     /\ t = After(s, 100)
  \/ /\ s.phase = "V202_BIND2" /\ ~(s.packet_sent = 1 /\ in = "late") /\ s.counter > 1
     /\ t = After([V2X2_send_packet(s, 1) EXCEPT !.counter = @ - 1], 4000)
  \/ /\ s.phase = "V202_BIND2" /\ ~(s.packet_sent = 1 /\ in = "late") /\ s.counter = 1
     /\ t = After(BIND_DONE(Phase([V2X2_send_packet(s, 1) EXCEPT !.counter = 0],
                                  "V202_DATA")), 4000)
  \/ /\ s.phase = "V202_DATA" /\ ~(s.packet_sent = 1 /\ in = "late")
     /\ t = After(V2X2_send_packet(s, 0), 4000)

----------------------------------------------------------------------------
(* SLT and VISTA: a bind packet, then batches of one data packet sent 3 or *)
(* 5 times; after 100 or 150 batches a bind packet again.  SLT changes     *)
(* channel with each batch, VISTA every 9 packets.                         *)
Batches(s) == Shortened(IF s.sub_protocol = "VISTA" THEN 150 ELSE 100, 15)

SLT_set_freq(s) == [s EXCEPT !.hopping_frequency = <<"SLT", 15>>]
SLT_init(s) == Address(NRF24L01_Initialize(s), "own")
SLT_build_packet(s) == Build(s, "data")
initSLT(s) ==
  [SLT_build_packet(SLT_init(SLT_set_freq(s))) EXCEPT !.packet_count = 0, !.packet_sent = 0,
     !.rf_ch_num = 0, !.hopping_frequency_no = 0, !.phase = "SLT_BIND", !.delay = 50000]

SltNextChannel(s) == [s EXCEPT !.hopping_frequency_no = IF @ + 1 >= 15 THEN 0 ELSE @ + 1]
SLT_wait_radio(s) == [s EXCEPT !.packet_sent = 0]
SLT_send_data(s) == [Resend(SLT_wait_radio(s)) EXCEPT !.packet_sent = 1]
(* The bind packet is the address, not packet.                             *)
SLT_send_bind_packet(s) ==
  LET sent == SLT_send_data(Build(Tune(Address(BIND_DONE(SLT_wait_radio(s)), "bind"),
                                       Only("SLT_bind")), "bind"))
  IN  Build(Address(SLT_wait_radio(sent), "own"), s.packet)

SltTune(s) == Tune(s, Hop(s, s.hopping_frequency_no))
VistaTune(s) ==
  IF s.rf_ch_num + 1 >= 9 THEN [SltNextChannel(SltTune(s)) EXCEPT !.rf_ch_num = 0]
  ELSE [SltTune(s) EXCEPT !.rf_ch_num = @ + 1]

SLT_callback(s, t) ==
  LET vista == s.sub_protocol = "VISTA"
      sent  == [SLT_send_data(IF vista THEN VistaTune(s) ELSE s) EXCEPT !.packet_count = @ + 1]
      last  == sent.packet_count >= (IF vista THEN 5 ELSE 3)
      batch == [sent EXCEPT !.bind_phase = @ + 1]
  IN
  \/ /\ s.phase = "SLT_BIND"
     /\ t = After(Phase([SLT_send_bind_packet(s) EXCEPT !.bind_phase = 0],
                        IF vista THEN "SLT_DATA" ELSE "SLT_BUILD"), IF vista THEN 1000 ELSE 18000)
  \/ /\ s.phase = "SLT_BUILD"
     /\ t = After(Phase([SLT_build_packet(IF vista THEN s ELSE SltNextChannel(SltTune(s)))
                           EXCEPT !.packet_count = 0], "SLT_DATA"), 1000)
  \/ /\ s.phase = "SLT_DATA" /\ last /\ vista
     /\ t = After(Phase(batch, "SLT_BUILD"), 1000)
  \/ /\ s.phase = "SLT_DATA" /\ last /\ ~vista /\ batch.bind_phase >= Batches(s)
     /\ t = After(Phase(batch, "SLT_BIND"), 1000)
  \/ /\ s.phase = "SLT_DATA" /\ last /\ ~vista /\ batch.bind_phase < Batches(s)
     /\ t = After(Phase(batch, "SLT_BUILD"), 19000)
  \/ /\ s.phase = "SLT_DATA" /\ ~last /\ vista /\ s.bind_phase >= Batches(s)
     /\ t = After(Phase(sent, "SLT_BIND"), 1000)
  \/ /\ s.phase = "SLT_DATA" /\ ~last /\ ~(vista /\ s.bind_phase >= Batches(s))
     /\ t = After(sent, IF vista THEN 2000 ELSE 1000)

----------------------------------------------------------------------------
(* HiSky: a cycle of nine callbacks, five for HK310, in each a packet on   *)
(* the next of 20 channels, and a bind packet as long as binding lasts.    *)
(* HK310 sends the packet of the cycle before again once bound, and one    *)
(* packet in 20 tells the receiver what to do when the link is lost.       *)
calc_fh_channels(s) == [s EXCEPT !.hopping_frequency = <<"HISKY", 20>>]
initialize_tx_id(s) == calc_fh_channels(s)
hisky_init(s) == Address(Tune(NRF24L01_Initialize(s), Only("HISKY_bind")), "own")
initHiSky(s) ==
  [hisky_init(initialize_tx_id(s)) EXCEPT !.step = 0, !.hopping_frequency_no = 0,
     !.binding_idx = 0, !.bind_counter = IF s.autobind THEN Shortened(1000, 20) ELSE 0,
     !.delay = 1000]

build_ch_data(s) == Build(s, "data")
convert_channel_HK310(s) ==
  Build(s, IF s.hopping_frequency_no # 0 THEN "data" ELSE "failsafe")
HiskyBindEarly(s) ==                          \* Mutant: done one packet early.
  LET n == s.bind_counter - 1 IN
  [Build(Send(s, "bind"), s.packet) EXCEPT !.bind_counter = n,
     !.bind_done = @ \/ n <= 1, !.binding_idx = (@ + 1) % 4]
HiskyBind(s) ==    \* A packet of bind_buf_arry.
  LET n == s.bind_counter - 1 IN
  [Build(Send(s, "bind"), s.packet) EXCEPT !.bind_counter = n,
     !.bind_done = @ \/ n = 0, !.binding_idx = (@ + 1) % 4]
HiskyTuneShort(s) ==                          \* Mutant: the last place left out.
  [Tune(Address(s, "own"), Hop(s, s.hopping_frequency_no)) EXCEPT
     !.hopping_frequency_no = IF @ + 1 >= 19 THEN 0 ELSE @ + 1]
HiskyTuneLong(s) ==                           \* Mutant: one place too many.
  [Tune(Address(s, "own"), Hop(s, s.hopping_frequency_no)) EXCEPT
     !.hopping_frequency_no = IF @ + 1 > 20 THEN 0 ELSE @ + 1]
HiskyTune(s) ==
  [Tune(Address(s, "own"), Hop(s, s.hopping_frequency_no)) EXCEPT
     !.hopping_frequency_no = IF @ + 1 >= 20 THEN 0 ELSE @ + 1]

(* step is the variable phase, which is a number here.                     *)
hisky_cb(s, t) ==
  LET hk310 == s.sub_protocol = "HK310"
      next  == s.step + 1
      phase == IF ~hk310 THEN next
               ELSE CASE next = 1 -> 2 [] next = 4 -> 6 [] next = 7 -> 8 [] OTHER -> next
      u     == [s EXCEPT !.step = phase]
  IN
  \/ /\ phase \in {1, 4, 5}
     /\ t = After(u, 1000)
  \/ /\ phase = 8
     /\ t = After(IF hk310 THEN convert_channel_HK310(u) ELSE u, 1000)
  \/ /\ phase = 2
     /\ t = After(IF s.bind_counter # 0 THEN Tune(Address(u, "bind"), Only("HISKY_bind")) ELSE u,
                  1000)
  \/ /\ phase = 3 /\ s.bind_counter # 0
     /\ t = After(HiskyBind(u), 1000)
  \/ /\ phase = 3 /\ s.bind_counter = 0
     /\ t = After(IF hk310 THEN Resend(u) ELSE u, 1000)
  \/ /\ phase = 6
     /\ t = After(HiskyTune(u), 1000)
  \/ /\ phase = 7
     /\ t = After(build_ch_data(u), 1000)
  \/ /\ phase > 8
     /\ t = After([Resend(u) EXCEPT !.step = 0], 1000)

----------------------------------------------------------------------------
(* KN: a batch of packets on each of four channels.  The first batch after *)
(* binding, or after the start when not binding, goes out before a channel *)
(* is tuned or a packet built; but the byte that names the place, for      *)
(* WLTOYS, is written into every packet of a batch.                        *)
kn_calculate_freqency_hopping_channels(s) == [s EXCEPT !.hopping_frequency = <<"KN", 4>>]
kn_init(s) == NRF24L01_Initialize(kn_calculate_freqency_hopping_channels(s))
initKN(s) ==
  LET wltoys == s.sub_protocol = "WLTOYS" IN
  [kn_init(s) EXCEPT
     !.packet_period = IF wltoys THEN 2000 ELSE 1200,
     !.bind_counter = Shortened(IF wltoys THEN 500 ELSE 200, 3),
     !.packet_count = IF wltoys THEN 5 ELSE 8,
     !.phase = IF s.autobind THEN "KN_PRE_BIND" ELSE "KN_PRE_SEND", !.delay = 10000]

kn_bind_init(s) == Tune(Build(Address(s, "bind"), "bind"), Only("KN_bind"))
KnNames(s) ==
  Naming(s, IF s.sub_protocol = "WLTOYS" THEN Hop(s, s.hopping_frequency_no) ELSE Nowhere)
kn_update_packet_control_data(s) == KnNames(Build(s, "data"))
KnBinding(s) == [Resend(s) EXCEPT !.bind_counter = @ - 1, !.phase = "KN_BINDING"]
KnPreSend(s) ==
  Address([s EXCEPT !.packet_sent = 0, !.hopping_frequency_no = 0, !.phase = "KN_SENDING"], "own")
KnNextChannel(s) ==
  LET hop == IF s.hopping_frequency_no + 1 >= 4 THEN 0 ELSE s.hopping_frequency_no + 1 IN
  Tune(kn_update_packet_control_data([s EXCEPT !.packet_sent = 0, !.hopping_frequency_no = hop]),
       Hop(s, hop))
KnSending(s) ==
  LET ready == IF s.packet_sent >= s.packet_count THEN KnNextChannel(s) ELSE KnNames(s) IN
  After([Resend(ready) EXCEPT !.packet_sent = @ + 1], s.packet_period)

kn_callback(s, t) ==
  \/ /\ s.phase = "KN_PRE_BIND"
     /\ t = After(KnBinding(kn_bind_init(s)), 1000)
  \/ /\ s.phase = "KN_BINDING" /\ s.bind_counter > 0
     /\ t = After(KnBinding(s), 1000)
  \/ /\ s.phase = "KN_BINDING" /\ s.bind_counter = 0
     /\ t = KnSending(KnPreSend(BIND_DONE(s)))
  \/ /\ s.phase = "KN_PRE_SEND"
     /\ t = KnSending(KnPreSend(s))
  \/ /\ s.phase = "KN_SENDING"
     /\ t = KnSending(s)

----------------------------------------------------------------------------
(* CX10 and Q2X2: a countdown of bind packets; CX10_BLUE sends them until  *)
(* the model answers.  hopping_frequency_no is not set by initCX10, nor is *)
(* packet[14], whose bits for the video of Q282 and Q222 are the switch    *)
(* and one that turns whenever it is switched on.                          *)
CX10_initialize_txid(s) == [s EXCEPT !.hopping_frequency = <<"CX10", 4>>]
CX10_init(s) == Tune(Address(NRF24L01_Initialize(s), "only"), Only("CX10_bind"))
initCX10(s) ==
  LET blue == s.sub_protocol = "CX10_BLUE"
      period == IF blue THEN 6000 ELSE 1316
  IN
  [CX10_init(CX10_initialize_txid(s)) EXCEPT !.bind_done = FALSE, !.packet_period = period,
     !.phase = IF blue THEN "CX10_BIND2" ELSE "CX10_BIND1",
     !.bind_counter = IF blue THEN @ ELSE Shortened(4360, 2), !.delay = 500 + period]

KeepsVideo(s) == s.sub_protocol \in {"Q282", "Q222"}
Switched(s, in) ==
  [s EXCEPT !.video = CASE in # "video" -> <<0, @[2]>>
                        [] in = "video" /\ @[1] = 0 -> <<1, 1 - @[2]>>
                        [] OTHER -> @]
Cx10Send(s, kind, in) ==
  IF ~KeepsVideo(s) THEN XN297_Send(s, kind)
  ELSE LET u == Switched(s, in) IN Carrying(XN297_Send(u, kind), u.video)
CX10_Write_Packet(s, bind, in) ==
  IF bind = 1 THEN Cx10Send(Tune(s, Only("CX10_bind")), "bind", in)
  ELSE [Cx10Send(Tune(s, Hop(s, s.hopping_frequency_no)), "data", in) EXCEPT
          !.hopping_frequency_no = (@ + 1) % 4]

CX10_callback(s, t, in) ==
  \/ /\ s.phase = "CX10_BIND1" /\ s.bind_counter = 0
     /\ t = After(BIND_DONE(Phase(s, "CX10_DATA")), s.packet_period)
  \/ /\ s.phase = "CX10_BIND1" /\ s.bind_counter > 0
     /\ t = After([CX10_Write_Packet(s, 1, in) EXCEPT !.bind_counter = @ - 1], s.packet_period)
  \/ /\ s.phase = "CX10_BIND2" /\ in = "good"
     /\ t = After(BIND_DONE(Phase(Build(s, "heard"), "CX10_DATA")), s.packet_period)
  \/ /\ s.phase = "CX10_BIND2" /\ in = "bad"
     /\ t = After(Build(s, "heard"), s.packet_period)
  \/ /\ s.phase = "CX10_BIND2" /\ ~Heard(in)
     /\ t = After(CX10_Write_Packet(s, 1, in), s.packet_period)
  \/ /\ s.phase = "CX10_DATA"
     /\ t = After(CX10_Write_Packet(s, 0, in), s.packet_period)

----------------------------------------------------------------------------
(* FY326: a bind packet, then listening for a number of callbacks, until   *)
(* any answer comes.  FY319 waits for a packet of the model first and then *)
(* sends its bind packet 255 times.  hopping_frequency_no is not set by    *)
(* initFY326.                                                              *)
FY326_initialize_txid(s) == [s EXCEPT !.hopping_frequency = <<"FY326", 5>>]
FY326_init(s) == Tune(Address(NRF24L01_Initialize(s), "only"), Only("FY326_bind"))
initFY326(s) ==
  [FY326_init(FY326_initialize_txid(s)) EXCEPT !.bind_done = FALSE,
     !.bind_counter = Shortened(16, 2), !.delay = 500,
     !.phase = IF s.sub_protocol = "FY319" THEN "FY319_BIND1" ELSE "FY326_BIND1"]

FY326_send_packet(s, bind) ==
  IF bind = 1 THEN Send(Tune(s, Only("FY326_bind")), "bind")
  ELSE [Send(Tune(s, Hop(s, s.hopping_frequency_no)), "data") EXCEPT
          !.hopping_frequency_no = (@ + 1) % 5]

FY326_callback(s, t, in) ==
  \/ /\ s.phase = "FY319_BIND1" /\ Heard(in)
     /\ t = After(Phase([Build(s, "bind") EXCEPT !.bind_counter = Shortened(255, 5)],
                        "FY319_BIND2"), 300)
  \/ /\ s.phase = "FY319_BIND1" /\ ~Heard(in)
     /\ t = After(s, 300)
  \/ /\ s.phase = "FY319_BIND2" /\ s.bind_counter > 1
     /\ t = After([Resend(s) EXCEPT !.bind_counter = @ - 1], 1500)
  \/ /\ s.phase = "FY319_BIND2" /\ s.bind_counter = 1
     /\ t = After(BIND_DONE(Phase([Resend(s) EXCEPT !.bind_counter = 0], "FY326_DATA")), 1500)
  \/ /\ s.phase = "FY326_BIND1" /\ Heard(in)
     /\ t = After(BIND_DONE(Phase(Build(s, "heard"), "FY326_DATA")), 1500)
  \/ /\ s.phase = "FY326_BIND1" /\ ~Heard(in) /\ s.bind_counter = 0
     /\ t = After(Phase([FY326_send_packet(s, 1) EXCEPT !.bind_counter = Shortened(16, 2)],
                        "FY326_BIND2"), 300)
  \/ /\ s.phase = "FY326_BIND1" /\ ~Heard(in) /\ s.bind_counter > 0
     /\ t = After([s EXCEPT !.bind_counter = @ - 1], 1500)
  \/ /\ s.phase = "FY326_BIND2" /\ in # "late"
     /\ t = After(Phase(s, "FY326_BIND1"), 1500)
  \/ /\ s.phase = "FY326_BIND2" /\ in = "late"
     /\ t = After(s, 300)
  \/ /\ s.phase = "FY326_DATA"
     /\ t = After(FY326_send_packet(s, 0), 1500)

----------------------------------------------------------------------------
(* ASSAN: waits for the receiver's last bind frame, answers with 20        *)
(* packets, then sends two data packets on each of two channels in turn.   *)
(* packet also holds both identities, which no packet overwrites.          *)
ASSAN_initialize_txid(s) == [s EXCEPT !.hopping_frequency = <<"ASSAN", 2>>]
ASSAN_init(s) == Address(NRF24L01_Initialize(s), "bind")
initASSAN(s) ==
  [ASSAN_init(ASSAN_initialize_txid(s)) EXCEPT !.hopping_frequency_no = 0,
     !.phase = IF s.autobind THEN "ASSAN_BIND0" ELSE "ASSAN_DATA0", !.delay = 1000]

ASSAN_send_packet(s) == Send(s, "data")
AssanListen(s, t, in) ==
  \/ /\ in = "good"    \* The wait of 260ms included.
     /\ t = After(Phase([Build(s, "bind") EXCEPT !.packet_count = 0], "ASSAN_BIND2"), 270000)
  \/ /\ in # "good"
     /\ t = After(Phase(IF in = "bad" THEN Build(s, "heard") ELSE s, "ASSAN_BIND1"), 1000)
AssanTune(s) ==
  After([Tune(Address(s, "own"), Hop(s, s.hopping_frequency_no)) EXCEPT
           !.hopping_frequency_no = 1 - @, !.phase = "ASSAN_DATA2"], 2000)

ASSAN_callback(s, t, in) ==
  LET n == s.packet_count + 1 IN
  \/ /\ s.phase = "ASSAN_BIND0"
     /\ AssanListen(Tune(s, Only("ASSAN_bind")), t, in)
  \/ /\ s.phase = "ASSAN_BIND1"
     /\ AssanListen(s, t, in)
  \/ /\ s.phase = "ASSAN_BIND2" /\ n = 20    \* Marked as the last one.
     /\ t = After(Phase([Send(s, "last") EXCEPT !.packet_count = n], "ASSAN_DATA0"), 2187520)
  \/ /\ s.phase = "ASSAN_BIND2" /\ n < 20
     /\ t = After([Resend(s) EXCEPT !.packet_count = n], 22520)
  \/ /\ s.phase = "ASSAN_DATA0"
     /\ t = AssanTune(BIND_DONE(s))
  \/ /\ s.phase \in {"ASSAN_DATA1", "ASSAN_DATA4"}
     /\ t = AssanTune(s)
  \/ /\ s.phase \in {"ASSAN_DATA2", "ASSAN_DATA3"}
     /\ t = After(Phase(ASSAN_send_packet(s),
                        IF s.phase = "ASSAN_DATA2" THEN "ASSAN_DATA3" ELSE "ASSAN_DATA4"), 5000)

----------------------------------------------------------------------------
(* SHENQI: waits for the model, then sends one packet with the address and *)
(* six with data, on 60 channels.                                          *)
SHENQI_init(s) == Tune(Address(NRF24L01_Initialize(s), "bind"), Only("SHENQI_bind"))
initSHENQI(s) ==
  [SHENQI_init(s) EXCEPT !.bind_done = FALSE, !.hopping_frequency_no = 0, !.packet_count = 0,
     !.packet_period = 500, !.delay = 1000]

SHENQI_send_packet(s) ==
  LET first == s.packet_count = 0
      sent  == IF first THEN Send(Tune(Address(s, "model"), Only("SHENQI_bind")), "address")
               ELSE Send(Tune(Address(s, "own"), <<"SHENQI", s.hopping_frequency_no>>), "data")
  IN
  [sent EXCEPT
     !.hopping_frequency_no = IF first THEN @ ELSE IF @ + 1 = 60 THEN 0 ELSE @ + 1,
     !.packet_count = IF @ + 1 = 7 THEN 0 ELSE @ + 1,
     !.packet_period = IF s.packet_count + 1 = 7 THEN 3000 ELSE IF first THEN 2508 ELSE 1750]

SHENQI_callback(s, t, in) ==
  \/ /\ s.bind_done
     /\ LET u == SHENQI_send_packet(s) IN t = After(u, u.packet_period)
  \/ /\ ~s.bind_done /\ in = "good"
     /\ t = After([BIND_DONE(Build(s, "heard")) EXCEPT !.packet_period = 14000], 14000)
  \/ /\ ~s.bind_done /\ in # "good"
     /\ t = After(IF in = "bad" THEN Build(s, "heard") ELSE s, s.packet_period)
==============================================================================
