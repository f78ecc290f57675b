---------------------------- MODULE NrfCountdown ------------------------------
(***************************************************************************)
(* The NRF24L01 protocols that bind by sending a number of bind packets    *)
(* and then go over to data packets: each one's init, sending of a packet  *)
(* and callback.  A callback relates the state s before it to the state t  *)
(* after it.                                                               *)
(***************************************************************************)
EXTENDS Globals

(* A binding callback of the common form: the packet, then the countdown.  *)
Countdown(s) == [s EXCEPT !.bind_counter = @ - 1]

----------------------------------------------------------------------------
(* YD717: one channel.                                                     *)
yd717_init(s) == Tune(Address(NRF24L01_Initialize(s), "bind"), Only("YD717"))
initYD717(s) ==
  [yd717_init(s) EXCEPT !.bind_done = FALSE, !.bind_counter = Shortened(120, 2), !.delay = 50000]

yd717_send_packet(s, bind) == Send(s, Kind(bind))

yd717_callback(s, t) ==
  \/ /\ s.bind_done
     /\ t = After(yd717_send_packet(s, 0), 8000)
  \/ /\ ~s.bind_done /\ s.bind_counter = 0
     /\ t = After(BIND_DONE(yd717_send_packet(Address(s, "own"), 0)), 8000)
  \/ /\ ~s.bind_done /\ s.bind_counter > 0
     /\ t = After(Countdown(yd717_send_packet(s, 1)), 8000)

----------------------------------------------------------------------------
(* FQ777: four channels, for bind and data, numbered in the header of each *)
(* packet.  packet_count, which turns the trims, is left at 0.             *)
FQ777_init(s) == Address(NRF24L01_Initialize(s), "bind")
initFQ777(s) ==
  [FQ777_init(s) EXCEPT !.bind_done = FALSE, !.bind_counter = Shortened(1000, 4),
     !.packet_count = 0, !.hopping_frequency = <<"FQ777", 4>>, !.hopping_frequency_no = 0,
     !.delay = 500]

FQ777_send_packet(s, bind) ==
  LET here == Hop(s, s.hopping_frequency_no) IN
  [Resend(Naming(Build(Tune(s, here), Kind(bind)), here)) EXCEPT
     !.hopping_frequency_no = (@ + 1) % 4]

FQ777_callback(s, t) ==
  \/ /\ s.bind_counter > 1
     /\ t = After(Countdown(FQ777_send_packet(s, 1)), 2000)
  \/ /\ s.bind_counter = 1
     /\ t = After(BIND_DONE(Address(Countdown(FQ777_send_packet(s, 1)), "own")), 2000)
  \/ /\ s.bind_counter = 0
     /\ t = After(FQ777_send_packet(s, 0), 2000)

----------------------------------------------------------------------------
(* Hontai: the table belongs to the data phase.                            *)
HONTAI_init(s) == Address(NRF24L01_Initialize(s), "bind")
initHONTAI(s) ==
  [HONTAI_init(s) EXCEPT !.bind_done = FALSE, !.bind_counter = Shortened(80, 3), !.delay = 500]

HONTAI_init2(s) ==
  [Address(s, "own") EXCEPT !.hopping_frequency = <<"HONTAI", 3>>, !.hopping_frequency_no = 0]

HontaiWrite(s, kind) == IF s.sub_protocol = "JJRCX1" THEN Send(s, kind) ELSE XN297_Send(s, kind)
HONTAI_send_packet(s, bind) ==
  IF bind = 1
  THEN [HontaiWrite(Tune(s, Only("HONTAI_bind")), "bind") EXCEPT !.hopping_frequency_no = @ % 3]
  ELSE [HontaiWrite(Tune(s, Hop(s, s.hopping_frequency_no)), "data") EXCEPT
          !.hopping_frequency_no = (@ + 1) % 3]

HONTAI_callback(s, t) ==
  LET period == IF s.sub_protocol = "FQ777_951" THEN 10000 ELSE 13500 IN
  \/ /\ s.bind_counter > 1
     /\ t = After(Countdown(HONTAI_send_packet(s, 1)), period)
  \/ /\ s.bind_counter = 1
     /\ t = After(BIND_DONE(HONTAI_init2(Countdown(HONTAI_send_packet(s, 1)))), period)
  \/ /\ s.bind_counter = 0
     /\ t = After(HONTAI_send_packet(s, 0), period)

----------------------------------------------------------------------------
(* CG023, YD829: one channel for bind, one of the transmitter's own for    *)
(* data, which is kept in hopping_frequency_no.  H8_3D: four channels, the *)
(* first for bind; a packet holds the number of its channel.               *)
DataChannel == 40    \* rx_tx_addr[0] - 0x7D, between 0x03 and 0x42.

CG023_initialize_txid(s) ==
  IF s.sub_protocol = "H8_3D"
  THEN [s EXCEPT !.hopping_frequency = <<"H8_3D", 4>>]
  ELSE [s EXCEPT !.hopping_frequency_no = DataChannel]
CG023_init(s) == Address(NRF24L01_Initialize(s), "only")
initCG023(s) ==
  [CG023_init(CG023_initialize_txid(s)) EXCEPT !.bind_done = FALSE,
     !.bind_counter = Shortened(500, 2),
     !.packet_period = CASE s.sub_protocol = "CG023" -> 8200
                         [] s.sub_protocol = "YD829" -> 4100
                         [] OTHER -> 1800,
     !.delay = 4600]

CG023_send_packet(s, bind) ==
  LET place == Hop(s, IF bind = 1 THEN 0 ELSE s.hopping_frequency_no) IN
  IF s.sub_protocol # "H8_3D"
  THEN XN297_Send(Tune(s, Only(IF bind = 1 THEN "CG023_bind" ELSE "CG023_data")), Kind(bind))
  ELSE [XN297_Resend(Tune(Naming(Build(s, Kind(bind)), place), place)) EXCEPT
          !.hopping_frequency_no = IF bind = 1 THEN @ ELSE (@ + 1) % 4]

CG023_callback(s, t) ==
  \/ /\ s.bind_done
     /\ t = After(CG023_send_packet(s, 0), s.packet_period)
  \/ /\ ~s.bind_done /\ s.bind_counter = 0
     /\ t = After(BIND_DONE(s), s.packet_period)
  \/ /\ ~s.bind_done /\ s.bind_counter > 0
     /\ t = After(Countdown(CG023_send_packet(s, 1)), s.packet_period)

----------------------------------------------------------------------------
(* Bayang: a data packet every second callback, or every fifth when it     *)
(* listens for telemetry in between.  The packet counter is not started    *)
(* again when binding ends; state, which counts callbacks up to the next   *)
(* report of the reception rate, is not set by initBAYANG.                 *)
BAYANG_initialize_txid(s) ==
  [s EXCEPT !.hopping_frequency = <<"BAYANG", 4>>, !.hopping_frequency_no = 0]
BAYANG_init(s) == Address(NRF24L01_Initialize(s), "bind")
initBAYANG(s) ==
  [BAYANG_init(BAYANG_initialize_txid(s)) EXCEPT !.bind_done = FALSE,
     !.bind_counter = Shortened(1000, 4), !.packet_count = 0, !.delay = 1500]

BAYANG_send_packet(s, bind) ==
  IF bind = 1
  THEN [XN297_Send(Tune(s, Only("BAYANG_bind")), "bind") EXCEPT !.hopping_frequency_no = @ % 4]
  ELSE [XN297_Send(Tune(s, Hop(s, s.hopping_frequency_no)), "data") EXCEPT
          !.hopping_frequency_no = (@ + 1) % 4]

(* check_rx reads what the model answers into the packet.                  *)
check_rx(s, in) == IF in = "good" THEN Build(s, "telemetry") ELSE s

BAYANG_callback(s, t, in) ==
  LET sent(bind) == IF s.packet_count = 0 THEN BAYANG_send_packet(s, bind) ELSE s
      listening  == s.option # 0 /\ s.packet_count + 1 > 1
  IN
  \/ /\ s.bind_done
     /\ t = After([IF listening THEN check_rx(sent(0), in) ELSE sent(0) EXCEPT
                     !.packet_count = (@ + 1) % (IF s.option # 0 THEN 5 ELSE 2)], 1000)
  \/ /\ ~s.bind_done /\ s.bind_counter = 0
     /\ t = After(BIND_DONE(Address(s, "own")), 1000)
  \/ /\ ~s.bind_done /\ s.bind_counter > 0
     /\ t = After(Countdown([sent(1) EXCEPT !.packet_count = (@ + 1) % 4]), 1000)

----------------------------------------------------------------------------
(* ESky: binds only when asked to.  hopping_frequency holds three times    *)
(* each of two channels, their end bytes, and the channel code.            *)
ESKY_set_data_address(s) == Address(s, "own")
ESKY_init(s) ==
  Tune(IF s.autobind THEN Address(NRF24L01_Initialize(s), "bind")
       ELSE ESKY_set_data_address(NRF24L01_Initialize(s)), Only("ESKY_bind"))
ESKY_init2(s) ==
  [s EXCEPT !.packet_sent = 0, !.hopping_frequency_no = 0, !.hopping_frequency = <<"ESKY", 6>>]
initESKY(s) ==
  [ESKY_init2(ESKY_init(s)) EXCEPT !.bind_counter = Shortened(1000, 2), !.delay = 50000]

ESKY_send_packet(s, bind) ==
  LET tuned == Tune(s, IF bind = 1 THEN Only("ESKY_bind") ELSE Hop(s, s.hopping_frequency_no)) IN
  [Send(tuned, Kind(bind)) EXCEPT
     !.packet_sent = 1,
     !.hopping_frequency_no = IF bind = 1 THEN @ ELSE IF @ + 1 > 6 THEN 0 ELSE @ + 1]

(* in = "late": the chip has not sent the packet before yet.               *)
ESKY_callback(s, t, in) ==
  \/ /\ s.packet_sent = 1 /\ in = "late"
     /\ t = After(s, 100)
  \/ /\ ~(s.packet_sent = 1 /\ in = "late")
     /\ \/ /\ s.bind_done
           /\ t = After(ESKY_send_packet(s, 0), 3333)
        \/ /\ ~s.bind_done /\ s.bind_counter > 1
           /\ t = After(Countdown(ESKY_send_packet(s, 1)), 3333)
        \/ /\ ~s.bind_done /\ s.bind_counter = 1
           /\ t = After(BIND_DONE(ESKY_set_data_address(
                         Countdown(ESKY_send_packet(s, 1)))), 3333)

----------------------------------------------------------------------------
(* MJXQ: each of four channels twice in a row, in another table once       *)
(* bound, except for WLH08; one address.  The pan and tilt of packet_count *)
(* are left out.  hopping_frequency_no is not set by initMJXQ.             *)
MJXQ_init(s) ==
  [Address(NRF24L01_Initialize(s), "only") EXCEPT
     !.hopping_frequency = <<IF s.sub_protocol = "WLH08" THEN "MJXQ" ELSE "MJXQ_bind", 4>>]
MJXQ_init2(s) == [s EXCEPT !.hopping_frequency = <<"MJXQ", 4>>]
initMJXQ(s) ==
  [MJXQ_init(s) EXCEPT !.bind_done = FALSE, !.bind_counter = Shortened(150, 8),
     !.packet_count = 0, !.delay = 4500]

MjxqWrite(s, kind) ==
  IF s.sub_protocol \in {"H26D", "H26WH"} THEN Send(s, kind) ELSE XN297_Send(s, kind)
MJXQ_send_packet(s, bind) ==
  [MjxqWrite(Tune(s, Hop(s, s.hopping_frequency_no \div 2)), Kind(bind)) EXCEPT
     !.hopping_frequency_no = (@ + 1) % 8]

MJXQ_callback(s, t) ==
  \/ /\ s.bind_done
     /\ t = After(MJXQ_send_packet(s, 0), 4000)
  \/ /\ ~s.bind_done /\ s.bind_counter = 0
     /\ t = After(BIND_DONE(MJXQ_init2(s)), 4000)
  \/ /\ ~s.bind_done /\ s.bind_counter > 0
     /\ t = After(MJXQ_send_packet(Countdown(s), 1), 4000)

----------------------------------------------------------------------------
(* MT99xx: 16 channels, of which YZ uses every other; LS and FY805 stay on *)
(* one.  The bind packet is built by initMT99XX; hopping_frequency_no is   *)
(* not set by it.  Data packets of MT99 and H7 hold a byte for their place *)
(* in the table.  YZ turns off the scrambling, and changes a byte of its   *)
(* packets every 24; LS counts its packets for one.  Where they are in     *)
(* that is static: no start sets it back.                                  *)
MT99XX_initialize_txid(s) == s    \* Identity only.
MT99XX_init(s) ==
  LET initialized == Address(NRF24L01_Initialize(s), "bind") IN
  IF s.sub_protocol = "YZ" THEN XN297_SetScrambledMode(initialized, FALSE) ELSE initialized
initMT99XX(s) ==
  [Build(MT99XX_init(MT99XX_initialize_txid(s)), "bind") EXCEPT !.bind_done = FALSE,
     !.bind_counter = Shortened(928, 16), !.hopping_frequency = <<"MT99XX", 16>>,
     !.packet_period = CASE s.sub_protocol = "YZ" -> 3125
                         [] s.sub_protocol = "FY805" -> 2460
                         [] OTHER -> 2625,
     !.packet_count = 0, !.delay = 3125]

Mt99xxTune(s) ==
  Tune(s, IF s.sub_protocol \in {"LS", "FY805"} THEN Only(s.sub_protocol)
          ELSE Hop(s, s.hopping_frequency_no))
Mt99xxNextChannel(s) ==
  LET next == s.hopping_frequency_no + (IF s.sub_protocol = "YZ" THEN 2 ELSE 1) IN
  [s EXCEPT !.hopping_frequency_no = IF next > 15 THEN 0 ELSE next]
YzTurn(s) ==
  IF s.packet_count < 23 THEN [s EXCEPT !.packet_count = @ + 1]
  ELSE [s EXCEPT !.packet_count = 0, !.yz_seq_num = IF @ + 1 > 2 THEN 0 ELSE @ + 1]
Mt99xxData(s) == Build(Mt99xxTune(s), "data")
MT99XX_send_packet(s) ==
  Mt99xxNextChannel(
    CASE s.sub_protocol = "YZ" ->
           LET u == YzTurn(s) IN Carrying(XN297_Resend(Mt99xxData(u)), <<u.yz_seq_num>>)
      [] s.sub_protocol = "LS" ->
           [Carrying(XN297_Resend(Mt99xxData(s)), <<s.ls_counter>>) EXCEPT
              !.ls_counter = IF @ + 1 >= 24 THEN 0 ELSE @ + 1]
      [] s.sub_protocol = "FY805" -> XN297_Resend(Mt99xxData(s))
      [] OTHER -> XN297_Resend(Naming(Mt99xxData(s), Hop(s, s.hopping_frequency_no))))

MT99XX_callback(s, t) ==
  \/ /\ s.bind_done
     /\ t = After(MT99XX_send_packet(s), s.packet_period)
  \/ /\ ~s.bind_done /\ s.bind_counter = 0
     /\ t = After(BIND_DONE(Address(s, "own")), s.packet_period)
  \/ /\ ~s.bind_done /\ s.bind_counter > 0
     /\ t = After(Countdown(Mt99xxNextChannel(XN297_Resend(Mt99xxTune(s)))), s.packet_period)

----------------------------------------------------------------------------
(* Symax: a strange packet first, as the stock transmitter sends it; then  *)
(* bind and data packets, each channel of a table of rf_ch_num twice.      *)
(* SYMAX5C has one address.                                                *)
symax_init(s) ==
  Tune(Address(NRF24L01_Initialize(s), IF s.sub_protocol = "SYMAX5C" THEN "only" ELSE "bind"),
       Only("SYMAX_init"))
initSymax(s) ==
  [symax_init(s) EXCEPT !.bind_done = FALSE, !.packet_count = 0, !.phase = "SYMAX_INIT1",
     !.delay = 500]

SymaxTable(s, owner, n) ==
  [s EXCEPT !.hopping_frequency = <<owner, n>>, !.rf_ch_num = n,
     !.hopping_frequency_no = 0, !.packet_count = 0]
StrangePacket(s) ==
  [s EXCEPT !.air = [kind |-> "first", ch |-> s.rf, adr |-> s.adr, code |-> "plain",
                     says |-> Nowhere, carries |-> <<>>]]
symax_init1(s) ==
  SymaxTable(StrangePacket(Tune(s, Only("SYMAX_init"))), "SYMAX_bind",
             IF s.sub_protocol = "SYMAX5C" THEN 16 ELSE 4)
symax_set_channels(s) == SymaxTable(s, "SYMAX", 4)
symax_init2(s) ==
  IF s.sub_protocol = "SYMAX5C" THEN SymaxTable(s, "SYMAX", 15)
  ELSE Address(symax_set_channels(s), "own")

(* packet_count is only used for its parity.                               *)
SYMAX_send_packet(s, bind) ==
  [Send(Tune(s, Hop(s, s.hopping_frequency_no)), Kind(bind)) EXCEPT
     !.packet_count = (@ + 1) % 2,
     !.hopping_frequency_no = IF s.packet_count = 1 THEN (@ + 1) % s.rf_ch_num ELSE @]

symax_callback(s, t) ==
  \/ /\ s.phase = "SYMAX_INIT1"
     /\ t = After([symax_init1(s) EXCEPT !.phase = "SYMAX_BIND2"], 12000)
  \/ /\ s.phase = "SYMAX_BIND2"
     /\ t = After([SYMAX_send_packet(s, 1) EXCEPT
                     !.counter = Shortened(345, 8), !.phase = "SYMAX_BIND3"], 4000)
  \/ /\ s.phase = "SYMAX_BIND3" /\ s.counter = 0
     /\ t = After(BIND_DONE([symax_init2(s) EXCEPT !.phase = "SYMAX_DATA"]), 4000)
  \/ /\ s.phase = "SYMAX_BIND3" /\ s.counter > 0
     /\ t = After([SYMAX_send_packet(s, 1) EXCEPT !.counter = @ - 1], 4000)
  \/ /\ s.phase = "SYMAX_DATA"
     /\ t = After(SYMAX_send_packet(s, 0), 4000)
==============================================================================
