---------------------------- MODULE CyrfProtocols -----------------------------
(***************************************************************************)
(* The protocols of the CYRF6936: DSM, Devo, WK2x01 and J6Pro.             *)
(*                                                                         *)
(* in is what the callback learns from outside: "good", an answer it takes *)
(* to its bind packet; "bad", a packet it does not take; "late", the chip  *)
(* has not sent yet; "option", the user has moved the option, or in PPM    *)
(* mode pressed the bind button; "few" and "many", for DSM, that the       *)
(* option now asks for at most, or for more than, 7 channels; or "none".   *)
(***************************************************************************)
EXTENDS Globals


CYRF_WriteDataPacket(s) == Resend(s)
CYRF_ConfigRFChannel(s, ch) == Tune(s, ch)
CYRF_ConfigSOPCode(s, a) == Address(s, a)

----------------------------------------------------------------------------
(* DSM: bind packets, a wait for the answer, and then pairs of packets,    *)
(* the first and the second of a pair on successive channels under         *)
(* different checksums.  Pairs hold the channels 1 to 7 (A) or the others  *)
(* (B); with few channels a model of 22 ms gets no B.                      *)
DSM_BIND_COUNT == Shortened(300, 2)
Dsmx(s) == s.sub_protocol \in {"DSMX_11", "DSMX_22"}
NumCh(s, n) == [s EXCEPT !.num_ch = IF s.sub_protocol = "DSM_AUTO" THEN 12 ELSE n]
DSM_update_channels(s, in) ==
  IF in = "few" THEN NumCh(s, 6) ELSE IF in = "many" THEN NumCh(s, 12) ELSE s

DSM_cyrf_config(s) == CYRF_ConfigRFChannel(s, Only("DSM_config"))
DSM_calc_dsmx_channel(s) == [s EXCEPT !.hopping_frequency = <<"DSM", 23>>]
DSM_build_bind_packet(s) == Build(s, "bind")
DSM_initialize_bind_phase(s) ==
  DSM_build_bind_packet(CYRF_ConfigSOPCode(CYRF_ConfigRFChannel(s, Only("DSM_bind")), "bind"))
initDsm(s) ==
  LET hops  == IF Dsmx(s) THEN DSM_calc_dsmx_channel(s)
               ELSE [s EXCEPT !.hopping_frequency = <<"DSM", 2>>]
      ready == NumCh(DSM_cyrf_config(hops), s.option)
  IN
  After(IF s.autobind
        THEN [DSM_initialize_bind_phase(ready) EXCEPT
                !.phase = "DSM_BIND_WRITE", !.bind_counter = DSM_BIND_COUNT]
        ELSE Phase(ready, "DSM_CHANSEL"), 10000)

DSM_set_sop_data_crc_A(s) ==                  \* Mutant: the second half forgotten.
  [CYRF_ConfigSOPCode(CYRF_ConfigRFChannel(s, Hop(s, s.hopping_frequency_no)), "own") EXCEPT
     !.code = IF s.phase = "CH1_CHECK_A" THEN "second" ELSE "first",
     !.hopping_frequency_no = (@ + 1) % (IF Dsmx(s) THEN 23 ELSE 2)]
(* The checksum is chosen by the phase, the codes by the channel.          *)
DSM_set_sop_data_crc(s) ==
  [CYRF_ConfigSOPCode(CYRF_ConfigRFChannel(s, Hop(s, s.hopping_frequency_no)), "own") EXCEPT
     !.code = IF s.phase \in {"CH1_CHECK_A", "CH1_CHECK_B"} THEN "second" ELSE "first",
     !.hopping_frequency_no = (@ + 1) % (IF Dsmx(s) THEN 23 ELSE 2)]
DSM_build_data_packet(s, in) ==
  Build(DSM_update_channels(s, in),
        IF s.phase \in {"CH1_WRITE_B", "CH2_WRITE_B"} THEN "upper" ELSE "lower")

DsmCheck == [CH1_WRITE_A |-> "CH1_CHECK_A", CH2_WRITE_A |-> "CH2_CHECK_A",
             CH1_WRITE_B |-> "CH1_CHECK_B", CH2_WRITE_B |-> "CH2_CHECK_B"]
DsmSecond == [CH1_CHECK_A |-> "CH2_WRITE_A", CH1_CHECK_B |-> "CH2_WRITE_B"]
DsmRead   == [CH2_CHECK_A |-> "CH2_READ_A", CH2_CHECK_B |-> "CH2_READ_B"]
DsmNext   == [CH2_READ_A |-> "CH1_WRITE_B", CH2_READ_B |-> "CH1_WRITE_A"]
Only22(s) == s.sub_protocol \in {"DSM2_22", "DSMX_22"} /\ s.num_ch < 8

ReadDsm(s, t, in) ==
  \/ /\ s.phase = "DSM_BIND_WRITE"     \* bind_counter-- == 0: one packet more
     /\ t = After([CYRF_WriteDataPacket(s) EXCEPT
                     !.phase = IF s.bind_counter = 0 THEN "DSM_BIND_CHECK" ELSE @,
                     !.bind_counter = IF @ = 0 THEN 65535 ELSE @ - 1], 10000)
  \/ /\ s.phase = "DSM_BIND_CHECK"
     /\ t = After([s EXCEPT !.bind_counter = 2 * DSM_BIND_COUNT, !.phase = "DSM_BIND_READ"], 2000)
  \/ /\ s.phase = "DSM_BIND_READ" /\ in = "good"
     /\ t = After(Phase(s, "DSM_CHANSEL"), 2000)
  \/ /\ s.phase = "DSM_BIND_READ" /\ in # "good"
     /\ t = After([s EXCEPT !.bind_counter = @ - 1,
                     !.phase = IF s.bind_counter = 1 THEN "DSM_CHANSEL" ELSE @], 7000)
  \/ /\ s.phase = "DSM_CHANSEL"
     /\ t = After(DSM_set_sop_data_crc([BIND_DONE(s) EXCEPT
                     !.hopping_frequency_no = 0, !.phase = "CH1_WRITE_A"]), 10000)
  \/ /\ s.phase \in DOMAIN DsmCheck
     /\ t = After(Phase(CYRF_WriteDataPacket(DSM_build_data_packet(s, in)), DsmCheck[s.phase]),
                1950)
  \/ /\ s.phase \in DOMAIN DsmSecond
     /\ t = After(Phase(DSM_set_sop_data_crc(s), DsmSecond[s.phase]), 4010 - 1950)
  \/ /\ s.phase \in DOMAIN DsmRead
     /\ t = After(Phase(s, DsmRead[s.phase]), 11000 - 4010 - 1950 - 600)
  \/ /\ s.phase = "CH2_READ_A" /\ Only22(s)
     /\ t = After(Phase(s, "CH2_READ_B"), 11000)
  \/ /\ s.phase \in DOMAIN DsmNext /\ ~(s.phase = "CH2_READ_A" /\ Only22(s))
     /\ t = After(DSM_set_sop_data_crc(Phase(s, DsmNext[s.phase])), 600)

----------------------------------------------------------------------------
(* Devo: four packets on each of three channels.  A bind packet and a data *)
(* packet in turn until the countdown ends, then under the transmitter's   *)
(* own code.  With option 1 the transmitter has a fixed number and never   *)
(* asks to bind; txState and the half of the channels to be sent next are  *)
(* not set by DevoInit.                                                    *)
DEVO_BIND_COUNT == Shortened(5000, 12)
DEVO_set_radio_channels(s) ==     \* Two places more repeat the first two.
  [s EXCEPT !.hopping_frequency = <<"DEVO", 3>>]
DEVO_cyrf_set_bound_sop_code(s) == CYRF_ConfigSOPCode(s, "own")
DevoPlace(s) == Hop(s, s.hopping_frequency_ptr)
DevoInit(s) ==
  LET first == [DEVO_set_radio_channels(CYRF_ConfigSOPCode(s, "bind")) EXCEPT
                  !.hopping_frequency_ptr = 0, !.packet_count = 0, !.prev_option = s.option]
      tuned == CYRF_ConfigRFChannel(first, DevoPlace(first))
  IN
  After(IF s.option = 0
        THEN [tuned EXCEPT !.bind_counter = DEVO_BIND_COUNT, !.phase = "DEVO_BIND",
                           !.bind_done = FALSE]
        ELSE DEVO_cyrf_set_bound_sop_code([tuned EXCEPT
                !.bind_counter = 0, !.phase = "DEVO_BOUND_1"]), 2400)

(* A moved option starts the countdown again, with each packet.            *)
DEVO_add_pkt_suffix(s, in) ==
  LET option == IF in = "option" THEN 1 - s.option ELSE s.option IN
  [Naming(s, DevoPlace(s)) EXCEPT !.option = option,
     !.bind_counter = IF s.prev_option # option /\ s.bind_done THEN DEVO_BIND_COUNT ELSE @]
DEVO_build_beacon_pkt(s, in) == DEVO_add_pkt_suffix(Build(s, "beacon"), in)
DEVO_build_bind_pkt(s, in) == DEVO_add_pkt_suffix(Build(s, "bind"), in)
DEVO_build_data_pkt(s, in) ==
  DEVO_add_pkt_suffix([Build(s, IF s.ch_idx = 0 THEN "lower" ELSE "upper") EXCEPT
                         !.ch_idx = 1 - @], in)

NextDevo ==
  [DEVO_BOUND   |-> "DEVO_BOUND_1", DEVO_BOUND_1 |-> "DEVO_BOUND_2", DEVO_BOUND_2 |-> "DEVO_BOUND_3",
   DEVO_BOUND_3 |-> "DEVO_BOUND_4", DEVO_BOUND_4 |-> "DEVO_BOUND_5", DEVO_BOUND_5 |-> "DEVO_BOUND_6",
   DEVO_BOUND_6 |-> "DEVO_BOUND_7", DEVO_BOUND_7 |-> "DEVO_BOUND_8", DEVO_BOUND_8 |-> "DEVO_BOUND_9",
   DEVO_BOUND_9 |-> "DEVO_BOUND_10"]
DownBelowZero(n) == n - 1                     \* Mutant.
Down(n) == IF n > 0 THEN n - 1 ELSE 0
DEVO_BuildPacket(s, in) ==
  LET counted == [s EXCEPT !.bind_counter = Down(@)]
      data    == DEVO_build_data_pkt(counted, in)
      bound   == DEVO_build_data_pkt(s, in)
      packet  ==
        CASE s.phase = "DEVO_BIND" -> Phase(DEVO_build_bind_pkt(counted, in), "DEVO_BIND_SENDCH")
          [] s.phase = "DEVO_BIND_SENDCH" /\ data.bind_counter = 0 ->
               BIND_DONE(Phase(data, "DEVO_BOUND"))
          [] s.phase = "DEVO_BIND_SENDCH" /\ data.bind_counter # 0 -> Phase(data, "DEVO_BIND")
          [] s.phase \in DOMAIN NextDevo ->
               [Phase(bound, NextDevo[s.phase]) EXCEPT !.bind_counter = Down(@),
                  !.bind_done = @ \/ bound.bind_counter = 1]
          [] s.phase = "DEVO_BOUND_10" -> Phase(DEVO_build_beacon_pkt(s, in), "DEVO_BOUND_1")
  IN  [packet EXCEPT !.packet_count = (@ + 1) % 4]

DevoHop(s) ==
  LET next == [s EXCEPT !.hopping_frequency_ptr = (@ + 1) % 3] IN
  IF s.packet_count = 0 THEN CYRF_ConfigRFChannel(next, DevoPlace(next)) ELSE s
devo_callback(s, t, in) ==
  \/ /\ s.txState = 0
     /\ t = After([CYRF_WriteDataPacket(DEVO_BuildPacket(s, in)) EXCEPT !.txState = 1], 1200)
  \/ /\ s.txState # 0 /\ in = "late"
     /\ t = After([s EXCEPT !.txState = 0], 1200)
  \/ /\ s.txState # 0 /\ in # "late"
     /\ LET done == [s EXCEPT !.txState = 0] IN
        t = After(DevoHop(IF s.phase = "DEVO_BOUND"
                          THEN DEVO_cyrf_set_bound_sop_code(Phase(done, "DEVO_BOUND_3"))
                          ELSE done), 1200)

----------------------------------------------------------------------------
(* WK2x01: the same channels in the same way, with one code for all.  A    *)
(* 2801 sends a beacon in every eighth packet, and only there looks at its *)
(* option.                                                                 *)
WK_BIND_COUNT == Shortened(2980, 12)
wk2x01_cyrf_init(s) == CYRF_ConfigSOPCode(s, "only")
WK_setup(s) ==
  LET binds == s.sub_protocol # "WK2801" \/ s.option = 0
      first == [wk2x01_cyrf_init(s) EXCEPT !.hopping_frequency = <<"WK2X01", 3>>,
                  !.hopping_frequency_no = 0, !.packet_count = 0, !.packet_sent = 0,
                  !.prev_option = s.option, !.bind_done = ~binds,
                  !.bind_counter = IF binds THEN WK_BIND_COUNT ELSE 0,
                  !.phase = IF binds THEN "WK_BIND" ELSE "WK_BOUND_1"]
  IN  After(CYRF_ConfigRFChannel(first, Hop(first, 0)), 2800)

WK_build_bind_pkt(s) == Build(s, "bind")
WK_build_data_pkt(s) == Build(s, "data")
WK_build_beacon_pkt_2801(s, in) ==
  LET option == IF in = "option" THEN 1 - s.option ELSE s.option IN
  [Build(s, "beacon") EXCEPT !.option = option,
     !.bind_counter = IF s.prev_option # option /\ s.bind_done
                      THEN (WK_BIND_COUNT \div 8) + 1 ELSE @]
CountDown(s) ==
  [s EXCEPT !.bind_counter = Down(@), !.bind_done = @ \/ s.bind_counter = 1]

NextWK ==
  [WK_BOUND_1 |-> "WK_BOUND_2", WK_BOUND_2 |-> "WK_BOUND_3", WK_BOUND_3 |-> "WK_BOUND_4",
   WK_BOUND_4 |-> "WK_BOUND_5", WK_BOUND_5 |-> "WK_BOUND_6", WK_BOUND_6 |-> "WK_BOUND_7",
   WK_BOUND_7 |-> "WK_BOUND_8"]
WK_BuildPacket_2801(s, in) ==
  CASE s.phase = "WK_BIND" ->
         LET bind == CountDown(WK_build_bind_pkt(s)) IN
         Phase(bind, IF bind.bind_counter = 0 THEN "WK_BOUND_1" ELSE "WK_BIND")
    [] s.phase \in DOMAIN NextWK -> Phase(WK_build_data_pkt(s), NextWK[s.phase])
    [] s.phase = "WK_BOUND_8" -> Phase(CountDown(WK_build_beacon_pkt_2801(s, in)), "WK_BOUND_1")
(* 2401 and 2601 have no phases and no beacons.                            *)
WK_BuildPacket_2401(s) ==
  IF s.bind_counter > 0 THEN CountDown(WK_build_bind_pkt(s)) ELSE WK_build_data_pkt(s)
WK_BuildPacket_2601(s) == WK_BuildPacket_2401(s)
WK_BuildPacket(s, in) ==
  CASE s.sub_protocol = "WK2801" -> WK_BuildPacket_2801(s, in)
    [] s.sub_protocol = "WK2401" -> WK_BuildPacket_2401(s)
    [] OTHER -> WK_BuildPacket_2601(s)

WK_cb(s, t, in) ==
  \/ /\ s.packet_sent = 0
     /\ t = After([CYRF_WriteDataPacket(WK_BuildPacket(s, in)) EXCEPT
                     !.packet_sent = 1, !.packet_count = (@ + 1) % 12], 1600)
  \/ /\ s.packet_sent # 0 /\ s.packet_count % 4 # 0
     /\ t = After([s EXCEPT !.packet_sent = 0], 1200)
  \/ /\ s.packet_sent # 0 /\ s.packet_count % 4 = 0
     /\ LET next == [s EXCEPT !.packet_sent = 0, !.hopping_frequency_no = (@ + 1) % 3] IN
        t = After(CYRF_ConfigRFChannel(next, Hop(next, next.hopping_frequency_no)), 1200)

----------------------------------------------------------------------------
(* J6Pro: a bind packet until it is answered, the answer acknowledged six  *)
(* times, then one packet sent on each of four channels, the last of which *)
(* is the first.                                                           *)
j6pro_build_bind_packet(s) == Build(s, "bind")
j6pro_build_data_packet(s) == Build(s, "data")
j6pro_cyrf_init(s) == s
cyrf_bindinit(s) == j6pro_build_bind_packet(CYRF_ConfigSOPCode(s, "bind"))
cyrf_datainit(s) == CYRF_ConfigSOPCode(s, "own")
j6pro_set_radio_channels(s) == [s EXCEPT !.hopping_frequency = <<"J6PRO", 4>>]
initJ6Pro(s) ==
  After(Phase(j6pro_cyrf_init(s), IF s.autobind THEN "J6PRO_BIND" ELSE "J6PRO_CHANSEL"), 2400)

J6Asking == {"J6PRO_BIND_01", "J6PRO_BIND_03_START", "J6PRO_BIND_03_CHECK"}
J6Asks(s) ==
  Phase(CYRF_WriteDataPacket(CYRF_ConfigRFChannel(s, Only("J6PRO_bind_52"))), "J6PRO_BIND_03_START")
NextAck == [BIND_05_1 |-> "BIND_05_2", BIND_05_2 |-> "BIND_05_3", BIND_05_3 |-> "BIND_05_4",
            BIND_05_4 |-> "BIND_05_5", BIND_05_5 |-> "BIND_05_6", BIND_05_6 |-> "J6PRO_CHANSEL"]
J6Chan  == [CHAN_1 |-> 0, CHAN_2 |-> 1, CHAN_3 |-> 2, CHAN_4 |-> 3]
NextChan == [CHAN_1 |-> "CHAN_2", CHAN_2 |-> "CHAN_3", CHAN_3 |-> "CHAN_4", CHAN_4 |-> "CHAN_1"]
J6Sends(s) ==
  LET built == IF s.phase = "CHAN_1" THEN j6pro_build_data_packet(s) ELSE s
      sent  == CYRF_WriteDataPacket(CYRF_ConfigRFChannel(built, Hop(s, J6Chan[s.phase])))
  IN  After(Phase(sent, NextChan[s.phase]), IF s.phase = "CHAN_4" THEN 13900 ELSE 3550)

ReadJ6Pro(s, t, in) ==
  \/ /\ s.phase = "J6PRO_BIND"
     /\ t = After(J6Asks(cyrf_bindinit(s)), 3000)
  \/ /\ s.phase = "J6PRO_BIND_01"      \* packet is sent as it is
     /\ t = After(J6Asks(s), 3000)
  \/ /\ s.phase = "J6PRO_BIND_03_START"
     /\ t = After(Phase(CYRF_ConfigRFChannel(s, Only("J6PRO_bind_53")), "J6PRO_BIND_03_CHECK"),
                30000)
  \/ /\ s.phase = "J6PRO_BIND_03_CHECK" /\ in = "good"
     /\ t = After(Phase(CYRF_ConfigRFChannel(Build(s, "ack"), Only("J6PRO_bind_54")), "BIND_05_1"), 2000)
  \/ /\ s.phase = "J6PRO_BIND_03_CHECK" /\ in # "good"
     /\ t = After(Phase(IF in = "bad" THEN Build(s, "heard") ELSE s, "J6PRO_BIND_01"), 500)
  \/ /\ s.phase \in DOMAIN NextAck
     /\ t = After(Phase(CYRF_WriteDataPacket(s), NextAck[s.phase]), 4600)
  \/ /\ s.phase = "J6PRO_CHANSEL"
     /\ t = J6Sends(Phase(cyrf_datainit(j6pro_set_radio_channels(BIND_DONE(s))), "CHAN_1"))
  \/ /\ s.phase \in DOMAIN J6Chan
     /\ t = J6Sends(s)
==============================================================================
