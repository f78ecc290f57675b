--------------------------- MODULE CC2500Protocols ----------------------------
(***************************************************************************)
(* The protocols of the CC2500: FrSky D, V and X, and SFHSS.               *)
(*                                                                         *)
(* in is "good" or "none", whether the receiver's telemetry is there, and  *)
(* for SFHSS "option" when the user has moved the tuning value.            *)
(***************************************************************************)
EXTENDS Globals

CC2500_Send(s, ch) == Resend(Tune(s, ch))

(* The states of the FrSky protocols: 0 up to FRSKY_BIND_DONE count bind   *)
(* packets, of which ten hold the table; then come DATA1 to DATA5.         *)
FRSKY_BIND      == 0
FRSKY_BIND_DONE == Shortened(1000, 10)
FRSKY_DATA(i)   == FRSKY_BIND_DONE + i
Frsky_init_hop(s) == [s EXCEPT !.hopping_frequency = <<"FRSKY", 47>>]

----------------------------------------------------------------------------
(* FrSkyD: three data packets and one listening slot, each on the next     *)
(* channel.  counter, which says which, is not set without a bind.         *)
frsky2way_init(s, bind) == Tune(Address(s, IF bind = 1 THEN "bind" ELSE "own"), Only("FRSKY_bind"))
initFrSky_2way(s) ==
  [frsky2way_init(Frsky_init_hop(s), IF s.autobind THEN 1 ELSE 0) EXCEPT !.delay = 10000,
     !.state = IF s.autobind THEN FRSKY_BIND ELSE FRSKY_DATA(2)]

frsky2way_build_bind_packet(s) == Build(s, "bind")
frsky2way_data_frame(s) ==
  Naming(Build(s, "data"), <<s.hopping_frequency[1], s.counter % 47>>)

FrskyHop(s) ==
  LET n == (s.counter + 1) % 188 IN Tune([s EXCEPT !.counter = n], Hop(s, n % 47))
FrskySlot(s) ==
  IF s.state = FRSKY_DATA(4) THEN After([FrskyHop(s) EXCEPT !.state = @ + 1], 1300)
  ELSE After([Resend(frsky2way_data_frame(FrskyHop(s))) EXCEPT !.state = @ + 1],
             IF s.state + 1 = FRSKY_DATA(4) THEN 7500 ELSE 9000)

ReadFrSky_2way(s, t) ==
  \/ /\ s.state < FRSKY_BIND_DONE
     /\ t = After([CC2500_Send(frsky2way_build_bind_packet(s), Only("FRSKY_bind")) EXCEPT
                     !.state = @ + 1], 9000)
  \/ /\ s.state = FRSKY_BIND_DONE
     /\ t = FrskySlot([BIND_DONE(frsky2way_init(s, 0)) EXCEPT
                         !.state = FRSKY_DATA(2), !.counter = 0])
  \/ /\ s.state = FRSKY_DATA(5)
     /\ t = After([s EXCEPT !.state = FRSKY_DATA(1)], 9200)
  \/ /\ s.state > FRSKY_BIND_DONE /\ s.state # FRSKY_DATA(5)
     /\ t = FrskySlot(s)

----------------------------------------------------------------------------
(* FrSkyV: the channel is a pseudo-random number; it is not modelled which.*)
FRSKYV_init(s) == Address(s, "only")
FRSKYV_BIND_COUNT == Shortened(200, 10)
initFRSKYV(s) ==
  [FRSKYV_init(s) EXCEPT !.binding_idx = 0, !.phase = "FRSKYV_DATA1", !.delay = 10000]

FRSKYV_build_bind_packet(s) == Build(s, "bind")
FRSKYV_calc_channel(s) == Tune(s, Only("FRSKYV_hop"))
(* Channels 1 to 4, channels 5 to 8, or none.                              *)
FRSKYV_build_data_packet(s) ==
  Build(s, CASE s.phase \in {"FRSKYV_DATA1", "FRSKYV_DATA3"} -> "lower"
             [] s.phase \in {"FRSKYV_DATA2", "FRSKYV_DATA4"} -> "upper"
             [] OTHER -> "empty")
NextFRSKYV == [FRSKYV_DATA1 |-> "FRSKYV_DATA2", FRSKYV_DATA2 |-> "FRSKYV_DATA3",
               FRSKYV_DATA3 |-> "FRSKYV_DATA4", FRSKYV_DATA4 |-> "FRSKYV_DATA5",
               FRSKYV_DATA5 |-> "FRSKYV_DATA1"]

ReadFRSKYV(s, t) ==
  \/ /\ s.bind_done
     /\ t = After([Resend(FRSKYV_build_data_packet(FRSKYV_calc_channel(s))) EXCEPT
                     !.phase = NextFRSKYV[s.phase]], 9006)
  \/ /\ ~s.bind_done
     /\ t = After([CC2500_Send(FRSKYV_build_bind_packet(s), Only("FRSKYV_bind")) EXCEPT
                     !.binding_idx = @ + 1,
                     !.bind_done = s.binding_idx + 1 >= FRSKYV_BIND_COUNT], 53460)

----------------------------------------------------------------------------
(* FrSkyX: sends a packet, then builds the next, which so has the channel  *)
(* it will be sent on; then listens.  id is chanskip, random once.  hopping*)
(* _frequency_no, packet, counter and lpass are not set without a bind.    *)
MISSED == 2        \* Bound: 100 missed answers are a lost receiver.
initialize_data(s, bind) == Address(s, IF bind = 1 THEN "bind" ELSE "own")
frskyX_init(s) == Tune(s, <<"FRSKY", 47>>)
set_start(s, ch) == Tune(s, IF ch = 47 THEN Only("FRSKYX_bind") ELSE Hop(s, ch))
initFrSkyX(s) ==
  [initialize_data(frskyX_init(Frsky_init_hop(s)), IF s.autobind THEN 1 ELSE 0) EXCEPT
     !.delay = 10000, !.state = IF s.autobind THEN FRSKY_BIND ELSE FRSKY_DATA(1)]

frskyX_build_bind_packet(s) == Build(s, "bind")
(* Only the parity of lpass tells: channels 1 to 8, or 9 to 16.            *)
frskyX_data_frame(s) ==
  [Naming(Build(s, IF s.lpass = 1 THEN "upper" ELSE "lower"),
          <<s.hopping_frequency[1], s.hopping_frequency_no>>) EXCEPT
     !.lpass = IF s.sub_protocol = "CH_8" THEN 0 ELSE 1 - @]

ReadFrSkyX(s, t, in) ==
  \/ /\ s.state < FRSKY_BIND_DONE
     /\ t = After([Resend(frskyX_build_bind_packet(set_start(s, 47))) EXCEPT
                     !.state = @ + 1], 9000)
  \/ /\ s.state = FRSKY_BIND_DONE
     /\ t = After(BIND_DONE([initialize_data(s, 0) EXCEPT
                     !.hopping_frequency_no = 0, !.state = @ + 1]), 1)
  \/ /\ s.state = FRSKY_DATA(1)
     /\ t = After([frskyX_data_frame([Resend(set_start(s, s.hopping_frequency_no)) EXCEPT
                     !.hopping_frequency_no = (@ + s.id) % 47]) EXCEPT !.state = @ + 1], 5500)
  \/ /\ s.state = FRSKY_DATA(2)
     /\ t = After([s EXCEPT !.state = @ + 1], 200)
  \/ /\ s.state = FRSKY_DATA(3)
     /\ t = After([s EXCEPT !.state = @ + 1], 3000)
  \/ /\ s.state = FRSKY_DATA(4)
     /\ t = After([s EXCEPT !.state = FRSKY_DATA(1),
                     !.counter = IF in = "good" \/ @ + 1 > MISSED THEN 0 ELSE @ + 1], 300)

----------------------------------------------------------------------------
(* SFHSS: calibrates on each of 30 channels, then sends a pair of packets  *)
(* on each channel of a walk of step fhss_code + 2, modulo 31 and without  *)
(* place 30; fhss_code is id.                                              *)
SFHSS_rf_init(s) == Address(s, "only")
SFHSS_tune_chan(s) == Tune(s, Hop(s, s.rf_ch_num))
SFHSS_tune_chan_fast(s) == SFHSS_tune_chan(s)
SFHSS_tune_freq(s, in) == [s EXCEPT !.phase = IF in = "option" THEN "SFHSS_START" ELSE @]
SFHSS_calc_next_chan(s) ==
  LET step == s.id + 2
      n    == s.rf_ch_num + step
      skip == IF n = 30 THEN n + step ELSE n
  IN  [s EXCEPT !.rf_ch_num = IF n > 29 THEN skip - 31 ELSE n]
initSFHSS(s) ==
  [SFHSS_rf_init(BIND_DONE(s)) EXCEPT !.hopping_frequency = <<"SFHSS", 30>>,
     !.phase = "SFHSS_START", !.delay = 10000]

SFHSS_build_data_packet(s) ==
  Naming(Build(s, IF s.phase = "SFHSS_DATA1" THEN "lower" ELSE "upper"),
         <<"SFHSS", s.rf_ch_num>>)
SFHSS_send_packet(s) == Resend(s)

ReadSFHSS(s, t, in) ==
  \/ /\ s.phase = "SFHSS_START"
     /\ t = After(SFHSS_tune_chan([s EXCEPT !.rf_ch_num = 0, !.phase = "SFHSS_CAL"]), 2000)
  \/ /\ s.phase = "SFHSS_CAL" /\ s.rf_ch_num + 1 < 30
     /\ t = After(SFHSS_tune_chan([s EXCEPT !.rf_ch_num = @ + 1]), 2000)
  \/ /\ s.phase = "SFHSS_CAL" /\ s.rf_ch_num + 1 >= 30
     /\ t = After([s EXCEPT !.rf_ch_num = 0, !.phase = "SFHSS_DATA1"], 2000)
  \/ /\ s.phase = "SFHSS_DATA1"
     /\ t = After([SFHSS_send_packet(SFHSS_build_data_packet(s)) EXCEPT
                     !.phase = "SFHSS_DATA2"], 1650)
  \/ /\ s.phase = "SFHSS_DATA2"
     /\ t = After([SFHSS_calc_next_chan(SFHSS_send_packet(SFHSS_build_data_packet(s))) EXCEPT
                     !.phase = "SFHSS_TUNE"], 2000)
  \/ /\ s.phase = "SFHSS_TUNE"
     /\ t = After(SFHSS_tune_chan_fast(SFHSS_tune_freq([s EXCEPT !.phase = "SFHSS_DATA1"], in)),
                3150)
==============================================================================
