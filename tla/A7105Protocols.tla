---------------------------- MODULE A7105Protocols ----------------------------
(***************************************************************************)
(* The protocols of the A7105: FlySky, AFHDS2A and Hubsan.                 *)
(*                                                                         *)
(* in is what the callback learns from outside: "good", an answer it       *)
(* takes; "bad", one it does not; "none"; for AFHDS2A whether its packet   *)
(* counter is at a multiple that calls for another kind of packet, and for *)
(* Hubsan that Update_All has moved the option.                            *)
(***************************************************************************)
EXTENDS Globals

Answered(in) == in \in {"good", "bad"}

A7105_Init(s) == Address(s, IF s.protocol = "HUBSAN" THEN "NORMAL" ELSE "only")
A7105_WriteID(s, id) == Address(s, id)
A7105_WriteData(s, ch) == Resend(Tune(s, ch))

----------------------------------------------------------------------------
(* FlySky: the index runs through all values of a byte, and while binding. *)
(* A packet of CX20 holds it.                                              *)
initFlySky(s) ==
  [A7105_Init(s) EXCEPT !.hopping_frequency = <<"FLYSKY", 16>>, !.hopping_frequency_no = 0,
     !.packet_count = 0, !.bind_counter = IF s.autobind THEN Shortened(2500, 16) ELSE 0,
     !.delay = 2400]

flysky_build_packet(s, bind) ==
  Naming(Build(s, Kind(bind)),
         IF s.sub_protocol = "CX20" THEN Hop(s, s.hopping_frequency_no % 16) ELSE Nowhere)

ReadFlySky(s, t) ==
  LET next(u) == [u EXCEPT !.hopping_frequency_no = (@ + 1) % 256]
      period  == IF s.sub_protocol = "CX20" THEN 3984 ELSE 1510
  IN
  \/ /\ s.bind_counter > 0
     /\ t = After([next(A7105_WriteData(flysky_build_packet(s, 1), Only("FLYSKY_bind"))) EXCEPT
                     !.bind_counter = @ - 1, !.bind_done = @ \/ s.bind_counter = 1], period)
  \/ /\ s.bind_counter = 0
     /\ t = After(next(A7105_WriteData(flysky_build_packet(s, 0),
                                       Hop(s, s.hopping_frequency_no % 16))), period)

----------------------------------------------------------------------------
(* AFHDS2A: bind packets on two channels in turn until the receiver        *)
(* answers, four more to tell it that it was heard, then data on 16        *)
(* channels.  The kind of a data packet is decided one packet ahead, and,  *)
(* with the packet counter, not set by initAFHDS2A.  packet_counter is 0   *)
(* at a bind, and 1 for all values after; "settings" and "failsafe" say    *)
(* that it is a multiple of 1313, or of 1569.                              *)
AFHDS2A_calc_channels(s) == [s EXCEPT !.hopping_frequency = <<"AFHDS2A", 16>>]
initAFHDS2A(s) ==
  [AFHDS2A_calc_channels(A7105_Init(s)) EXCEPT !.packet_count = 0, !.bind_phase = 0,
     !.hopping_frequency_no = 0, !.delay = 50000,
     !.phase = IF s.autobind THEN "AFHDS2A_BIND1" ELSE "AFHDS2A_DATA"]

AFHDS2A_build_bind_packet(s) == Build(s, "bind")
AFHDS2A_build_nothing(s, type) == s           \* Mutant: the packet is sent as it is.
AFHDS2A_build_packet(s, type) == Build(s, type)

BindPhases == {"AFHDS2A_BIND1", "AFHDS2A_BIND2", "AFHDS2A_BIND3"}
WaitWrite  == [AFHDS2A_BIND1 |-> "BIND1_WAIT", AFHDS2A_BIND2 |-> "BIND2_WAIT",
               AFHDS2A_BIND3 |-> "BIND3_WAIT"]
NextBind   == [BIND1_WAIT |-> "AFHDS2A_BIND2", BIND2_WAIT |-> "AFHDS2A_BIND3",
               BIND3_WAIT |-> "AFHDS2A_BIND1"]

SendBind(s) ==     \* packet_count is only used for its parity.
  [A7105_WriteData(AFHDS2A_build_bind_packet(s), <<"AFHDS2A_bind", s.packet_count>>) EXCEPT
     !.packet_count = 1 - @]
NextType(s, in) ==
  CASE in = "good" -> "settings"
    [] s.packet_counter = 0 -> "settings"
    [] s.packet_counter # 0 /\ in \in {"settings", "failsafe"} -> in
    [] OTHER -> "sticks"
SendSticks(s, in) ==
  [A7105_WriteData(AFHDS2A_build_packet(s, s.packet_type), Hop(s, s.hopping_frequency_no)) EXCEPT
     !.hopping_frequency_no = IF @ + 1 >= 16 THEN 0 ELSE @ + 1,
     !.packet_type = NextType(s, in), !.packet_counter = 1,
     !.packet = IF Answered(in) THEN "heard" ELSE @]

ReadAFHDS2A(s, t, in) ==
  \/ /\ s.phase \in BindPhases /\ in = "good"
     /\ t = After([SendBind(s) EXCEPT !.packet = "heard", !.phase = "AFHDS2A_BIND4"], 3850)
  \/ /\ s.phase \in BindPhases /\ in # "good"
     /\ t = After([SendBind(s) EXCEPT !.packet = IF in = "bad" THEN "heard" ELSE @,
                     !.phase = WaitWrite[s.phase]], 1700)
  \/ /\ s.phase \in DOMAIN NextBind
     /\ t = After([s EXCEPT !.phase = NextBind[s.phase]], 2150)
  \/ /\ s.phase = "AFHDS2A_BIND4" /\ s.bind_phase + 1 < 4
     /\ t = After([SendBind(s) EXCEPT !.bind_phase = @ + 1], 3850)
  \/ /\ s.phase = "AFHDS2A_BIND4" /\ s.bind_phase + 1 >= 4
     /\ t = After(BIND_DONE([SendBind(s) EXCEPT !.bind_phase = @ + 1, !.packet_counter = 0,
                     !.packet_type = "sticks", !.hopping_frequency_no = 1,
                     !.phase = "AFHDS2A_DATA"]), 3850)
  \/ /\ s.phase = "AFHDS2A_DATA"
     /\ t = After([SendSticks(s, in) EXCEPT !.phase = "DATA_WAIT"], 1700)
  \/ /\ s.phase = "DATA_WAIT"
     /\ t = After([s EXCEPT !.phase = "AFHDS2A_DATA"], 2150)

----------------------------------------------------------------------------
(* Hubsan: a hand-shake of four questions and answers, first under one of  *)
(* two identities, tried in turn, from the third question on under the     *)
(* one the model names.  Questions go out in BIND_1, 3, 5 and 7, answers   *)
(* are looked for in BIND_2, 4, 6 and 8.  txState and bind_count are not   *)
(* set by initHubsan.                                                      *)
initHubsan(s) ==
  [A7105_Init(s) EXCEPT !.bind_done = FALSE, !.phase = "BIND_1", !.packet_count = 0,
     !.id_data = "NORMAL", !.delay = 10000]

OtherId == [NORMAL |-> "PLUS", PLUS |-> "NORMAL"]
Asking  == {"BIND_1", "BIND_3", "BIND_5", "BIND_7"}
HubsanWait  == [BIND_1 |-> "WAIT_1", BIND_3 |-> "WAIT_3", BIND_5 |-> "WAIT_5", BIND_7 |-> "WAIT_7"]
HubsanAsked == [WAIT_1 |-> "BIND_2", WAIT_3 |-> "BIND_4", WAIT_5 |-> "BIND_6", WAIT_7 |-> "BIND_8"]
HubsanHeard == [BIND_2 |-> "BIND_3", BIND_4 |-> "BIND_5", BIND_6 |-> "BIND_7"]
HubsanData  == [DATA_1 |-> "DATA_2", DATA_2 |-> "DATA_3", DATA_3 |-> "DATA_4",
                DATA_4 |-> "DATA_5", DATA_5 |-> "DATA_1"]

(* After 20 tries of the first question, the other identity.               *)
TRIES == Shortened(20, 2)
CountTry(s) ==
  IF s.phase # "BIND_1" THEN s
  ELSE IF s.bind_count + 1 < TRIES THEN [s EXCEPT !.bind_count = @ + 1]
  ELSE A7105_WriteID([s EXCEPT !.bind_count = 0, !.id_data = OtherId[@]], OtherId[s.id_data])
hubsan_build_bind_packet_0(s) ==              \* Mutant: counted from the start each time.
  [Build(s, "bind") EXCEPT
     !.handshake_counter = IF s.phase = "BIND_7" /\ s.id_data = "PLUS" THEN 1 ELSE 0]
(* The bind packet; its third byte, in BIND_7 of a PLUS model, counts.     *)
hubsan_build_bind_packet(s) ==
  LET shakes == IF s.phase # "BIND_7" THEN 0 ELSE s.handshake_counter
      counts == s.phase = "BIND_7" /\ s.id_data = "PLUS"
  IN
  [Build(s, IF counts /\ shakes = 9 THEN "bind_9" ELSE "bind") EXCEPT
     !.handshake_counter = IF counts THEN (shakes + 1) % 256 ELSE shakes]
(* The first 100 packets to a PLUS model hold its sticks in the middle; a  *)
(* packet for the video link goes out when its channel, the option, has    *)
(* changed, and when they are over.  All are counted in a byte: changes of *)
(* the option take it round, and the sticks are in the middle once more.   *)
Neutral   == Shortened(100, 5)
CountSize == Neutral + 3     \* Bound: for the 256 values of packet_count.
hubsan_build_packet(s) ==
  LET vtx == s.vtx_freq # s.option \/ s.packet_count = Neutral
      n   == (s.packet_count + (IF vtx THEN 1 ELSE 0)) % CountSize
  IN
  [Build(s, CASE s.id_data = "PLUS" /\ n < Neutral -> "neutral" [] vtx -> "vtx"
              [] OTHER -> "data") EXCEPT
     !.vtx_freq = s.option, !.packet_count = IF n < Neutral THEN n + 1 ELSE n]
Bound(s) == BIND_DONE([s EXCEPT !.phase = "DATA_1"])
NextTx7(s) == [s EXCEPT !.txState = (@ + 1) % 7]        \* Mutant.
NextTx(s) == [s EXCEPT !.txState = (@ + 1) % 8]

HubsanCallback(s, t, in) ==
  \/ /\ s.phase \in Asking
     /\ t = After([A7105_WriteData(hubsan_build_bind_packet(CountTry(s)), Only("HUBSAN")) EXCEPT
                     !.phase = HubsanWait[s.phase]], 3000)
  \/ /\ s.phase = "WAIT_7" /\ s.id_data = "PLUS" /\ s.packet = "bind_9"
     /\ t = After(Bound(s), 4500)
  \/ /\ s.phase \in DOMAIN HubsanAsked
     /\ ~(s.phase = "WAIT_7" /\ s.id_data = "PLUS" /\ s.packet = "bind_9")
     /\ t = After([s EXCEPT !.phase = HubsanAsked[s.phase]], 4500)
  \/ /\ s.phase \in DOMAIN HubsanHeard /\ ~Answered(in)
     /\ t = After([s EXCEPT !.phase = "BIND_1"], 4500)
  \/ /\ s.phase \in DOMAIN HubsanHeard /\ Answered(in)
     /\ LET u == [Build(s, "heard") EXCEPT !.phase = HubsanHeard[s.phase]] IN
        t = After(IF u.phase = "BIND_5" THEN A7105_WriteID(u, "session") ELSE u, 500)
  \/ /\ s.phase = "BIND_8" /\ in = "good" /\ s.id_data = "NORMAL"
     /\ t = After(Bound(Build(s, "heard")), 28000)
  \/ /\ s.phase = "BIND_8" /\ ~(in = "good" /\ s.id_data = "NORMAL")
     /\ t = After([s EXCEPT !.phase = "BIND_7", !.packet = IF Answered(in) THEN "heard" ELSE @],
                  15000)
  \/ /\ s.phase \in DOMAIN HubsanData /\ s.txState = 0
     /\ t = After(NextTx([A7105_WriteData(hubsan_build_packet(s),
                      Only(IF s.phase = "DATA_5" /\ s.id_data = "NORMAL" THEN "HUBSAN_0x23"
                           ELSE "HUBSAN")) EXCEPT !.phase = HubsanData[s.phase]]), 3000)
  \/ /\ s.phase \in DOMAIN HubsanData /\ s.txState # 0
     /\ t = After(NextTx(IF Answered(in) THEN Build(s, "heard") ELSE s), 1000)

(* Update_All may have moved the option since the callback before: it is   *)
(* read when a packet is built, so that two of its values are enough.      *)
MovedOption(s, in) == IF in = "option" THEN [s EXCEPT !.option = 1 - @] ELSE s
ReadHubsan(s, t, in) == HubsanCallback(MovedOption(s, in), t, in)
==============================================================================
