-------------------------- MODULE ProtocolInvariant ---------------------------
(***************************************************************************)
(* Why the protocols keep to their properties whatever ran before them:    *)
(* what is true of each protocol's globals between two callbacks, which of *)
(* them it has in common with a module that was switched on for it, and    *)
(* where in its period it is.  Together they are inductive.                *)
(***************************************************************************)
EXTENDS Protocols

Byte == 0..255
Fields ==
  { "protocol", "sub_protocol", "option", "id", "autobind", "bind_done", "phase", "step",
    "bind_counter", "bind_phase", "binding_idx", "counter", "state", "packet_count",
    "packet_sent", "packet", "packet_period", "hopping_frequency_no", "hopping_frequency",
    "rf_ch_num", "scrambled", "rf", "adr", "code", "air", "delay", "txState", "bind_count",
    "handshake_counter", "id_data", "vtx_freq", "prev_option", "num_ch", "ch_idx",
    "hopping_frequency_ptr", "packet_type", "packet_counter", "lpass", "says",
    "video", "yz_seq_num", "ls_counter" }

Flags(s) ==
  /\ s.autobind \in BOOLEAN /\ s.bind_done \in BOOLEAN /\ s.scrambled \in BOOLEAN
  /\ s.ch_idx \in {0, 1} /\ s.lpass \in {0, 1}
  /\ s.packet_type \in {"sticks", "settings", "failsafe"} /\ s.video \in (0..1) \X (0..1)
Bytes(s) ==
  /\ s.hopping_frequency_no \in Byte /\ s.packet_count \in Byte /\ s.packet_sent \in Byte
  /\ s.handshake_counter \in Byte /\ s.txState \in 0..7
  /\ s.yz_seq_num \in 0..2 /\ s.ls_counter \in 0..23
Counters(s) ==
  /\ s.bind_counter \in Nat /\ s.counter \in Nat /\ s.delay \in Nat /\ s.packet_period \in Nat
  /\ s.step \in Nat /\ s.bind_phase \in Nat /\ s.binding_idx \in Nat /\ s.state \in Nat
  /\ s.rf_ch_num \in Nat /\ s.bind_count \in Nat
Chosen(s) == s.option \in Nat /\ s.id \in Nat /\ s.hopping_frequency[2] \in Nat
Types(s)  == DOMAIN s = Fields /\ Flags(s) /\ Bytes(s) /\ Counters(s) /\ Chosen(s)

(* Whose index init leaves alone: its places.  One packet folds it back.   *)
Places == [CX10 |-> 4, MJXQ |-> 8, MT99XX |-> 16, FY326 |-> 5, FRSKYX |-> 47, CG023 |-> 4]
Wanders(s) == s.protocol = "ESKY" \/ s.protocol \in DOMAIN Places
Folded(s)  == s.hopping_frequency_no < Places[s.protocol]
Tabled(s)  == s.hopping_frequency[1] # "stray" /\ (~Wanders(s) => s.rf[1] # "stray")

----------------------------------------------------------------------------
(* NRF24L01, by countdown.                                                 *)
YD717Inv(s) == s.adr = (IF s.bind_done THEN "own" ELSE "bind")
FQ777Inv(s) ==
  /\ s.hopping_frequency = <<"FQ777", 4>> /\ s.hopping_frequency_no \in 0..3
  /\ IF s.bind_counter > 0 THEN s.adr = "bind" /\ ~s.bind_done ELSE s.adr = "own" /\ s.bind_done
HONTAIInv(s) ==
  IF s.bind_counter > 0 THEN s.adr = "bind" /\ ~s.bind_done
  ELSE /\ s.adr = "own" /\ s.bind_done
       /\ s.hopping_frequency = <<"HONTAI", 3>> /\ s.hopping_frequency_no \in 0..2
CG023Inv(s) ==
  s.adr = "only" /\ (s.sub_protocol = "H8_3D" => s.hopping_frequency = <<"H8_3D", 4>>)
BAYANGInv(s) ==
  /\ s.hopping_frequency = <<"BAYANG", 4>> /\ s.hopping_frequency_no \in 0..3
  /\ s.packet_count \in 0..4 /\ s.adr = (IF s.bind_done THEN "own" ELSE "bind")
ESKYInv(s) ==
  /\ s.hopping_frequency = <<"ESKY", 6>> /\ s.hopping_frequency_no \in 0..6
  /\ s.adr = (IF s.bind_done THEN "own" ELSE "bind")
MJXQInv(s) ==
  s.adr = "only" /\ s.hopping_frequency \in { <<"MJXQ", 4>>, <<"MJXQ_bind", 4>> }
MT99XXInv(s) ==
  /\ s.hopping_frequency = <<"MT99XX", 16>>
  /\ IF s.bind_done THEN s.adr = "own" ELSE s.adr = "bind" /\ s.packet = "bind"
SYMAXInv(s) ==
  LET first == IF s.sub_protocol = "SYMAX5C" THEN "only" ELSE "bind" IN
  /\ s.phase \in {"SYMAX_INIT1", "SYMAX_BIND2", "SYMAX_BIND3", "SYMAX_DATA"}
  /\ s.bind_done <=> s.phase = "SYMAX_DATA"
  /\ ~s.bind_done => s.adr = first
  /\ s.bind_done => s.adr = (IF first = "only" THEN "only" ELSE "own")
  /\ s.phase # "SYMAX_INIT1" =>
       /\ s.hopping_frequency = <<IF s.bind_done THEN "SYMAX" ELSE "SYMAX_bind", s.rf_ch_num>>
       /\ s.rf_ch_num \in 1..16 /\ s.hopping_frequency_no < s.rf_ch_num /\ s.packet_count \in 0..1

(* NRF24L01, by phases.                                                    *)
V2X2Inv(s) ==
  /\ s.adr = "only" /\ s.hopping_frequency = <<"V2X2", 16>>
  /\ s.phase \in {"V202_INIT2", "V202_BIND2"} => ~s.bind_done /\ s.counter > 0
  /\ s.phase \in {"V202_BIND2", "V202_DATA"} => s.hopping_frequency_no \in 0..31
SltLast(s) == IF s.sub_protocol = "VISTA" THEN 5 ELSE 3
SLTInv(s) ==
  /\ s.hopping_frequency = <<"SLT", 15>> /\ s.hopping_frequency_no \in 0..14
  /\ s.adr = "own" /\ s.packet = "data" /\ s.says = Nowhere /\ s.packet_count <= 5
  /\ s.phase = "SLT_BIND" /\ SltLast(s) = 5 => s.packet_count < 5
  /\ s.phase = "SLT_DATA" => s.packet_count < SltLast(s)
HISKYInv(s) ==
  LET hk310 == s.sub_protocol = "HK310" IN
  /\ s.hopping_frequency = <<"HISKY", 20>> /\ s.hopping_frequency_no \in 0..19
  /\ s.step \in IF hk310 THEN {0, 2, 3, 6, 8} ELSE 0..8
  /\ s.bind_counter # 0 => ~s.bind_done
  /\ s.step \in {0, 1, 6, 7, 8} => s.adr = "own"
  /\ s.step = 2 => s.adr = (IF s.bind_counter # 0 THEN "bind" ELSE "own")
  /\ s.step \in {7, 8} => s.packet \in {"data", "failsafe"} /\ s.says = Nowhere
KNInv(s) ==
  /\ s.hopping_frequency = <<"KN", 4>> /\ s.packet_count \in {5, 8}
  /\ s.phase = "KN_PRE_BIND" => s.bind_counter > 0 /\ ~s.bind_done
  /\ s.phase = "KN_BINDING" =>
       s.packet = "bind" /\ s.says = Nowhere /\ s.adr = "bind" /\ ~s.bind_done
  /\ s.phase = "KN_SENDING" =>
       s.adr = "own" /\ s.packet_sent <= s.packet_count /\ s.hopping_frequency_no \in 0..3
CX10Inv(s) ==
  /\ s.hopping_frequency = <<"CX10", 4>> /\ s.adr = "only"
  /\ s.phase \in {"CX10_BIND1", "CX10_BIND2"} => ~s.bind_done
FY326Inv(s) ==
  /\ s.hopping_frequency = <<"FY326", 5>> /\ s.adr = "only"
  /\ s.phase \in {"FY319_BIND1", "FY319_BIND2", "FY326_BIND1", "FY326_BIND2", "FY326_DATA"}
  /\ s.phase # "FY326_DATA" => ~s.bind_done /\ s.rf = Only("FY326_bind")
  /\ s.phase = "FY319_BIND2" => s.packet = "bind" /\ s.says = Nowhere /\ s.bind_counter > 0
ASSANInv(s) ==
  /\ s.hopping_frequency = <<"ASSAN", 2>> /\ s.hopping_frequency_no \in {0, 1}
  /\ s.phase \in {"ASSAN_BIND0", "ASSAN_BIND1", "ASSAN_BIND2"} => s.adr = "bind" /\ ~s.bind_done
  /\ s.phase = "ASSAN_BIND2" => s.packet = "bind" /\ s.says = Nowhere /\ s.packet_count < 20
  /\ s.phase \in {"ASSAN_DATA2", "ASSAN_DATA3", "ASSAN_DATA4"} => s.adr = "own"
SHENQIInv(s) == s.hopping_frequency_no \in 0..59 /\ s.packet_count \in 0..6

----------------------------------------------------------------------------
(* A7105.                                                                  *)
FLYSKYInv(s) ==
  /\ s.hopping_frequency = <<"FLYSKY", 16>> /\ s.adr = "only"
  /\ s.bind_counter > 0 => ~s.bind_done
AFHDS2AInv(s) ==
  /\ s.hopping_frequency = <<"AFHDS2A", 16>> /\ s.hopping_frequency_no \in 0..15 /\ s.adr = "only"
  /\ s.phase \notin {"AFHDS2A_DATA", "DATA_WAIT"} => ~s.bind_done /\ s.packet_count \in {0, 1}
HUBSANInv(s) ==
  /\ s.adr \in {"NORMAL", "PLUS", "session"} /\ s.id_data \in {"NORMAL", "PLUS"}
  /\ s.phase \notin DOMAIN HubsanData => ~s.bind_done /\ s.packet_count = 0
  /\ s.packet_count < CountSize /\ s.option \in {0, 1}

(* CC2500.                                                                 *)
FRSKYDInv(s) ==
  /\ s.hopping_frequency = <<"FRSKY", 47>> /\ s.state <= FRSKY_DATA(5)
  /\ IF s.state <= FRSKY_BIND_DONE THEN s.adr = "bind" /\ ~s.bind_done ELSE s.adr = "own"
FRSKYVInv(s) == s.adr = "only" /\ s.phase \in DOMAIN NextFRSKYV
(* The packet built last goes out on the place it names; before the first  *)
(* of them it is a bind packet, when there was a bind.                     *)
FrSkyXBuilt(s) ==
  /\ s.packet \in {"lower", "upper"} /\ s.hopping_frequency_no < 47
  /\ s.says = <<"FRSKY", s.hopping_frequency_no>>
FrSkyXBound(s) == s.packet = "bind" /\ s.says = Nowhere
FRSKYXInv(s) ==
  /\ s.hopping_frequency = <<"FRSKY", 47>> /\ s.state <= FRSKY_DATA(4)
  /\ IF s.state <= FRSKY_BIND_DONE THEN s.adr = "bind" /\ ~s.bind_done ELSE s.adr = "own"
  /\ s.state \in 1..FRSKY_BIND_DONE => FrSkyXBound(s)
SFHSSInv(s) ==
  LET here == <<"SFHSS", s.rf_ch_num>> IN
  /\ s.hopping_frequency = <<"SFHSS", 30>> /\ s.adr = "only" /\ s.id \in 0..27
  /\ s.phase \in {"SFHSS_START", "SFHSS_CAL", "SFHSS_DATA1", "SFHSS_DATA2", "SFHSS_TUNE"}
  /\ s.phase # "SFHSS_START" => s.rf_ch_num \in 0..29
  /\ s.phase = "SFHSS_CAL" => s.rf = here
  /\ s.phase \in {"SFHSS_DATA1", "SFHSS_DATA2"} =>
       s.rf = here \/ (s.rf_ch_num = 0 /\ s.rf = <<"SFHSS", 29>>)

(* CYRF6936.  First and Second are what DSM's half of a pair is tuned to.  *)
DsmPlaces(s) == IF Dsmx(s) THEN 23 ELSE 2
First(s)  == s.code = "first" /\ (~Dsmx(s) => s.rf[2] = 0 /\ s.hopping_frequency_no = 1)
Second(s) == s.code = "second" /\ (~Dsmx(s) => s.rf[2] = 1 /\ s.hopping_frequency_no = 0)
DsmBound  ==
  {"CH1_WRITE_A", "CH1_CHECK_A", "CH2_WRITE_A", "CH2_CHECK_A", "CH2_READ_A",
   "CH1_WRITE_B", "CH1_CHECK_B", "CH2_WRITE_B", "CH2_CHECK_B", "CH2_READ_B"}
DSMInv(s) ==
  /\ s.hopping_frequency = <<"DSM", DsmPlaces(s)>>
  /\ s.phase \in DsmBound \cup {"DSM_BIND_WRITE", "DSM_BIND_CHECK", "DSM_BIND_READ", "DSM_CHANSEL"}
  /\ s.phase \in {"DSM_BIND_WRITE", "DSM_BIND_CHECK", "DSM_BIND_READ"} => ~s.bind_done
  /\ s.phase = "DSM_BIND_WRITE" => s.packet = "bind" /\ s.says = Nowhere /\ s.adr = "bind"
  /\ s.phase = "DSM_BIND_READ" => s.bind_counter > 0
  /\ s.phase \in DsmBound => s.adr = "own" /\ s.hopping_frequency_no < DsmPlaces(s)
  /\ s.phase \in {"CH1_WRITE_A", "CH1_CHECK_A", "CH1_WRITE_B", "CH1_CHECK_B"} => First(s)
  /\ s.phase \in {"CH2_WRITE_A", "CH2_CHECK_A", "CH2_READ_A", "CH2_WRITE_B", "CH2_CHECK_B",
                  "CH2_READ_B"} => Second(s)
DEVOInv(s) ==
  /\ s.option \in {0, 1} /\ s.hopping_frequency = <<"DEVO", 3>>
  /\ s.hopping_frequency_ptr \in 0..2 /\ s.rf = <<"DEVO", s.hopping_frequency_ptr>>
  /\ s.phase \in DOMAIN NextDevo \cup {"DEVO_BOUND_10", "DEVO_BIND", "DEVO_BIND_SENDCH"}
  /\ s.phase \in {"DEVO_BIND", "DEVO_BIND_SENDCH"} => s.adr = "bind" /\ ~s.bind_done
WK2X01Inv(s) ==
  /\ s.option \in {0, 1} /\ s.hopping_frequency = <<"WK2X01", 3>>
  /\ s.hopping_frequency_no \in 0..2 /\ s.packet_count \in 0..11 /\ s.packet_sent \in {0, 1}
  /\ s.adr = "only"
  /\ s.phase \in DOMAIN NextWK \cup {"WK_BOUND_8", "WK_BIND"}
  /\ IF s.sub_protocol = "WK2801" THEN s.phase = "WK_BIND" => ~s.bind_done
     ELSE s.bind_counter > 0 => ~s.bind_done
J6PROInv(s) ==
  /\ s.phase \in J6Asking \cup DOMAIN NextAck =>
       s.adr = "bind" /\ s.says = Nowhere /\ ~s.bind_done
  /\ s.phase \in J6Asking => s.packet \in {"bind", "heard"}
  /\ s.phase \in DOMAIN NextAck => s.packet = "ack"
  /\ s.phase = "J6PRO_BIND" => ~s.bind_done
  /\ s.phase \in DOMAIN J6Chan => s.adr = "own" /\ s.hopping_frequency = <<"J6PRO", 4>>
  /\ s.phase \in {"CHAN_2", "CHAN_3", "CHAN_4"} => s.packet = "data" /\ s.says = Nowhere

OwnInv(s) ==
  /\ (s.protocol = "YD717" => YD717Inv(s))     /\ (s.protocol = "FQ777" => FQ777Inv(s))
  /\ (s.protocol = "HONTAI" => HONTAIInv(s))   /\ (s.protocol = "CG023" => CG023Inv(s))
  /\ (s.protocol = "BAYANG" => BAYANGInv(s))   /\ (s.protocol = "ESKY" => ESKYInv(s))
  /\ (s.protocol = "MJXQ" => MJXQInv(s))       /\ (s.protocol = "MT99XX" => MT99XXInv(s))
  /\ (s.protocol = "SYMAX" => SYMAXInv(s))     /\ (s.protocol = "V2X2" => V2X2Inv(s))
  /\ (s.protocol = "SLT" => SLTInv(s))         /\ (s.protocol = "HISKY" => HISKYInv(s))
  /\ (s.protocol = "KN" => KNInv(s))           /\ (s.protocol = "CX10" => CX10Inv(s))
  /\ (s.protocol = "FY326" => FY326Inv(s))     /\ (s.protocol = "ASSAN" => ASSANInv(s))
  /\ (s.protocol = "SHENQI" => SHENQIInv(s))   /\ (s.protocol = "FLYSKY" => FLYSKYInv(s))
  /\ (s.protocol = "AFHDS2A" => AFHDS2AInv(s)) /\ (s.protocol = "HUBSAN" => HUBSANInv(s))
  /\ (s.protocol = "FRSKYD" => FRSKYDInv(s))   /\ (s.protocol = "FRSKYV" => FRSKYVInv(s))
  /\ (s.protocol = "FRSKYX" => FRSKYXInv(s))   /\ (s.protocol = "SFHSS" => SFHSSInv(s))
  /\ (s.protocol = "DSM" => DSMInv(s))         /\ (s.protocol = "DEVO" => DEVOInv(s))
  /\ (s.protocol = "WK2X01" => WK2X01Inv(s))   /\ (s.protocol = "J6PRO" => J6PROInv(s))

----------------------------------------------------------------------------
(* What a protocol has in common with a module switched on for it: what it *)
(* was told, what decides its next steps, and where its packets go.        *)
Told(s, f) ==
  /\ s.protocol = f.protocol /\ s.sub_protocol = f.sub_protocol /\ s.id = f.id
  /\ s.autobind = f.autobind
Alike(s, f) ==
  /\ s.option = f.option /\ s.bind_done = f.bind_done /\ s.adr = f.adr /\ s.code = f.code
  /\ s.delay = f.delay

(* A packet left in the buffer: fresh has none, or it is the same.         *)
SamePacket(s, f, kinds) ==
  f.packet = "none" \/ (s.packet = f.packet /\ s.packet \in kinds /\ s.says = f.says)
SameIndex(s, f)   == s.hopping_frequency_no = f.hopping_frequency_no
SameCount(s, f)   == s.bind_counter = f.bind_counter
SamePhase(s, f)   == s.phase = f.phase
SameRf(s, f)      == s.rf = f.rf
SameScramble(s, f) == s.scrambled = f.scrambled

YD717Agrees(s, f)  == SameCount(s, f) /\ SameRf(s, f)
FQ777Agrees(s, f)  == SameCount(s, f) /\ SameIndex(s, f)
HONTAIAgrees(s, f) ==
  SameCount(s, f) /\ SameScramble(s, f) /\ (s.bind_counter = 0 => SameIndex(s, f))
CG023Agrees(s, f)  ==
  SameCount(s, f) /\ SameScramble(s, f) /\ s.packet_period = f.packet_period
BAYANGAgrees(s, f) ==
  /\ SameCount(s, f) /\ SameScramble(s, f) /\ SameIndex(s, f)
  /\ s.packet_count = f.packet_count
ESKYAgrees(s, f)   == SameCount(s, f) /\ SameIndex(s, f) /\ s.packet_sent = f.packet_sent
MJXQAgrees(s, f)   == SameCount(s, f) /\ SameScramble(s, f)
MT99XXAgrees(s, f) ==
  SameCount(s, f) /\ SameScramble(s, f) /\ s.packet_period = f.packet_period
SYMAXAgrees(s, f)  ==
  /\ SamePhase(s, f) /\ (s.phase = "SYMAX_BIND3" => s.counter = f.counter)
  /\ s.phase # "SYMAX_INIT1" =>
       SameIndex(s, f) /\ s.packet_count = f.packet_count /\ s.rf_ch_num = f.rf_ch_num
V2X2Agrees(s, f)   ==
  /\ SamePhase(s, f)
  /\ s.phase \in {"V202_INIT2", "V202_BIND2"} => s.counter = f.counter
  /\ s.phase \in {"V202_BIND2", "V202_DATA"} =>
       SameIndex(s, f) /\ s.packet_sent = f.packet_sent
SLTAgrees(s, f)    ==
  /\ SamePhase(s, f) /\ SameIndex(s, f) /\ SameRf(s, f)
  /\ s.packet_count = f.packet_count /\ s.rf_ch_num = f.rf_ch_num
  /\ s.phase # "SLT_BIND" => s.bind_phase = f.bind_phase
HISKYAgrees(s, f)  ==
  /\ s.step = f.step /\ SameIndex(s, f) /\ SameCount(s, f) /\ SameRf(s, f)
  /\ SamePacket(s, f, {"data", "failsafe"})
KNAgrees(s, f)     ==
  /\ SamePhase(s, f) /\ SameRf(s, f) /\ SamePacket(s, f, {"bind", "data"})
  /\ s.packet_period = f.packet_period /\ s.packet_count = f.packet_count
  /\ s.phase \in {"KN_PRE_BIND", "KN_BINDING"} => SameCount(s, f)
  /\ s.phase = "KN_SENDING" => SameIndex(s, f) /\ s.packet_sent = f.packet_sent
CX10Agrees(s, f)   ==
  /\ SamePhase(s, f) /\ SameScramble(s, f) /\ s.packet_period = f.packet_period
  /\ s.phase = "CX10_BIND1" => SameCount(s, f)
FY326Agrees(s, f)  == SamePhase(s, f) /\ (s.phase # "FY326_DATA" => SameCount(s, f))
ASSANAgrees(s, f)  ==
  /\ SamePhase(s, f) /\ SameIndex(s, f) /\ SameRf(s, f)
  /\ s.phase = "ASSAN_BIND2" => s.packet_count = f.packet_count
SHENQIAgrees(s, f) ==
  SameIndex(s, f) /\ s.packet_count = f.packet_count /\ s.packet_period = f.packet_period
FLYSKYAgrees(s, f) == SameCount(s, f) /\ SameIndex(s, f)
FRSKYDAgrees(s, f) ==
  s.state = f.state /\ (s.autobind /\ s.state > FRSKY_BIND_DONE => s.counter = f.counter)
FRSKYVAgrees(s, f) == SamePhase(s, f) /\ s.binding_idx = f.binding_idx
FRSKYXAgrees(s, f) ==
  /\ s.state = f.state
  /\ s.state > FRSKY_BIND_DONE =>
       /\ s.autobind => SameIndex(s, f)
       /\ f.packet = "none" \/ FrSkyXBuilt(s) \/ FrSkyXBound(s)
SFHSSAgrees(s, f)  ==
  SamePhase(s, f) /\ (s.phase # "SFHSS_START" => SameRf(s, f) /\ s.rf_ch_num = f.rf_ch_num)
DSMAgrees(s, f)    ==
  /\ SamePhase(s, f) /\ SameRf(s, f) /\ s.num_ch = f.num_ch
  /\ s.phase \in {"DSM_BIND_WRITE", "DSM_BIND_READ"} => SameCount(s, f)
  /\ s.phase \in DsmBound => SameIndex(s, f)
WK2X01Agrees(s, f) ==
  /\ SamePhase(s, f) /\ SameCount(s, f) /\ SameIndex(s, f) /\ SameRf(s, f)
  /\ s.packet_sent = f.packet_sent /\ s.packet_count = f.packet_count
  /\ s.prev_option = f.prev_option
J6PROAgrees(s, f)  ==
  /\ SamePhase(s, f) /\ SameRf(s, f)
  /\ s.phase \in J6Asking => s.packet = f.packet

Agrees(s, f) ==
  /\ (s.protocol = "YD717" => YD717Agrees(s, f))   /\ (s.protocol = "FQ777" => FQ777Agrees(s, f))
  /\ (s.protocol = "HONTAI" => HONTAIAgrees(s, f)) /\ (s.protocol = "CG023" => CG023Agrees(s, f))
  /\ (s.protocol = "BAYANG" => BAYANGAgrees(s, f)) /\ (s.protocol = "ESKY" => ESKYAgrees(s, f))
  /\ (s.protocol = "MJXQ" => MJXQAgrees(s, f))     /\ (s.protocol = "MT99XX" => MT99XXAgrees(s, f))
  /\ (s.protocol = "SYMAX" => SYMAXAgrees(s, f))   /\ (s.protocol = "V2X2" => V2X2Agrees(s, f))
  /\ (s.protocol = "SLT" => SLTAgrees(s, f))       /\ (s.protocol = "HISKY" => HISKYAgrees(s, f))
  /\ (s.protocol = "KN" => KNAgrees(s, f))         /\ (s.protocol = "CX10" => CX10Agrees(s, f))
  /\ (s.protocol = "FY326" => FY326Agrees(s, f))   /\ (s.protocol = "ASSAN" => ASSANAgrees(s, f))
  /\ (s.protocol = "SHENQI" => SHENQIAgrees(s, f)) /\ (s.protocol = "FLYSKY" => FLYSKYAgrees(s, f))
  /\ (s.protocol = "FRSKYD" => FRSKYDAgrees(s, f)) /\ (s.protocol = "FRSKYV" => FRSKYVAgrees(s, f))
  /\ (s.protocol = "FRSKYX" => FRSKYXAgrees(s, f)) /\ (s.protocol = "SFHSS" => SFHSSAgrees(s, f))
  /\ (s.protocol = "DSM" => DSMAgrees(s, f))       /\ (s.protocol = "WK2X01" => WK2X01Agrees(s, f))
  /\ (s.protocol = "J6PRO" => J6PROAgrees(s, f))

----------------------------------------------------------------------------
(* Where in its period a protocol is: since its last packet n us had gone  *)
(* by at the callback before, and the next is due after s.delay.           *)
Due(s, n, gone, delay) == n = gone /\ s.delay = delay

FLYSKYPace(s, n)  == Due(s, n, 0, IF s.sub_protocol = "CX20" THEN 3984 ELSE 1510)
AFHDS2APace(s, n) ==
  \/ s.phase = "DATA_WAIT" /\ Due(s, n, 0, 1700)
  \/ s.phase = "AFHDS2A_DATA" /\ Due(s, n, 1700, 2150)
HUBSANPace(s, n)  ==
  /\ s.phase \in DOMAIN HubsanData
  /\ CASE s.txState = 0 -> Due(s, n, 9000, 1000)
       [] s.txState = 1 -> Due(s, n, 0, 3000)
       [] OTHER -> Due(s, n, 1000 + 1000 * s.txState, 1000)
FRSKYDPace(s, n)  ==
  \/ s.state \in {FRSKY_DATA(2), FRSKY_DATA(3)} /\ Due(s, n, 0, 9000)
  \/ s.state = FRSKY_DATA(4) /\ Due(s, n, 0, 7500)
  \/ s.state = FRSKY_DATA(5) /\ Due(s, n, 7500, 1300)
  \/ s.state = FRSKY_DATA(1) /\ Due(s, n, 8800, 9200)
FRSKYVPace(s, n)  == Due(s, n, 0, 9006)
FRSKYXPace(s, n)  ==
  /\ s.packet # "none"
  /\ \/ s.state = FRSKY_DATA(2) /\ Due(s, n, 0, 5500)
     \/ s.state = FRSKY_DATA(3) /\ Due(s, n, 5500, 200)
     \/ s.state = FRSKY_DATA(4) /\ Due(s, n, 5700, 3000)
     \/ s.state = FRSKY_DATA(1) /\ Due(s, n, 8700, 300)
SFHSSPace(s, n)   ==
  \/ s.phase = "SFHSS_DATA2" /\ Due(s, n, 0, 1650)
  \/ s.phase = "SFHSS_TUNE" /\ Due(s, n, 0, 2000)
  \/ s.phase = "SFHSS_DATA1" /\ Due(s, n, 2000, 3150)
DSMPace(s, n)     ==
  \/ s.phase \in DOMAIN DsmSecond \cup DOMAIN DsmRead /\ Due(s, n, 0, 1950)
  \/ s.phase \in {"CH2_WRITE_A", "CH2_WRITE_B"} /\ Due(s, n, 1950, 2060)
  \/ s.phase \in DOMAIN DsmNext /\ Due(s, n, 1950, 4440)
  \/ s.phase = "CH2_READ_B" /\ Due(s, n, 6390, 11000)
  \/ s.phase \in {"CH1_WRITE_A", "CH1_WRITE_B"} /\ (Due(s, n, 6390, 600) \/ Due(s, n, 17390, 600))
DEVOPace(s, n)    ==
  \/ s.txState = 0 /\ Due(s, n, 1200, 1200)
  \/ s.txState = 1 /\ Due(s, n, 0, 1200)
WK2X01Pace(s, n)  ==
  \/ s.packet_sent = 0 /\ Due(s, n, 1600, 1200)
  \/ s.packet_sent = 1 /\ Due(s, n, 0, 1600)
J6PROPace(s, n)   ==
  s.phase \in DOMAIN J6Chan /\ n = 0 /\ s.delay \in {3550, 13900}
HISKYPace(s, n)   ==
  IF s.sub_protocol # "HK310" THEN Due(s, n, 1000 * s.step, 1000)
  ELSE /\ s.packet # "none"
       /\ \/ s.step \in {0, 3} /\ Due(s, n, 0, 1000)
          \/ s.step \in {2, 6} /\ Due(s, n, 1000, 1000)
          \/ s.step = 8 /\ Due(s, n, 2000, 1000)
V2X2Pace(s, n)    == s.phase = "V202_DATA" /\ Due(s, n, 0, 4000)
BAYANGPace(s, n)  ==
  /\ s.option = 0 => s.packet_count <= 1
  /\ IF s.packet_count > 0 THEN Due(s, n, 1000 * (s.packet_count - 1), 1000)
     ELSE Due(s, n, IF s.option # 0 THEN 4000 ELSE 1000, 1000)

Paced(s, n) ==
  n # -1 =>
    /\ s.bind_done
    /\ (s.protocol = "FLYSKY" => FLYSKYPace(s, n)) /\ (s.protocol = "AFHDS2A" => AFHDS2APace(s, n))
    /\ (s.protocol = "HUBSAN" => HUBSANPace(s, n)) /\ (s.protocol = "FRSKYD" => FRSKYDPace(s, n))
    /\ (s.protocol = "FRSKYV" => FRSKYVPace(s, n)) /\ (s.protocol = "FRSKYX" => FRSKYXPace(s, n))
    /\ (s.protocol = "SFHSS" => SFHSSPace(s, n))   /\ (s.protocol = "DSM" => DSMPace(s, n))
    /\ (s.protocol = "DEVO" => DEVOPace(s, n))     /\ (s.protocol = "WK2X01" => WK2X01Pace(s, n))
    /\ (s.protocol = "J6PRO" => J6PROPace(s, n))   /\ (s.protocol = "HISKY" => HISKYPace(s, n))
    /\ (s.protocol = "V2X2" => V2X2Pace(s, n))     /\ (s.protocol = "BAYANG" => BAYANGPace(s, n))

(* At most one packet astray, and then the index is folded.                *)
NearTable(s, n) ==
  n > 0 /\ s.protocol # "ESKY" => s.protocol \in DOMAIN Places /\ n = 1 /\ Folded(s)

----------------------------------------------------------------------------
(* The globals g and fresh between two callbacks, whatever was chosen      *)
(* before: the invariant of which the safety properties are consequences.  *)
GlobalsInv ==
  /\ Types(g) /\ Tabled(g) /\ OwnInv(g)
  /\ Types(fresh) /\ Tabled(fresh) /\ OwnInv(fresh)
  /\ Told(g, fresh)
  /\ StaleTurn(g) \/ (Alike(g, fresh) /\ Agrees(g, fresh))
  /\ Paced(g, since) /\ NearTable(g, strays)

(* Types and ranges, and what each protocol has in common with a module    *)
(* that was switched on for it, hold between any two callbacks.            *)
ProtocolsInvariant == TypeOK /\ GlobalsInv
==============================================================================
