------------------------------ MODULE Protocols -------------------------------
(***************************************************************************)
(* The protocols as protocol_init starts them and the timer calls them     *)
(* back, one after the other on the same globals.                          *)
(*                                                                         *)
(* Beside the real globals g runs fresh, the globals of a module that was  *)
(* switched on with the protocol chosen now, and was told the same: what g *)
(* puts on the air that fresh does not comes from an earlier protocol.  It *)
(* is not followed for a protocol whose turn is stale from the start.      *)
(***************************************************************************)
EXTENDS NrfCountdown, NrfPhases, A7105Protocols, CC2500Protocols, CyrfProtocols

CONSTANT Journeys   \* The protocols chosen from power-up on: sequences of stays.

(* What protocol_init is told: a protocol, its variant, and the option and *)
(* the random number where a protocol has one.  The number of a Devo or    *)
(* Walkera is fixed or it is not; chanskip of FrSkyX is below the size of  *)
(* its table and not 0; SFHSS has 28 codes.                                *)
ProtocolNames ==
  { "FLYSKY", "AFHDS2A", "HUBSAN", "FRSKYD", "FRSKYV", "FRSKYX", "SFHSS", "DSM", "DEVO", "WK2X01",
    "J6PRO", "HISKY", "V2X2", "YD717", "KN", "SYMAX", "SLT", "CX10", "CG023", "BAYANG", "ESKY",
    "MT99XX", "MJXQ", "SHENQI", "FY326", "FQ777", "ASSAN", "HONTAI" }
Variants ==
  { v \in [protocol : ProtocolNames, sub_protocol : STRING, option : 0..255, id : 0..46] :
      /\ v.protocol \in {"DEVO", "WK2X01"} => v.option \in {0, 1}
      /\ v.protocol = "FRSKYX" => v.id > 0
      /\ v.protocol = "SFHSS" => v.id <= 27 }

(* A stay: a variant, and the most callbacks of it before the next one is  *)
(* chosen (a bound; the last of a journey stays for ever).                 *)
Stays == [variant : Variants, callbacks : Nat]
ASSUME JourneysAssumption == Journeys \subseteq Seq(Stays)

VARIABLES
  g, fresh,
  journey,     \* The stays still to come,
  left,        \* the callbacks left until the next, 0 in the last.
  visits,      \* Packets on each place of the table, the least number taken off, or <<>>.
  since,       \* Time from the last packet to the last callback; -1 if unknown.
  strays       \* Packets since the start that went to a place in no table; 2 is many.

vars == <<g, fresh, journey, left, visits, since, strays>>

----------------------------------------------------------------------------
(* protocol_init, and the callback it installs.                            *)
init(s) ==
  CASE s.protocol = "FLYSKY"  -> initFlySky(s)     [] s.protocol = "AFHDS2A" -> initAFHDS2A(s)
    [] s.protocol = "HUBSAN"  -> initHubsan(s)     [] s.protocol = "FRSKYD"  -> initFrSky_2way(s)
    [] s.protocol = "FRSKYV"  -> initFRSKYV(s)     [] s.protocol = "FRSKYX"  -> initFrSkyX(s)
    [] s.protocol = "SFHSS"   -> initSFHSS(s)      [] s.protocol = "DSM"     -> initDsm(s)
    [] s.protocol = "DEVO"    -> DevoInit(s)       [] s.protocol = "WK2X01"  -> WK_setup(s)
    [] s.protocol = "J6PRO"   -> initJ6Pro(s)      [] s.protocol = "HISKY"   -> initHiSky(s)
    [] s.protocol = "V2X2"    -> initV2x2(s)       [] s.protocol = "YD717"   -> initYD717(s)
    [] s.protocol = "KN"      -> initKN(s)         [] s.protocol = "SYMAX"   -> initSymax(s)
    [] s.protocol = "SLT"     -> initSLT(s)        [] s.protocol = "CX10"    -> initCX10(s)
    [] s.protocol = "CG023"   -> initCG023(s)      [] s.protocol = "BAYANG"  -> initBAYANG(s)
    [] s.protocol = "ESKY"    -> initESKY(s)       [] s.protocol = "MT99XX"  -> initMT99XX(s)
    [] s.protocol = "MJXQ"    -> initMJXQ(s)       [] s.protocol = "SHENQI"  -> initSHENQI(s)
    [] s.protocol = "FY326"   -> initFY326(s)      [] s.protocol = "FQ777"   -> initFQ777(s)
    [] s.protocol = "ASSAN"   -> initASSAN(s)      [] s.protocol = "HONTAI"  -> initHONTAI(s)

protocol_init(s, v, autobind) ==
  init([modules_reset(s) EXCEPT
          !.protocol = v.protocol, !.sub_protocol = v.sub_protocol, !.option = v.option,
          !.id = v.id, !.autobind = autobind, !.bind_done = ~autobind])

----------------------------------------------------------------------------
(* What is seen of a protocol from outside.                                *)
Sends(s)  == s.air.kind # "none"
Size(s)   == s.hopping_frequency[2]
Stride(s) == IF s.sub_protocol = "YZ" THEN 2 ELSE 1    \* Every other place.
NoVisits(s) == [i \in 1..(Size(s) \div Stride(s)) |-> 0]
OnTable(s)  == Sends(s) /\ s.air.ch[1] = s.hopping_frequency[1] /\ s.air.ch[2] < Size(s)
Place(s) == (s.air.ch[2] \div Stride(s)) + 1
LeastTaken(v) ==
  IF \A i \in DOMAIN v : v[i] > 0 THEN [i \in DOMAIN v |-> v[i] - 1] ELSE v
Visit(v, s) ==
  IF s.bind_done /\ OnTable(s) /\ v # <<>> THEN LeastTaken([v EXCEPT ![Place(s)] = @ + 1]) ELSE v

(* A late chip or a moved option ends the count of visits; not of Hubsan,  *)
(* which has no table and keeps its pace.                                  *)
Disturbs(in) == in = "late" \/ (in = "option" /\ g.protocol # "HUBSAN")
SinceLast(s, t, n, in) ==
  IF ~s.bind_done \/ Disturbs(in) THEN -1
  ELSE IF Sends(t) THEN 0
  ELSE IF n = -1 THEN -1 ELSE n + s.delay
Strayed(t, n) == IF Sends(t) /\ t.air.ch[1] = "stray" /\ n < 2 THEN n + 1 ELSE n
Observe(in) ==
  /\ visits' = IF Disturbs(in) THEN <<>>
               ELSE Visit(IF g'.hopping_frequency = g.hopping_frequency THEN visits
                          ELSE NoVisits(g'), g')
  /\ since' = SinceLast(g, g', since, in)
  /\ strays' = Strayed(g', strays)

----------------------------------------------------------------------------
Init ==
  /\ g = PowerUp /\ fresh = PowerUp
  /\ journey \in Journeys /\ left = 0
  /\ visits = <<>> /\ since = -1 /\ strays = 0

(* What a Q282 or Q222 finds in packet[14]: any stick or flag of whichever *)
(* protocols ran before, 0 after power-up.                                 *)
FoundVideo(v) ==
  IF KeepsVideo(v) /\ g.protocol # "NONE" THEN (0..1) \X (0..1) ELSE {g.video}

(* Statics of Hubsan and AFHDS2A, and txState of Hubsan and Devo, are as   *)
(* the last binding of the protocol left them.                             *)
StaleTurn(s) == s.protocol \in {"HUBSAN", "DEVO", "AFHDS2A"}

Start ==
  /\ journey # <<>>
  /\ LET v == Head(journey).variant IN
       \E autobind \in BOOLEAN, found \in FoundVideo(v) :
         /\ g' = protocol_init([g EXCEPT !.video = found], v, autobind)
         /\ fresh' = IF StaleTurn(g') THEN g' ELSE protocol_init(PowerUp, v, autobind)
  /\ left' = IF Len(journey) > 1 THEN Head(journey).callbacks ELSE 0
  /\ journey' = Tail(journey)
  /\ visits' = NoVisits(g') /\ since' = -1 /\ strays' = 0

(* A callback of protocol p.  callback relates the globals before and after*)
(* it; the packet before has been seen.                                    *)
Heeds(s) == [s EXCEPT !.air = Silence]
Run(p, callback(_, _), in) ==
  /\ g.protocol = p
  /\ journey = <<>> \/ left > 0
  /\ callback(Heeds(g), g') /\ callback(Heeds(fresh), fresh')
  /\ left' = IF journey = <<>> THEN 0 ELSE left - 1
  /\ Observe(in) /\ UNCHANGED journey

FlySky      == Run("FLYSKY", LAMBDA s, t : ReadFlySky(s, t), "none")
AFHDS2A(in) == Run("AFHDS2A", LAMBDA s, t : ReadAFHDS2A(s, t, in), in)
Hubsan(in)  == Run("HUBSAN", LAMBDA s, t : ReadHubsan(s, t, in), in)
FrSkyD      == Run("FRSKYD", LAMBDA s, t : ReadFrSky_2way(s, t), "none")
FrSkyV      == Run("FRSKYV", LAMBDA s, t : ReadFRSKYV(s, t), "none")
FrSkyX(in)  == Run("FRSKYX", LAMBDA s, t : ReadFrSkyX(s, t, in), in)
SFHSS(in)   == Run("SFHSS", LAMBDA s, t : ReadSFHSS(s, t, in), in)
DSM(in)     == Run("DSM", LAMBDA s, t : ReadDsm(s, t, in), in)
Devo(in)    == Run("DEVO", LAMBDA s, t : devo_callback(s, t, in), in)
WK2x01(in)  == Run("WK2X01", LAMBDA s, t : WK_cb(s, t, in), in)
J6Pro(in)   == Run("J6PRO", LAMBDA s, t : ReadJ6Pro(s, t, in), in)
HiSky       == Run("HISKY", LAMBDA s, t : hisky_cb(s, t), "none")
V2x2(in)    == Run("V2X2", LAMBDA s, t : ReadV2x2(s, t, in), in)
YD717       == Run("YD717", LAMBDA s, t : yd717_callback(s, t), "none")
KN          == Run("KN", LAMBDA s, t : kn_callback(s, t), "none")
Symax       == Run("SYMAX", LAMBDA s, t : symax_callback(s, t), "none")
SLT         == Run("SLT", LAMBDA s, t : SLT_callback(s, t), "none")
CX10(in)    == Run("CX10", LAMBDA s, t : CX10_callback(s, t, in), in)
CG023       == Run("CG023", LAMBDA s, t : CG023_callback(s, t), "none")
Bayang(in)  == Run("BAYANG", LAMBDA s, t : BAYANG_callback(s, t, in), in)
ESky(in)    == Run("ESKY", LAMBDA s, t : ESKY_callback(s, t, in), in)
MT99xx      == Run("MT99XX", LAMBDA s, t : MT99XX_callback(s, t), "none")
MJXQ        == Run("MJXQ", LAMBDA s, t : MJXQ_callback(s, t), "none")
Shenqi(in)  == Run("SHENQI", LAMBDA s, t : SHENQI_callback(s, t, in), in)
FY326(in)   == Run("FY326", LAMBDA s, t : FY326_callback(s, t, in), in)
FQ777       == Run("FQ777", LAMBDA s, t : FQ777_callback(s, t), "none")
Assan(in)   == Run("ASSAN", LAMBDA s, t : ASSAN_callback(s, t, in), in)
Hontai      == Run("HONTAI", LAMBDA s, t : HONTAI_callback(s, t), "none")

(* What a model, another transmitter or the chip may tell a callback.      *)
Answers == {"good", "bad", "none"}
Callback(in) ==
  \/ in = "none" /\ (FlySky \/ FrSkyD \/ FrSkyV \/ HiSky \/ YD717 \/ KN \/ Symax \/ SLT \/ CG023
                     \/ MT99xx \/ MJXQ \/ FQ777 \/ Hontai)
  \/ in \in Answers /\ (J6Pro(in) \/ Shenqi(in) \/ Assan(in))
  \/ in \in Answers \cup {"option"} /\ Hubsan(in)
  \/ in \in Answers \cup {"video"} /\ CX10(in)
  \/ in \in Answers \cup {"settings", "failsafe"} /\ AFHDS2A(in)
  \/ in \in {"good", "none"} /\ (FrSkyX(in) \/ Bayang(in))
  \/ in \in {"good", "few", "many", "none"} /\ DSM(in)
  \/ in \in {"option", "none"} /\ (SFHSS(in) \/ WK2x01(in))
  \/ in \in {"late", "option", "none"} /\ Devo(in)
  \/ in \in {"late", "none"} /\ (V2x2(in) \/ ESky(in))
  \/ in \in Answers \cup {"late"} /\ FY326(in)

Inputs == Answers \cup {"settings", "failsafe", "few", "many", "option", "late", "video"}
Next == Start \/ \E in \in Inputs : Callback(in)
Spec == Init /\ [][Next]_vars

(* The timer goes on calling back, and the chip gets its packets out.  Who *)
(* listens at the other end, a model or a receiver, now and then answers   *)
(* each question of a hand-shake that is asked again and again.            *)
Questions == {"BIND_2", "BIND_4", "BIND_6", "BIND_8"}    \* Of Hubsan; all others ask one.
Listens ==
  g.phase \in BindPhases \cup {"J6PRO_BIND_03_CHECK", "CX10_BIND2", "FY319_BIND1", "FY326_BIND1",
                             "ASSAN_BIND0", "ASSAN_BIND1"} \/ g.protocol = "SHENQI"
FairSpec ==
  /\ Spec
  /\ WF_vars(\E in \in Inputs \ {"late"} : Callback(in))
  /\ SF_vars(Listens /\ Callback("good"))
  /\ \A q \in Questions : SF_vars(g.phase = q /\ Callback("good"))

----------------------------------------------------------------------------
(* Globals, counters and what is observed stay in their types.             *)
TypeOK ==
  /\ {g.bind_done, g.autobind, g.scrambled} \subseteq BOOLEAN
  /\ {g.hopping_frequency_no, g.packet_count, g.packet_sent, g.txState} \subseteq 0..255
  /\ {g.bind_counter, g.counter, g.delay, g.packet_period} \subseteq Nat
  /\ DOMAIN fresh = DOMAIN g /\ fresh.protocol = g.protocol
  /\ left \in Nat /\ since \in Nat \cup {-1} /\ strays \in 0..2
  /\ \A i \in DOMAIN visits : visits[i] \in Nat
  /\ journey \in Seq(Stays) /\ (journey = <<>> => left = 0)

(* A protocol is on the air as it is after power-up, whatever ran before   *)
(* it: nothing it reads was left by another protocol, but for the globals  *)
(* named here that its init does not set: the index of hopping, the packet *)
(* that KN, FrSkyX and HK310 send before they build one (two bytes of each *)
(* packet of HK310 are never built), the turn of Hubsan, Devo and AFHDS2A, *)
(* and what goes on from packet to packet in MT99xx and Q282: the static   *)
(* counts of YZ and LS whole, of the video bits the one that turns.        *)
StaleHop(s) ==
  \/ s.protocol \in {"CX10", "MJXQ", "MT99XX", "FY326"} \/ s.sub_protocol = "H8_3D"
  \/ s.protocol \in {"FRSKYD", "FRSKYX"} /\ ~s.autobind
SendsOld(s) ==
  s.protocol \in {"KN", "FRSKYX"} \/ (s.protocol = "HISKY" /\ s.sub_protocol = "HK310")
CarriesAlike(s, f) ==
  IF KeepsVideo(s) /\ Sends(s) THEN s.air.carries[1] = f.air.carries[1]
  ELSE s.sub_protocol \in {"YZ", "LS"} \/ s.air.carries = f.air.carries
SendsAlike(s, f) ==
  /\ s.bind_done = f.bind_done /\ s.delay = f.delay
  /\ s.air.adr = f.air.adr /\ s.air.code = f.air.code
  /\ StaleHop(s) \/ s.air.ch = f.air.ch
  /\ SendsOld(s) \/ s.air.kind = f.air.kind
  /\ StaleHop(s) \/ SendsOld(s) \/ s.air.says = f.air.says
  /\ CarriesAlike(s, f)
StartsAfresh == StaleTurn(g) \/ SendsAlike(g, fresh)

(* Where an index is stale, one packet at most leaves the hopping table    *)
(* before the index is folded back.                                        *)
OneStray == g.protocol # "ESKY" => strays <= 1

(* While bound every place of the hopping table is used as often as any    *)
(* other, up to the packets a protocol sends on a channel before the next. *)
Repeat(s) ==
  CASE s.protocol \in {"V2X2", "MJXQ", "SYMAX", "FRSKYD", "ASSAN"} \/ s.sub_protocol = "HK310" -> 2
    [] s.protocol = "SLT" -> IF s.sub_protocol = "VISTA" THEN 9 ELSE 3
    [] s.protocol = "KN" -> s.packet_count
    [] s.protocol \in {"SFHSS", "DEVO", "WK2X01"} -> 4
    [] OTHER -> 1
EvenlyUsed == \A i \in DOMAIN visits : visits[i] <= Repeat(g)

(* The first packets of KN, FrSkyX and HK310 are sent as they were left in *)
(* the buffer: by another protocol, when fresh has none to send;           *)
LeftOver == Sends(g) /\ ~Sends(fresh)

(* or by the binding before.  But for them bind packets go to the address  *)
(* receivers listen to while binding, data to the transmitter's own; Devo  *)
(* mixes both kinds until it is bound;                                     *)
BindKinds == {"bind", "bind_9", "ack", "last"}
DataKinds == {"data", "lower", "upper", "empty", "neutral", "sticks", "settings", "failsafe",
              "beacon", "vtx"}
AddressFits ==
  /\ g.air.kind \in BindKinds /\ ~SendsOld(g) => g.air.adr # "own"
  /\ g.air.kind \in DataKinds /\ g.protocol # "DEVO" => g.air.adr # "bind"

(* a packet that names its channel is sent on that channel (but the first  *)
(* packets of SFHSS go out where calibration ended, the bind packets of    *)
(* CX20, and those KN sends before its first data packet, on a channel of  *)
(* their own), and the first packet of a DSM2 pair on the first channel    *)
(* under the first checksum, the second on the second, also when the       *)
(* option changes the number of pairs in 22 ms;                            *)
NamesItsChannel ==
  Sends(g) /\ ~LeftOver =>
    \/ g.air.says \in {Nowhere, g.air.ch}
    \/ g.air.says = <<"SFHSS", 0>> /\ g.air.ch = <<"SFHSS", 29>>
    \/ g.air.kind = "bind" /\ g.air.ch \in {Only("FLYSKY_bind"), Only("KN_bind")}
PairsFit ==
  g.protocol = "DSM" /\ Sends(g) /\ g.air.adr = "own" /\ ~Dsmx(g) =>
    (g.air.code = "first" <=> g.air.ch[2] = 0)

(* and no packet is sent as it was heard from others; but J6Pro does so    *)
(* while it asks, once it has heard a wrong answer, and the left-over      *)
(* first packets of KN, FrSkyX and HK310 may be such.  (FY319 builds its   *)
(* bind packet around seven bytes it heard.)                               *)
Repeats(s) == s.air.kind \in {"heard", "telemetry"}
NothingRepeated ==
  Repeats(g) => LeftOver \/ (g.protocol = "J6PRO" /\ g.phase \in J6Asking)
PacketsFit == AddressFits /\ NamesItsChannel /\ PairsFit /\ NothingRepeated

(* Once a protocol is bound it sends no bind packet until it is started    *)
(* again; SLT, that does, and the old first packets left aside.            *)
BindIsOver ==
  [][g.bind_done /\ g'.air.kind \in BindKinds => g.protocol = "SLT" \/ SendsOld(g)]_vars

(* Packets follow each other at the times the receiver expects, however    *)
(* the callbacks in between are divided.                                   *)
Periods(s) ==
  CASE s.protocol = "SFHSS"   -> {1650, 5150}
    [] s.protocol = "DSM"     -> {4010, 6990, 17990}
    [] s.protocol = "FRSKYX"  -> {9000}
    [] s.protocol = "FRSKYD"  -> {9000, 18000}
    [] s.protocol = "FRSKYV"  -> {9006}
    [] s.protocol = "AFHDS2A" -> {3850}
    [] s.protocol = "HUBSAN"  -> {10000}
    [] s.protocol = "FLYSKY"  -> {1510, 3984}
    [] s.protocol = "HISKY"   -> IF s.sub_protocol = "HK310" THEN {2000, 3000} ELSE {9000}
    [] s.protocol = "DEVO"    -> {2400}
    [] s.protocol = "WK2X01"  -> {2800}
    [] s.protocol = "J6PRO"   -> {3550, 13900}
    [] s.protocol = "V2X2"    -> {4000}
    [] s.protocol = "BAYANG"  -> {2000, 5000}
    [] OTHER -> Nat
KeepsPace ==
  [][Sends(g') /\ since # -1 => since + g.delay \in Periods(g)]_vars

(* However often its hand-shake fails, the protocol chosen last is bound   *)
(* some time; but Devo that starts with its fixed number never is when it  *)
(* is to bind.                                                             *)
Unending(s) == s.protocol = "DEVO" /\ s.prev_option = 1 /\ s.autobind
BindEnds == []<>(g.bind_done \/ journey # <<>> \/ Unending(g))
==============================================================================
