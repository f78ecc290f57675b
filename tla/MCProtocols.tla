----------------------------- MODULE MCProtocols ------------------------------
(***************************************************************************)
(* The journeys for TLC.                                                   *)
(***************************************************************************)
EXTENDS ProtocolInvariant

Variant(p, sub, option, id) == [protocol |-> p, sub_protocol |-> sub, option |-> option, id |-> id]
Plain(p, subs) == { Variant(p, sub, 0, 0) : sub \in subs }

All ==
  UNION { Plain("YD717", {"YD717"}), Plain("FQ777", {"FQ777"}),
    Plain("HONTAI", {"FORMAT_HONTAI", "JJRCX1", "FQ777_951"}), Plain("CG023", {"CG023", "YD829", "H8_3D"}),
    Plain("BAYANG", {"BAYANG"}), { Variant("BAYANG", "BAYANG", 1, 0) }, Plain("ESKY", {"ESKY"}),
    Plain("MJXQ", {"WLH08", "X600", "H26D"}), Plain("MT99XX", {"MT99", "YZ", "LS"}),
    Plain("SYMAX", {"SYMAX", "SYMAX5C"}), Plain("V2X2", {"V2X2"}), Plain("SLT", {"SLT", "VISTA"}),
    Plain("HISKY", {"HISKY", "HK310"}), Plain("KN", {"WLTOYS", "FEILUN"}),
    Plain("CX10", {"CX10_GREEN", "CX10_BLUE", "Q282"}), Plain("FY326", {"FY326", "FY319"}),
    Plain("ASSAN", {"ASSAN"}), Plain("SHENQI", {"SHENQI"}), Plain("FLYSKY", {"FLYSKY", "CX20"}),
    Plain("AFHDS2A", {"AFHDS2A"}), Plain("HUBSAN", {"HUBSAN"}),
    Plain("FRSKYD", {"FRSKYD"}), Plain("FRSKYV", {"FRSKYV"}),
    { Variant("FRSKYX", "CH_16", 0, 5), Variant("FRSKYX", "CH_8", 0, 46) },
    { Variant("SFHSS", "SFHSS", 0, code) : code \in {0, 27} },
    { Variant("DSM", "DSM2_22", n, 0) : n \in {6, 12} }, { Variant("DSM", "DSM2_11", 12, 0) },
    { Variant("DSM", "DSMX_22", 6, 0) }, { Variant("DSM", "DSM_AUTO", 12, 0) },
    { Variant("DEVO", "DEVO", o, 0) : o \in {0, 1} },
    { Variant("WK2X01", "WK2801", o, 0) : o \in {0, 1} }, Plain("WK2X01", {"WK2401", "WK2601"}),
    Plain("J6PRO", {"J6PRO"}) }

(* Protocols that leave the scrambling off, an index beyond other tables,  *)
(* and a hand-shake half done, before one variant of each protocol; Devo   *)
(* and Hubsan, whose globals are their own, are not started after others.  *)
Before == { v \in All : v.sub_protocol \in {"YZ", "CG023"} }
After2 ==
  { v \in All : /\ v.protocol \notin {"DEVO", "HUBSAN"} /\ v.id \notin {27, 46}
                /\ v.protocol = "DSM" => v.sub_protocol = "DSM2_22" /\ v.option = 12 }
(* Packets heard, before protocols that send one they have not built;      *)
Heard1 == { v \in All : v.sub_protocol \in {"FRSKYD", "CX10_BLUE"} }
Unbuilt == { v \in All : v.sub_protocol \in {"WLTOYS", "HK310", "CH_16"} }
(* and hand-shakes half done, or packets counted, before their own.  A     *)
(* protocol stays for two callbacks before the next; before itself long    *)
(* enough to be bound and send data, YZ to change its byte once.           *)
Same == { v \in All : \/ v.protocol \in {"HUBSAN", "AFHDS2A"}
                      \/ v.sub_protocol \in {"LS", "YZ", "Q282"} }
Handover(u) ==
  CASE u.protocol = "HUBSAN" -> 15 [] u.protocol = "AFHDS2A" -> 8
    [] u.sub_protocol = "LS" -> 19 [] u.sub_protocol = "YZ" -> 41 [] OTHER -> 5
Stay(v, n) == [variant |-> v, callbacks |-> n]
Two(u, v, n) == <<Stay(u, n), Stay(v, 0)>>
MCJourneys ==
  { <<Stay(v, 0)>> : v \in All } \cup { Two(u, v, 2) : u \in Before, v \in After2 }
    \cup { Two(u, v, 2) : u \in Heard1, v \in Unbuilt } \cup { Two(u, u, Handover(u)) : u \in Same }
==============================================================================
