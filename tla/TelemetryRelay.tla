---------------------------- MODULE TelemetryRelay -----------------------------
(***************************************************************************)
(* TelemetryUpdate: what the radio protocols hand over is passed on as     *)
(* SPORT frames (FrSkyX, module SportRelay), as hub frames (a link frame,  *)
(* then the user bytes of FrSkyD in chunks), or as it was received.  All   *)
(* of them share telemetry_link, pass, indx and pktx, so a protocol starts *)
(* with what the one before has left.                                      *)
(*                                                                         *)
(* A call that finds no space in the ring does nothing, and is left out.   *)
(***************************************************************************)
EXTENDS SportRelay

CONSTANTS
  MAX_PKTX,         \* The most user bytes in an answer of FrSkyD: 10,
  USER_MAX_BYTES    \* and in a hub frame: 6.

ASSUME HubAssumption ==
  /\ MAX_PKTX \in Nat /\ USER_MAX_BYTES \in 1 .. MAX_PKTX
  /\ MAX_PKTX <= 2 * USER_MAX_BYTES /\ CHUNK <= MAX_PKTX

VARIABLES
  protocol,
  pktt6,            \* pktt[6] of FrSkyD: the user bytes in pktt.
  prev_index,
  taken,            \* User bytes in pktx, and
  passed,           \* how many of them were passed on.
  mine,             \* pktx holds the bytes of pktt.
  frame             \* What was passed on, since the last answer.

hub == <<pktt6, prev_index, taken, passed, mine, frame>>
relay == <<vars, protocol, hub>>

Framed == {"FRSKYD", "HUBSAN", "BAYANG", "AFHDS2A", "DSM"}
Valid == 1 .. MAX_PKTX
Send(kind) == frame' = Append(frame, kind)
NotOfHub ==
  <<receiver, seq_last_rcvd, counter, pktt, noise, feeding, pktx, output, history, protocol>>
NotOfUser == <<telemetry_lost, telemetry_link, NotOfHub>>

----------------------------------------------------------------------------
(***************************************************************************)
(* What protocols hand over.                                               *)
(***************************************************************************)
\* Of FrSkyD, frsky_check_telemetry.  (Bound: up to one byte too many.)
FrSkyDAnswer(n) ==
  /\ protocol = "FRSKYD"
  /\ telemetry_link' = 1 /\ telemetry_lost' = 0
  /\ pktt6' = n /\ mine' = FALSE /\ frame' = <<>>
  /\ UNCHANGED <<pass, indx, prev_index, taken, passed, NotOfHub>>

\* The others: AFHDS2A raises 2 when its option asks for all that was received.
Kinds(p) == IF p = "AFHDS2A" THEN {1, 2} ELSE {1}
OtherAnswer(kind) ==
  /\ protocol \in Framed \ {"FRSKYD"} /\ kind \in Kinds(protocol)
  /\ telemetry_link' = kind /\ frame' = <<>>
  /\ UNCHANGED <<telemetry_lost, pass, indx, pktt6, prev_index, taken, passed, mine, NotOfHub>>

----------------------------------------------------------------------------
(***************************************************************************)
(* TelemetryUpdate, of all but FrSkyX: the first that applies.             *)
(***************************************************************************)
telem_update(applies, kind) ==
  /\ applies /\ telemetry_link' = 0 /\ Send(kind)
  /\ UNCHANGED <<telemetry_lost, pass, indx, pktt6, prev_index, taken, passed, mine, NotOfHub>>
telem_update_dsm == telem_update(protocol = "DSM" /\ telemetry_link # 0, "DSM")
Forwards == protocol = "AFHDS2A" /\ telemetry_link = 2
telem_update_afhds2a == telem_update(Forwards, "AFHDS2A")
telem_update_frsky ==
  telem_update(protocol \in Framed \ {"DSM"} /\ telemetry_link # 0 /\ ~Forwards, "link")

\* frsky_user_frame, by pass: the first bytes, then the rest.
DoneKeepsLength == pass' = 0 /\ UNCHANGED pktt6
Done == pass' = 0 /\ pktt6' = 0
First(n) ==
  /\ taken' = pktt6 /\ mine' = TRUE /\ prev_index' = pktt6
  /\ indx' = n /\ passed' = n /\ Send("user")
AllAtOnce == pktt6 < USER_MAX_BYTES /\ First(pktt6) /\ Done
FirstChunk ==
  /\ pktt6 >= USER_MAX_BYTES /\ First(USER_MAX_BYTES)
  /\ pass' = 2 /\ UNCHANGED pktt6
Rest == prev_index - indx
SecondChunk ==
  /\ indx' = Rest /\ prev_index' = 0 /\ passed' = passed + Rest
  /\ IF Rest = 0 THEN UNCHANGED frame ELSE Send("user")
  /\ Done
  /\ UNCHANGED <<taken, mine>>
frsky_user_frame ==
  /\ \/ pktt6 \in Valid /\ pass = 0 /\ (AllAtOnce \/ FirstChunk)
     \/ pktt6 \in Valid /\ pass = 2 /\ SecondChunk
     \/ pktt6 \notin Valid /\ pass' = 0 /\ UNCHANGED <<indx, hub>>
  /\ UNCHANGED NotOfUser
telem_update_hub == protocol = "FRSKYD" /\ telemetry_link = 0 /\ frsky_user_frame

----------------------------------------------------------------------------
\* A protocol starts: pass and telemetry_link are reset, pktt is what FrSkyX left:
\* of a damaged answer, any length.
Left == IF protocol = "FRSKYD" THEN 0 .. MAX_PKTX + 1 ELSE {0}
RelayInit ==
  /\ Init
  /\ protocol \in Framed \cup {"FRSKYX"} /\ pktt6 \in Left
  /\ prev_index = 0 /\ taken = 0 /\ passed = 0 /\ mine = FALSE /\ frame = <<>>

OfFrSkyX(action) == protocol = "FRSKYX" /\ action /\ UNCHANGED <<protocol, hub>>
Received == (\E n \in 0 .. MAX_PKTX + 1 : FrSkyDAnswer(n)) \/ \E kind \in {1, 2} : OtherAnswer(kind)
Updated == telem_update_dsm \/ telem_update_afhds2a \/ telem_update_frsky \/ telem_update_hub
RelayNext == OfFrSkyX(Next) \/ Received \/ Updated

\* The timer calls back FrSkyX, and Update_All relays: a slot of SPORT that is due
\* stays so.
RelaySpec ==
  /\ RelayInit /\ [][RelayNext]_relay
  /\ WF_vars(OfFrSkyX(Cycle)) /\ WF_vars(OfFrSkyX(Feed)) /\ SF_vars(OfFrSkyX(sportSendFrame))

----------------------------------------------------------------------------
\* Type correctness, for each protocol.
RelayTypeOK ==
  /\ protocol \in Framed \cup {"FRSKYX"} /\ frame \in Seq({"link", "user", "DSM", "AFHDS2A"})
  /\ protocol = "FRSKYX" => TypeOK
  /\ protocol # "FRSKYX" =>
       /\ telemetry_link \in 0 .. 2 /\ pass \in {0, 2} /\ indx \in 0 .. USER_MAX_BYTES
       /\ pktt6 \in 0 .. MAX_PKTX + 1 /\ prev_index \in 0 .. MAX_PKTX
       /\ taken \in 0 .. MAX_PKTX /\ passed \in 0 .. taken /\ mine \in BOOLEAN

\* Whatever is received while a frame is passed on: each answer is passed on in
\* one frame, of the kind that was asked for.  The user bytes of a packet follow
\* it in as many frames as they take, the second of which is sent even when the
\* next packet has arrived (whose own user bytes are then lost); no packet
\* begins twice, and none that has begun is taken for done before its last byte.
FramesOf(n) == (n + USER_MAX_BYTES - 1) \div USER_MAX_BYTES
Users == Cardinality({i \in DOMAIN frame : frame[i] = "user"})
Others == Len(frame) - Users
RelayedOnce ==
  [][ /\ Others' <= 1 /\ (telemetry_link' # 0 => Others' = 0)
      /\ IF mine' THEN Users' = FramesOf(passed') ELSE Users' <= 1
      /\ telemetry_link = 2 /\ Updated => frame' = <<"AFHDS2A">>
      /\ pktt6 \in Valid /\ pktt6' = 0 /\ Updated => passed' = taken' ]_hub

(***************************************************************************)
(* Why RelayedOnce holds.                                                  *)
(***************************************************************************)
\* What has been passed on since the last answer, and what is in pktx.
HubInStep ==
  /\ telemetry_link # 0 => frame = <<>> /\ ~mine
  /\ telemetry_link = 2 => protocol = "AFHDS2A"
  /\ Others <= 1
  /\ mine => protocol = "FRSKYD" /\ Users = FramesOf(passed)
  /\ ~mine => Users <= 1
  /\ pktt6 \in Valid /\ (pass = 0 \/ ~mine) => Users = 0
  /\ pass = 2 => /\ indx = USER_MAX_BYTES /\ passed = indx
                 /\ prev_index = taken /\ taken >= indx

\* The inductive invariant, for each protocol.
RelayInvariant ==
  /\ RelayTypeOK
  /\ protocol = "FRSKYX" => SportInvariant /\ frame = <<>> /\ ~mine
  /\ protocol # "FRSKYX" => HubInStep

\* However the link was lost, or the receiver of FrSkyX changed: once every answer
\* arrives and is relayed in time, frames are put up, and passed on, again and
\* again.
SportKeepsRelaying == protocol = "FRSKYX" => KeepsRelaying
=============================================================================
