------------------------------ MODULE SportRelay -------------------------------
(***************************************************************************)
(* The SPORT relay of FrSkyX: the receiver's stream of frames comes in     *)
(* numbered chunks, one in each answer; frsky_check_telemetry checks their *)
(* numbers, proces_sport_data cuts the stream into frames, and             *)
(* sportSendFrame passes them on in the slots of the transmitter's bus.    *)
(*                                                                         *)
(* The receiver is external: each of its answers holds the next chunk of   *)
(* the stream and the next number modulo 4, after an 8 when it starts.  On *)
(* the air an answer may be lost, or damaged: the CRC of the CC2500 is off *)
(* and frsky_check_telemetry checks only the address and the length.       *)
(***************************************************************************)
EXTENDS Integers, Sequences, FiniteSetsExt

CONSTANTS
  SIZE,        \* FRSKY_SPORT_PACKET_SIZE: 8.
  Stuffed,     \* The places in a frame of bytes that are stuffed.
  CHUNK,       \* The most bytes in an answer: 6.
  SLOTS,       \* The slots of sport_counter: 36,
  OwnSlots,    \* those of the module's own frames: 0, 2 and 4.
  MISSES       \* Missed answers until the link is lost: 100.

ASSUME SportAssumption ==
  /\ SIZE \in Nat /\ SIZE > 1 /\ Stuffed \subseteq 1 .. SIZE
  /\ CHUNK \in Nat /\ CHUNK <= SIZE
  /\ SLOTS \in Nat /\ OwnSlots \subseteq 0 .. SLOTS - 1 /\ OwnSlots # 0 .. SLOTS - 1
  /\ MISSES \in Nat

\* A frame on the wire: START_STOP, then SIZE bytes, those of Stuffed escaped.
Of(kind, i) == [kind |-> kind, place |-> i]
Byte(i) ==
  IF i \in Stuffed THEN <<Of("escape", i), Of("stuffed", i)>> ELSE <<Of("plain", i)>>
\* The wire up to the byte in a place, and all of it.
UpTo[i \in 0 .. SIZE] ==
  IF i = 0 THEN <<Of("start", 0)>> ELSE UpTo[i - 1] \o Byte(i)
Wire == UpTo[SIZE]

VARIABLES
  receiver,                      \* What it sends next: the place in Wire, the number.
  seq_last_rcvd,
  counter,                       \* Answers missed in a row.
  telemetry_link, telemetry_lost,
  pktt,                          \* Of the chunk to be relayed, what is left,
  noise,                         \* or how many bytes, when it was damaged.
  feeding,                       \* Within the loop over the bytes of pktt.
  pass, indx,
  pktx,                          \* How many frames ago, Old at most, its first byte was
                                 \* sent, and how many bytes are good, next to each other.
  sport,
  copied,                        \* pktx1 holds what pktx holds.
  sport_counter,
  started,                       \* A start byte was processed since sport last rose.
  instep,                        \* The last answer had the number expected.
  gap,                           \* Answers lost since the last one, that will be noticed.
  slipped                        \* A chunk was lost unseen, or damaged, since the last
                                 \* start byte of the receiver.

link     == <<counter, telemetry_link, telemetry_lost, pktt, noise>>
parser   == <<feeding, pass, indx, pktx>>
output   == <<sport, copied, sport_counter>>
history  == <<started, instep, gap, slipped>>
vars == <<receiver, seq_last_rcvd, link, parser, output, history>>

----------------------------------------------------------------------------
(***************************************************************************)
(* The receiver.                                                           *)
(***************************************************************************)
Old == 2
Ages == 0 .. Old
NoneGood == [age |-> Old, good |-> 0]
Older(p, n) == [p EXCEPT !.age = Min({@ + n, Old})]
Crosses(n) == IF receiver.at + n > Len(Wire) THEN 1 ELSE 0
NoChunk == [age |-> 0, at |-> 1, left |-> 0]
Chunk(n) == [age |-> Crosses(n), at |-> receiver.at, left |-> n]
NumberAfter(k) == IF k = 8 THEN 1 ELSE (k + 1) % 4
Advance(n) ==
  /\ receiver' = [at |-> receiver.at + n - Crosses(n) * Len(Wire),
                  number |-> NumberAfter(receiver.number)]
  /\ pktx' = Older(pktx, Crosses(n))

----------------------------------------------------------------------------
(***************************************************************************)
(* ReadFrSkyX in FRSKY_DATA4, once in 9ms.  (seq_last_sent only goes out.) *)
(***************************************************************************)
ExpectedModulo8 == (seq_last_rcvd + 1) % 8
Expected == (seq_last_rcvd + 1) % 4
CheckSequenceNoReset(number) ==
  /\ seq_last_rcvd' = IF number = 8 THEN 0
                      ELSE IF number = Expected THEN Expected ELSE seq_last_rcvd
  /\ UNCHANGED pass
CheckSequence(number) ==
  \/ number = 8 /\ seq_last_rcvd' = 0 /\ pass' = 0
  \/ number = Expected /\ seq_last_rcvd' = Expected /\ UNCHANGED pass
  \/ number \notin {8, Expected} /\ pass' = 0 /\ UNCHANGED seq_last_rcvd

\* An answer with our address and a length that agrees, for a chunk of n bytes:
\* its number is taken.
frsky_check_telemetry(n, number) ==
  /\ ~feeding /\ Advance(n)
  /\ counter' = 0 /\ telemetry_link' = 1 /\ telemetry_lost' = 0
  /\ CheckSequence(number)
  /\ instep' = (number \in {8, Expected} /\ number = receiver.number) /\ gap' = 0
  /\ UNCHANGED <<feeding, indx, output, started>>

\* It comes as it was sent.
Answer(n) ==
  /\ frsky_check_telemetry(n, receiver.number)
  /\ pktt' = Chunk(n) /\ noise' = 0
  /\ slipped' = (slipped \/ telemetry_link = 1)

\* It is damaged: the number may be any (those that are not accepted are alike),
\* and so may the length of the chunk (one over 6 is none) and its bytes.
Numbers == {0, 1, 2, 3, 8}
Another == CHOOSE number \in Numbers : number \notin {8, Expected}
DamagedAnswer(n) ==
  /\ \E number \in {8, Expected, Another} : frsky_check_telemetry(n, number)
  /\ pktt' = [NoChunk EXCEPT !.at = receiver'.at] /\ noise' \in 0 .. CHUNK
  /\ slipped' = TRUE

\* The chunk is lost, or none was sent: up to three in a row are noticed, if the
\* numbers were in step.  (Bound: the chunk before was relayed by the time one is
\* lost.)
LostUnseen == gap' = 0 /\ instep' = FALSE /\ slipped' = TRUE
Lost ==
  \/ instep /\ gap < 3 /\ gap' = gap + 1 /\ UNCHANGED <<instep, slipped>>
  \/ ~(instep /\ gap < 3) /\ LostUnseen
LostOrNone ==
  \/ UNCHANGED <<receiver, pktx, gap, instep, slipped>>
  \/ telemetry_link = 0 /\ (\E n \in 0 .. CHUNK : Advance(n)) /\ Lost

\* FRSKY_DATA4 without an answer; the link is lost after MISSES of them.
Missed ==
  \/ /\ counter < MISSES /\ counter' = counter + 1
     /\ LostOrNone /\ UNCHANGED <<seq_last_rcvd, telemetry_lost>>
  \/ /\ counter = MISSES /\ counter' = 0 /\ seq_last_rcvd' = 8 /\ telemetry_lost' = 1
     /\ UNCHANGED <<receiver, pktx>> \/ \E n \in 0 .. CHUNK : Advance(n)
     /\ LostUnseen
NoAnswer ==
  /\ ~feeding /\ telemetry_link = 0 /\ Missed
  /\ UNCHANGED <<telemetry_link, pktt, noise, feeding, pass, indx, output, started>>

\* An answer that is not our receiver's, or is damaged in its address or length.
ForeignAnswer ==
  /\ ~feeding /\ counter' = 0 /\ LostOrNone
  /\ UNCHANGED <<seq_last_rcvd, telemetry_link, telemetry_lost, pktt, noise,
                 feeding, pass, indx, output, started>>

----------------------------------------------------------------------------
(***************************************************************************)
(* telem_update_sport.                                                     *)
(***************************************************************************)
Wraps == IF pktt.at > Len(Wire) THEN 1 ELSE 0
Data  == Wire[pktt.at - Wraps * Len(Wire)]
DataAge == pktt.age - Wraps

\* A byte of a damaged chunk is of no place.
Damaged(kind) == Of(kind, SIZE + 1)
WaitForStart(byte) ==
  pass' = 1 /\ indx' = 0 /\ slipped' = (byte.place # 0) /\ UNCHANGED pktx
InPlace(byte, kind) ==
  /\ byte = Of(kind, indx + 1)
  /\ indx = 0 \/ (DataAge = pktx.age /\ pktx.good = indx)
Store(byte, kind) ==
  /\ indx' = indx + 1
  /\ pktx' = IF ~InPlace(byte, kind) THEN NoneGood
             ELSE [age |-> IF indx = 0 THEN DataAge ELSE pktx.age, good |-> indx + 1]
  /\ UNCHANGED slipped
Skip(next) == pass' = next /\ UNCHANGED <<indx, pktx, slipped>>

\* The frame is complete, or still is from before.
EndsLate == indx' > SIZE
Ends == indx' >= SIZE
Raises == Ends /\ sport = 0
DoubleBuffer ==
  /\ sport' = IF Raises THEN 1 ELSE sport
  /\ copied' = (Raises \/ (copied /\ indx' \in {0, indx}))
proces_sport_data(byte) ==
  /\ telemetry_link = 1
  /\ \/ pass \in {0, 1} /\ byte.kind = "start" /\ WaitForStart(byte)
     \/ pass = 0 /\ byte.kind # "start" /\ Skip(0)
     \/ pass = 1 /\ byte.kind = "escape" /\ Skip(2)
     \/ pass = 1 /\ byte.kind \in {"plain", "stuffed"} /\ Store(byte, "plain")
        /\ pass' = IF Ends THEN 0 ELSE 1
     \/ pass = 2 /\ Store(byte, "stuffed") /\ pass' = IF Ends THEN 0 ELSE 1
  /\ DoubleBuffer
  /\ started' = (~Raises /\ (started \/ (byte.kind = "start" /\ pass # 2)))
  /\ feeding' = TRUE
  /\ UNCHANGED <<receiver, seq_last_rcvd, counter, telemetry_link, telemetry_lost,
                 sport_counter, instep, gap>>

\* The loop over pktt: a byte of the receiver, or of a damaged chunk, and its end.
FeedData ==
  /\ pktt.left > 0 /\ proces_sport_data(Data)
  /\ pktt' = [pktt EXCEPT !.at = @ + 1, !.left = @ - 1]
  /\ UNCHANGED noise
FeedDamaged ==
  /\ noise > 0 /\ noise' = noise - 1
  /\ \E kind \in {"start", "escape", "plain"} : proces_sport_data(Damaged(kind))
  /\ UNCHANGED pktt
ChunkFed ==
  /\ telemetry_link = 1 /\ pktt.left = 0 /\ noise = 0
  /\ telemetry_link' = 0 /\ pktt' = NoChunk /\ feeding' = FALSE
  /\ UNCHANGED <<receiver, seq_last_rcvd, counter, telemetry_lost, noise,
                 pass, indx, pktx, output, history>>

\* A slot, when the last was SPORT_TIME ago.
sportSendFrame ==
  /\ telemetry_link = 0
  /\ sport_counter' = (sport_counter + 1) % SLOTS
  /\ sport' = IF telemetry_lost = 0 /\ sport_counter' \notin OwnSlots THEN 0 ELSE sport
  /\ UNCHANGED <<receiver, seq_last_rcvd, link, parser, copied, history>>

----------------------------------------------------------------------------
\* protocol_init for another receiver: telemetry_reset, then initFrSkyX.
telemetry_reset ==
  /\ pass' = 0 /\ telemetry_link' = 0 /\ pktt' = NoChunk /\ noise' = 0
  /\ telemetry_lost' = 1
OtherReceiver ==
  /\ ~feeding
  /\ telemetry_reset
  /\ seq_last_rcvd' = 8
  /\ receiver' \in [at : 1 .. Len(Wire), number : {8}]
  /\ pktx' = Older(pktx, Old)
  /\ gap' = 0 /\ instep' = FALSE
  /\ UNCHANGED <<counter, feeding, indx, output, started, slipped>>

Init ==
  /\ receiver = [at |-> 1, number |-> 8]
  /\ seq_last_rcvd = 8
  /\ counter = 0 /\ telemetry_link = 0 /\ telemetry_lost = 1
  /\ pktt = NoChunk /\ noise = 0
  /\ feeding = FALSE /\ pass = 0 /\ indx = 0 /\ pktx = NoneGood
  /\ sport = 0 /\ copied = FALSE /\ sport_counter = 0
  /\ started = FALSE /\ instep = FALSE /\ gap = 0 /\ slipped = FALSE

Answers(n) == telemetry_link = 0 /\ Answer(n)
Overwrites(n) == telemetry_link = 1 /\ Answer(n)
Cycle == NoAnswer \/ ForeignAnswer
         \/ \E n \in 0 .. CHUNK : Answers(n) \/ Overwrites(n) \/ DamagedAnswer(n)
Feed == FeedData \/ FeedDamaged \/ ChunkFed
Next == Cycle \/ Feed \/ sportSendFrame \/ OtherReceiver
Spec == Init /\ [][Next]_vars

----------------------------------------------------------------------------
\* Type correctness: pktx is never indexed past a frame, within one only while
\* one is being collected.
TypeOK ==
  /\ receiver \in [at : 1 .. Len(Wire), number : Numbers]
  /\ seq_last_rcvd \in Numbers /\ feeding \in BOOLEAN /\ noise \in 0 .. CHUNK
  /\ counter \in 0 .. MISSES /\ {telemetry_link, telemetry_lost, sport} \subseteq {0, 1}
  /\ pktt \in [age : {0, 1}, at : Nat \ {0}, left : 0 .. CHUNK]
  /\ pktx \in [age : Ages, good : 0 .. SIZE]
  /\ pass \in 0 .. 2 /\ indx \in 0 .. SIZE
  /\ (pass = 0 \/ indx < SIZE)
  /\ sport_counter \in 0 .. SLOTS - 1

\* What is put up for the transmitter is all of one frame of the receiver, byte
\* by byte: whatever chunks are lost, up to three in a row, and at whichever
\* receiver.  (Not so, until the next start byte of the receiver, when a chunk
\* was overwritten before it was relayed, was lost while the numbers were out of
\* step, or was damaged: the code, which has no CRC, does not see that.)
FramesUnmixed == [][sport = 0 /\ sport' = 1 => pktx'.good = SIZE \/ slipped]_vars

\* A frame is put up a second time only before the next frame has begun to
\* arrive: the parser, which has the old frame's length until then, does so.
NoFrameAgain == [][sport = 0 /\ sport' = 1 /\ started => ~copied]_vars
RelayedWhole == FramesUnmixed /\ NoFrameAgain

(***************************************************************************)
(* Why FramesUnmixed and NoFrameAgain hold.                                *)
(***************************************************************************)
\* A chunk is relayed before the next one can be lost, and joins what the
\* receiver sends next; its first byte is a frame older when it has the end of
\* one.
ChunkJoins ==
  /\ pktt.age = IF pktt.at + pktt.left > Len(Wire) THEN 1 ELSE 0
  /\ telemetry_link = 0 => pktt.left = 0 /\ noise = 0 /\ ~feeding
  /\ noise > 0 => pktt.left = 0 /\ slipped
  /\ telemetry_link = 1 =>
       gap = 0 /\ receiver.at = pktt.at + pktt.left - pktt.age * Len(Wire)

\* In step, the numbers count the chunks lost: up to three are noticed.
NumbersCount ==
  /\ gap \in 0 .. 3 /\ instep \in BOOLEAN /\ (gap > 0 => instep)
  /\ instep => receiver.number = (seq_last_rcvd + 1 + gap) % 4

\* The byte the parser gets next: its place on the wire, and in which frame.
NextAt  == IF telemetry_link = 1 THEN pktt.at - Wraps * Len(Wire) ELSE receiver.at
NextAge == IF telemetry_link = 1 THEN DataAge ELSE 0

\* Unless a chunk was lost unseen, the parser waits for the byte after the last
\* one it stored, of the same frame, and all of those are good; and a frame that
\* was complete stays so.
ParserInStep ==
  ~slipped =>
    /\ pass # 0 /\ gap = 0 =>
         /\ NextAt = Len(UpTo[indx]) + pass
         /\ pass = 2 => indx + 1 \in Stuffed
         /\ indx # 0 => pktx.good = indx /\ pktx.age = NextAge
    /\ indx = SIZE => pktx.good = SIZE

\* Once a start byte has come, pktx1 is only what pktx still holds until the
\* first byte of the next frame.
StartedAfresh ==
  /\ started \in BOOLEAN /\ copied \in BOOLEAN /\ slipped \in BOOLEAN
  /\ started /\ copied => indx = 0

SportInvariant ==
  TypeOK /\ ChunkJoins /\ NumbersCount /\ ParserInStep /\ StartedAfresh

\* However the link was lost, or the receiver changed: once every answer arrives
\* and is relayed in time, frames are put up, and passed on, again and again.
Undisturbed ==
  \/ Feed \/ sportSendFrame
  \/ \E n \in 1 .. CHUNK : Answers(n)
KeepsRelaying == <>[][Undisturbed]_vars => []<>(sport = 1) /\ []<>(sport = 0)
=============================================================================
