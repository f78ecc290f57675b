---------------------------- MODULE PpmInput_proofs ----------------------------
(***************************************************************************)
(* PpmInvariant is inductive, hence channels are whole and in place, and   *)
(* the decoder recovers from any noise, for every number of channels and   *)
(* every timing of the signal.                                             *)
(***************************************************************************)
EXTENDS PpmInput, TLAPS

LEMMA Sizes ==
  /\ NUM_CHN \in Nat \ {0} /\ SENT \in Nat \ {0} /\ SEEN \in Nat
  /\ SEEN < SENT /\ SEEN <= NUM_CHN
  /\ PERIOD \in Nat \ {0} /\ SHORT \in Nat \ {0} /\ LONG \in Nat
  /\ SHORT < LONG /\ LONG < PERIOD /\ NESTED \in {0, 1}
BY PpmAssumption

LEMMA WidthsAre ==
  /\ \A w \in Widths(0) : w \in Nat /\ LONG < w /\ w < PERIOD
  /\ \A s \in 1 .. SENT : \A w \in Widths(s) : w \in Nat /\ SHORT <= w /\ w <= LONG
<1>1. \A w \in Gaps : w \in Nat /\ LONG < w /\ w < PERIOD
  <2>1. Gaps \subseteq LONG + 1 .. PERIOD - 1 BY PpmAssumption
  <2> QED BY <2>1, Sizes
<1>2. \A w \in Pulses : w \in Nat /\ SHORT <= w /\ w <= LONG
  <2>1. Pulses \subseteq SHORT .. LONG BY PpmAssumption
  <2> QED BY <2>1, Sizes
<1> QED BY <1>1, <1>2 DEF Widths

Edges == [cur : 0 .. PERIOD - 1, value : Values, step : Steps, to : Places]

\* The interrupt at an edge, before its first step.
LEMMA InterruptIs ==
  ASSUME NEW cur \in 0 .. PERIOD - 1, NEW value \in Values
  PROVE  Interrupt(cur, value) \in Edges
BY Sizes DEF Interrupt, Edges, Steps, Places

\* Time stays within the timer's period, and is exact below it.
LEMMA Wraps ==
  /\ \A d \in Int : d % PERIOD \in 0 .. PERIOD - 1
  /\ \A d \in 0 .. PERIOD - 1 : d % PERIOD = d
  /\ \A d \in 1 .. PERIOD : (PERIOD - 1 + d) % PERIOD = d - 1
<1>1. PICK p \in Nat \ {0} : p = PERIOD BY Sizes
<1>2. \A d \in Int : d % p \in 0 .. p - 1 OBVIOUS
<1>3. \A d \in 0 .. p - 1 : d % p = d OBVIOUS
<1>4. ASSUME NEW d \in 1 .. p PROVE (p - 1 + d) % p = d - 1
  <2>1. PICK e \in 0 .. p - 1 : e = d - 1 OBVIOUS
  <2>2. p - 1 + d = p + e BY <2>1
  <2>3. (p + e) % p = e BY <2>1
  <2> QED BY <2>1, <2>2, <2>3
<1> QED BY <1>1, <1>2, <1>3, <1>4

\* What an edge adds to the interrupts that run.
LEMMA EdgeIs ==
  ASSUME NEW cur, NEW value, Edge(cur, value), isr \in Seq(Edges),
         Interrupt(cur, value) \in Edges
  PROVE  /\ isr' \in Seq(Edges) /\ isr' # <<>> /\ Len(isr') = Len(isr) + 1
         /\ isr'[1] = Interrupt(cur, value)
         /\ isr = <<>> => Len(isr') = 1
         /\ Len(isr) = 1 => isr'[2] = isr[1]
BY DEF Edge

-----------------------------------------------------------------------------
(***************************************************************************)
(* Types.                                                                  *)
(***************************************************************************)
\* By what changes them: the sender and the edges it makes; the decoder; and the
\* main program.
SenderOK ==
  /\ slot \in 0 .. SENT /\ width \in Nat /\ run \in 0 .. width
  /\ odd \in {0, 1} /\ clean \in 0 .. 3 /\ harm \in {0, 1}
  /\ since \in 0 .. PERIOD - 1 /\ isr \in Seq(Edges) /\ Len(isr) <= 1 + NESTED
DecoderOK ==
  /\ chan \in 0 .. NUM_CHN + 1 + NESTED /\ bad_frame \in {0, 1}
  /\ PPM_data \in [Places -> Values]
MainOK ==
  /\ PPM_FLAG \in {0, 1} /\ masked \in {0, 1} /\ turned \in {0, 1}
  /\ INPUT_SIGNAL \in {0, 1} /\ lo \in Values /\ i \in Channels
  /\ Servo_data \in [Channels -> Values \X Values]

LEMMA TypeParts == TypeOK <=> SenderOK /\ DecoderOK /\ MainOK
BY DEF TypeOK, SenderOK, DecoderOK, MainOK, Edges

\* Which steps leave which part alone.
LEMMA ReceiverLeaves ==
  Receiver => UNCHANGED <<chan, bad_frame, PPM_data, PPM_FLAG, pc, i, lo, masked,
                          Servo_data, INPUT_SIGNAL, turned>>
BY DEF Receiver, PulseEnds, NoiseEdge, NestedEdge, Dropout, decoder, copying

LEMMA DecoderLeaves ==
  PPM_decode => UNCHANGED <<slot, width, run, odd, noise, clean, harm, pc, i, lo, masked,
                            Servo_data, INPUT_SIGNAL, turned>>
BY DEF PPM_decode, Glitch, StartOfFrame, ResetChan, OpenFrame, Ignored, Accept, LoadChan,
       StoreChannel, CountChannel, CloseFrame, LeaveISR, sender, decoder, copying

LEMMA MainLeaves ==
  Main => isr = <<>> /\ UNCHANGED <<slot, width, run, odd, noise, clean, harm, since, isr,
                                    chan, bad_frame, PPM_data>>
BY DEF Main, FrameReady, NoFrame, Mask, ReadLow, ReadHigh, Unmask, PPM_FLAG_off,
       update_channels_aux, Callback, At, frame, sender, decoder

LEMMA ReceiverKeepsTypes ==
  ASSUME SenderOK, Receiver
  PROVE  SenderOK'
<1>1. CASE PulseEnds
  <2>1. /\ isr = <<>> /\ since' = (since + (width - run)) % PERIOD
        /\ Edge(since', IF slot > 0 /\ since' = width THEN <<slot - 1, odd>> ELSE Noise)
        /\ slot' = (slot + 1) % (SENT + 1) /\ width' \in Widths(slot') /\ run' = 0
        /\ odd' = IF slot' = 0 THEN 1 - odd ELSE odd
        /\ clean' = IF slot = 0 /\ clean < 3 THEN clean + 1 ELSE clean
        /\ harm' = harm
    BY <1>1 DEF PulseEnds, Wait
  <2>2. since' \in 0 .. PERIOD - 1
    <3>1. since + (width - run) \in Int BY Sizes DEF SenderOK
    <3> QED BY <2>1, <3>1, Wraps
  <2>3. slot' \in 0 .. SENT
    <3>1. PICK m \in Nat \ {0}, k \in Nat : m = SENT + 1 /\ k = slot + 1
      BY Sizes DEF SenderOK
    <3>2. k % m \in 0 .. m - 1 BY <3>1
    <3> QED BY <2>1, <3>1, <3>2, Sizes
  <2>4. width' \in Nat
    <3>1. slot' = 0 \/ slot' \in 1 .. SENT BY <2>3, Sizes
    <3> QED BY <2>1, <3>1, WidthsAre
  <2>5. (IF slot > 0 /\ since' = width THEN <<slot - 1, odd>> ELSE Noise) \in Values
    <3>1. slot > 0 => slot - 1 \in 0 .. SENT - 1 BY Sizes DEF SenderOK
    <3> QED BY <3>1 DEF Values, SenderOK
  <2>6. isr' \in Seq(Edges) /\ Len(isr') = 1 /\ 1 <= 1 + NESTED
    <3>1. \A v \in Values : Interrupt(since', v) \in Edges
      BY <2>2, InterruptIs
    <3>2. isr \in Seq(Edges) BY DEF SenderOK
    <3> QED BY <2>1, <2>5, <3>1, <3>2, EdgeIs, Sizes
  <2>7. run' \in 0 .. width' BY <2>1, <2>4
  <2> QED BY <2>1, <2>2, <2>3, <2>4, <2>6, <2>7 DEF SenderOK
<1>2. CASE NoiseEdge
  <2>1. PICK at \in NoiseAt :
          /\ run < at /\ at < width /\ isr = <<>>
          /\ since' = (since + (at - run)) % PERIOD /\ run' = at
          /\ Edge(since', Noise) /\ clean' = 0 /\ harm' \in {harm, 1}
          /\ UNCHANGED <<slot, width, odd>>
    BY <1>2 DEF NoiseEdge, Wait, Disturb
  <2>2. at \in Nat BY PpmAssumption
  <2>3. since' \in 0 .. PERIOD - 1
    <3>1. since + (at - run) \in Int BY <2>2, Sizes DEF SenderOK
    <3> QED BY <2>1, <3>1, Wraps
  <2>4. isr' \in Seq(Edges) /\ Len(isr') = 1 /\ 1 <= 1 + NESTED
    <3>1. Noise \in Values BY DEF Values
    <3>2. Interrupt(since', Noise) \in Edges BY <2>3, <3>1, InterruptIs
    <3>3. isr \in Seq(Edges) BY DEF SenderOK
    <3> QED BY <2>1, <3>2, <3>3, EdgeIs, Sizes
  <2>5. run' \in 0 .. width' BY <2>1, <2>2 DEF SenderOK
  <2> QED BY <2>1, <2>3, <2>4, <2>5 DEF SenderOK
<1>3. CASE NestedEdge
  <2>1. /\ Len(isr) = 1 /\ Edge(since, Noise) /\ clean' = 0 /\ harm' \in {harm, 1}
        /\ NESTED = 1
        /\ UNCHANGED <<slot, width, run, odd, since>>
    BY <1>3 DEF NestedEdge, Disturb
  <2>2. isr' \in Seq(Edges) /\ Len(isr') = 2
    <3>1. Noise \in Values BY DEF Values
    <3>2. Interrupt(since, Noise) \in Edges
      BY <3>1, InterruptIs DEF SenderOK
    <3>3. isr \in Seq(Edges) BY DEF SenderOK
    <3> QED BY <2>1, <3>2, <3>3, EdgeIs
  <2> QED BY <2>1, <2>2 DEF SenderOK
<1>4. CASE Dropout
  <2>1. /\ slot' = 0 /\ width' \in Nat /\ run' = 0 /\ clean' = 0 /\ harm' \in {harm, 1}
        /\ UNCHANGED <<odd, since, isr>>
    BY <1>4, PpmAssumption DEF Dropout, Disturb
  <2> QED BY <2>1, Sizes DEF SenderOK
<1> QED BY <1>1, <1>2, <1>3, <1>4 DEF Receiver

\* How the interrupts that run change: the innermost takes a step, or leaves.
LEMMA IsrSteps ==
  ASSUME isr \in Seq(Edges), isr # <<>>
  PROVE  /\ isr[1] \in Edges /\ Len(isr) \in Nat \ {0}
         /\ Tail(isr) \in Seq(Edges) /\ Len(Tail(isr)) = Len(isr) - 1
         /\ Len(isr) = 1 => Tail(isr) = <<>>
         /\ Len(isr) = 2 => Tail(isr)[1] = isr[2]
<1>1. /\ isr[1] \in Edges /\ Len(isr) \in Nat \ {0}
      /\ DOMAIN isr = 1 .. Len(isr)
  OBVIOUS
<1>2. /\ Tail(isr) \in Seq(Edges) /\ Len(Tail(isr)) = Len(isr) - 1
      /\ Len(isr) = 1 => Tail(isr) = <<>>
  BY <1>1
<1>3. ASSUME Len(isr) = 2 PROVE Tail(isr)[1] = isr[2]
  <2>1. 1 \in 1 .. Len(isr) - 1 /\ 1 + 1 = 2 BY <1>3
  <2>2. Tail(isr)[1] = isr[1 + 1] BY <2>1
  <2> QED BY <2>1, <2>2
<1> QED BY <1>1, <1>2, <1>3

Onwards(s, to) ==
  /\ isr' \in Seq(Edges) /\ isr' # <<>> /\ Len(isr') = Len(isr)
  /\ isr'[1].cur = isr[1].cur /\ isr'[1].value = isr[1].value
  /\ isr'[1].step = s /\ isr'[1].to = to
  /\ \A k \in 2 .. Len(isr) : isr'[k] = isr[k]

LEMMA GoesIs ==
  ASSUME isr \in Seq(Edges), isr # <<>>, NEW s \in Steps, Goes(s)
  PROVE  Onwards(s, isr[1].to)
<1>1. Len(isr) \in Nat \ {0} /\ isr[1] \in Edges /\ DOMAIN isr = 1 .. Len(isr)
  OBVIOUS
<1>2. isr' = [isr EXCEPT ![1] = [isr[1] EXCEPT !.step = s]] BY DEF Goes
<1>3. PICK e : e = [isr[1] EXCEPT !.step = s] OBVIOUS
<1>4. /\ e \in Edges /\ e.cur = isr[1].cur /\ e.value = isr[1].value
      /\ e.step = s /\ e.to = isr[1].to
  BY <1>1, <1>3 DEF Edges
<1>5. isr' = [isr EXCEPT ![1] = e] BY <1>2, <1>3
<1>6. isr' \in Seq(Edges) /\ Len(isr') = Len(isr) BY <1>1, <1>4, <1>5
<1>7. isr'[1] = e /\ \A k \in 2 .. Len(isr) : isr'[k] = isr[k] BY <1>1, <1>5
<1> QED BY <1>1, <1>4, <1>6, <1>7 DEF Onwards

LEMMA TakesIs ==
  ASSUME isr \in Seq(Edges), isr # <<>>, NEW to \in Places, Takes(to)
  PROVE  Onwards("store", to)
<1>1. Len(isr) \in Nat \ {0} /\ isr[1] \in Edges /\ DOMAIN isr = 1 .. Len(isr)
  OBVIOUS
<1>2. isr' = [isr EXCEPT ![1] = [isr[1] EXCEPT !.step = "store", !.to = to]]
  BY <1>1 DEF Takes
<1>3. PICK e : e = [isr[1] EXCEPT !.step = "store", !.to = to] OBVIOUS
<1>4. /\ e \in Edges /\ e.cur = isr[1].cur /\ e.value = isr[1].value
      /\ e.step = "store" /\ e.to = to
  BY <1>1, <1>3 DEF Edges, Steps
<1>5. isr' = [isr EXCEPT ![1] = e] BY <1>2, <1>3
<1>6. isr' \in Seq(Edges) /\ Len(isr') = Len(isr) BY <1>1, <1>4, <1>5
<1>7. isr'[1] = e /\ \A k \in 2 .. Len(isr) : isr'[k] = isr[k] BY <1>1, <1>5
<1> QED BY <1>1, <1>4, <1>6, <1>7 DEF Onwards

\* The step the innermost interrupt is at, and the one it goes to.
Moves ==
  \/ Step("body") /\ \E s \in {"leave", "first", "load"} : Onwards(s, isr[1].to)
  \/ Step("first") /\ Onwards("open", isr[1].to)
  \/ Step("load") /\ Onwards("store", chan)
  \/ Step("store") /\ Onwards("count", isr[1].to)
  \/ Step("count") /\ \E s \in {"close", "leave"} : Onwards(s, isr[1].to)
  \/ (Step("open") \/ Step("close")) /\ Onwards("leave", isr[1].to)

LEMMA DecoderRuns == PPM_decode => isr # <<>>
BY DEF PPM_decode, Glitch, StartOfFrame, ResetChan, OpenFrame, Ignored, IsPulse, Accept,
       LoadChan, StoreChannel, CountChannel, CloseFrame, LeaveISR, Body, Step

LEMMA DecoderMoves ==
  ASSUME isr \in Seq(Edges), RoomOK, DecoderOK, PPM_decode, ~LeaveISR
  PROVE  Moves /\ since' = since
<1>1. isr # <<>> BY DecoderRuns
<1>2. \A s \in Steps : Goes(s) => Onwards(s, isr[1].to) BY <1>1, GoesIs
<1> USE <1>1, <1>2 DEF Moves, Steps
<1>3. CASE Glitch BY <1>3 DEF Glitch, Body
<1>4. CASE StartOfFrame BY <1>4 DEF StartOfFrame, Body
<1>5. CASE ResetChan BY <1>5 DEF ResetChan
<1>6. CASE OpenFrame BY <1>6 DEF OpenFrame
<1>7. CASE Ignored BY <1>7 DEF Ignored, IsPulse, Body
<1>8. CASE Accept BY <1>8 DEF Accept, IsPulse, Body
<1>9. CASE LoadChan
  <2>1. chan \in Places
    <3>1. In(1, Storing) BY <1>1, <1>9, IsrSteps DEF LoadChan, Step, In, Storing
    <3> QED BY <3>1, Sizes DEF RoomOK, DecoderOK, Places
  <2> QED BY <1>9, <2>1, TakesIs DEF LoadChan
<1>10. CASE StoreChannel BY <1>10 DEF StoreChannel
<1>11. CASE CountChannel BY <1>11 DEF CountChannel
<1>12. CASE CloseFrame BY <1>12 DEF CloseFrame
<1> QED
  BY <1>3, <1>4, <1>5, <1>6, <1>7, <1>8, <1>9, <1>10, <1>11, <1>12 DEF PPM_decode

\* Where a step stores, and how far it counts.
LEMMA StepsStay ==
  ASSUME isr \in Seq(Edges), isr # <<>>, RoomOK, DecoderOK, PPM_decode
  PROVE  DecoderOK'
<1>1. isr[1] \in Edges /\ Len(isr) \in Nat \ {0} BY IsrSteps
<1>2. CASE StoreChannel
  <2>1. /\ PPM_data' = [PPM_data EXCEPT ![isr[1].to] = isr[1].value]
        /\ UNCHANGED <<chan, bad_frame>>
    BY <1>2 DEF StoreChannel
  <2>2. isr[1].to \in Places /\ isr[1].value \in Values BY <1>1 DEF Edges
  <2> QED BY <2>1, <2>2 DEF DecoderOK
<1>3. CASE CountChannel
  <2>1. PICK c \in {isr[1].to, chan} : chan' = c + 1
    BY <1>3 DEF CountChannel
  <2>2. UNCHANGED <<PPM_data, bad_frame>> BY <1>3 DEF CountChannel
  <2>3. In(1, Storing) BY <1>1, <1>3 DEF CountChannel, Step, In, Storing
  <2>4. c \in Places
    <3>1. chan <= NUM_CHN + NESTED BY <2>3 DEF RoomOK
    <3> QED BY <1>1, <2>1, <3>1, Sizes DEF Edges, DecoderOK, Places
  <2> QED BY <2>1, <2>2, <2>4, Sizes DEF DecoderOK, Places
<1>4. CASE ResetChan BY <1>4, Sizes DEF ResetChan, FirstChannel, DecoderOK
<1>5. CASE Glitch \/ OpenFrame \/ CloseFrame
  BY <1>5 DEF Glitch, OpenFrame, CloseFrame, DecoderOK
<1>6. CASE StartOfFrame \/ Ignored \/ Accept \/ LoadChan \/ LeaveISR
  BY <1>6 DEF StartOfFrame, Ignored, Accept, LoadChan, LeaveISR, decoder, DecoderOK
<1> QED BY <1>2, <1>3, <1>4, <1>5, <1>6 DEF PPM_decode

LEMMA DecoderKeepsTypes ==
  ASSUME SenderOK, DecoderOK, RoomOK, PPM_FLAG \in {0, 1}, PPM_decode
  PROVE  SenderOK' /\ DecoderOK' /\ PPM_FLAG' \in {0, 1}
<1>1. isr # <<>> /\ isr \in Seq(Edges) BY DecoderRuns DEF SenderOK
<1>2. UNCHANGED <<slot, width, run, odd, clean, harm>> BY DecoderLeaves
<1>3. SenderOK'
  <2>1. CASE LeaveISR
    <3>1. since' \in {since, (since - Cur) % PERIOD} /\ isr' = Tail(isr)
      BY <2>1 DEF LeaveISR, Moved, Overwritten
    <3>2. since - Cur \in Int BY <1>1, IsrSteps, Sizes DEF Cur, SenderOK, Edges
    <3>3. since' \in 0 .. PERIOD - 1 BY <3>1, <3>2, Wraps DEF SenderOK
    <3>4. isr' \in Seq(Edges) /\ Len(isr') = Len(isr) - 1 /\ Len(isr) \in Nat
      BY <1>1, <3>1, IsrSteps
    <3>5. Len(isr') <= 1 + NESTED BY <3>4, Sizes DEF SenderOK
    <3> QED BY <1>2, <3>3, <3>4, <3>5 DEF SenderOK
  <2>2. CASE ~LeaveISR
    <3>1. Moves /\ since' = since BY <1>1, <2>2, DecoderMoves
    <3>2. isr' \in Seq(Edges) /\ Len(isr') = Len(isr)
      BY <3>1 DEF Moves, Onwards
    <3> QED BY <1>2, <3>1, <3>2 DEF SenderOK
  <2> QED BY <2>1, <2>2
<1>4. DecoderOK' BY <1>1, StepsStay
<1>5. PPM_FLAG' \in {0, 1}
  BY DEF PPM_decode, Glitch, StartOfFrame, ResetChan, OpenFrame, Ignored, Accept, LoadChan,
         StoreChannel, CountChannel, CloseFrame, LeaveISR
<1> QED BY <1>3, <1>4, <1>5

LEMMA MainKeepsTypes ==
  ASSUME DecoderOK, MainOK, Main
  PROVE  MainOK'
<1>1. i \in 0 .. NUM_CHN - 1 /\ PPM_data[i] \in Values
  BY Sizes DEF MainOK, DecoderOK, Channels, Places
<1>2. 0 \in Channels BY Sizes DEF Channels
<1>3. CASE FrameReady BY <1>2, <1>3 DEF FrameReady, MainOK
<1>4. CASE NoFrame \/ Callback BY <1>4 DEF NoFrame, Callback, copying, MainOK
<1>5. CASE Mask BY <1>5 DEF Mask, Cli, MainOK
<1>6. CASE ReadLow BY <1>1, <1>6 DEF ReadLow, MainOK
<1>7. CASE ReadHigh
  <2>1. /\ Servo_data' = [Servo_data EXCEPT ![i] = <<lo, PPM_data[i]>>]
        /\ turned' \in {turned, 0}
        /\ UNCHANGED <<PPM_FLAG, i, lo, masked, INPUT_SIGNAL>>
    BY <1>7 DEF ReadHigh
  <2>2. <<lo, PPM_data[i]>> \in Values \X Values BY <1>1 DEF MainOK
  <2>3. Servo_data' \in [Channels -> Values \X Values] BY <2>1, <2>2 DEF MainOK
  <2>4. turned' \in {0, 1} BY <2>1 DEF MainOK
  <2> QED BY <2>1, <2>3, <2>4 DEF MainOK
<1>8. CASE Unmask
  <2>1. /\ masked' = 0 /\ i' = IF i + 1 < NUM_CHN THEN i + 1 ELSE 0
        /\ UNCHANGED <<PPM_FLAG, lo, Servo_data, INPUT_SIGNAL, turned>>
    BY <1>8 DEF Unmask
  <2>2. i' \in Channels BY <1>1, <1>2, <2>1, Sizes DEF Channels
  <2> QED BY <2>1, <2>2 DEF MainOK
<1>9. CASE PPM_FLAG_off BY <1>9 DEF PPM_FLAG_off, MainOK
<1>10. CASE update_channels_aux
  <2>1. /\ turned' = (turned + REVERSE) % 2
        /\ UNCHANGED <<PPM_FLAG, i, lo, masked, Servo_data, INPUT_SIGNAL>>
    BY <1>10 DEF update_channels_aux
  <2>2. REVERSE \in {0, 1} BY PpmAssumption
  <2>3. turned' \in {0, 1} BY <2>1, <2>2 DEF MainOK
  <2> QED BY <2>1, <2>3 DEF MainOK
<1> QED BY <1>3, <1>4, <1>5, <1>6, <1>7, <1>8, <1>9, <1>10 DEF Main

LEMMA TypeSteps ==
  ASSUME TypeOK, RoomOK, Next
  PROVE  TypeOK'
<1>1. SenderOK /\ DecoderOK /\ MainOK BY TypeParts
<1>2. CASE Receiver
  <2>1. SenderOK' BY <1>1, <1>2, ReceiverKeepsTypes
  <2>2. DecoderOK' BY <1>1, <1>2, ReceiverLeaves DEF DecoderOK
  <2>3. MainOK' BY <1>1, <1>2, ReceiverLeaves DEF MainOK
  <2> QED BY <2>1, <2>2, <2>3, TypeParts, PTL
<1>3. CASE PPM_decode
  <2>1. SenderOK' /\ DecoderOK' /\ PPM_FLAG' \in {0, 1}
    BY <1>1, <1>3, DecoderKeepsTypes DEF MainOK
  <2>2. MainOK' BY <1>1, <1>3, <2>1, DecoderLeaves DEF MainOK
  <2> QED BY <2>1, <2>2, TypeParts, PTL
<1>4. CASE Main
  <2>1. MainOK' BY <1>1, <1>4, MainKeepsTypes
  <2>2. SenderOK' BY <1>1, <1>4, MainLeaves DEF SenderOK
  <2>3. DecoderOK' BY <1>1, <1>4, MainLeaves DEF DecoderOK
  <2> QED BY <2>1, <2>2, <2>3, TypeParts, PTL
<1> QED BY <1>2, <1>3, <1>4 DEF Next

\* A single edge, and what it shows.
LEMMA FirstEdge ==
  ASSUME NEW cur, NEW value, Edge(cur, value), isr = <<>>
  PROVE  /\ isr' # <<>> /\ Len(isr') = 1 /\ Body' /\ Cur' = cur
         /\ isr'[1].value = value /\ isr'[1].cur = cur /\ isr'[1].step = "body"
<1>1. isr' = <<Interrupt(cur, value)>> BY DEF Edge
<1>2. /\ isr'[1] = Interrupt(cur, value)
      /\ isr' # <<>> /\ Len(isr') = 1
  BY <1>1
<1>3. /\ Interrupt(cur, value).value = value /\ Interrupt(cur, value).cur = cur
      /\ Interrupt(cur, value).step = "body"
  BY DEF Interrupt
<1> QED BY <1>2, <1>3 DEF Body, Step, Cur

-----------------------------------------------------------------------------
(***************************************************************************)
(* Room.                                                                   *)
(***************************************************************************)
\* What the steps of the interrupts that run are after one.
LEMMA InIs ==
  ASSUME isr \in Seq(Edges), isr # <<>>
  PROVE  /\ \A S : In(1, S) <=> isr[1].step \in S
         /\ \A s : Step(s) <=> isr[1].step = s
         /\ \A s, to : Onwards(s, to) =>
              /\ \A S : In(1, S)' <=> s \in S
              /\ \A S : In(2, S)' <=> In(2, S)
              /\ Len(isr') = Len(isr) /\ isr'[1].cur = isr[1].cur /\ isr'[1].to = to
              /\ Len(isr) = 2 => isr'[2] = isr[2]
<1>1. Len(isr) \in Nat \ {0} BY IsrSteps
<1>2. \A S : In(1, S) <=> isr[1].step \in S BY <1>1 DEF In
<1>3. \A s : Step(s) <=> isr[1].step = s BY DEF Step
<1>4. ASSUME NEW s, NEW to, Onwards(s, to)
      PROVE  /\ \A S : In(1, S)' <=> s \in S
             /\ \A S : In(2, S)' <=> In(2, S)
             /\ Len(isr') = Len(isr) /\ isr'[1].cur = isr[1].cur /\ isr'[1].to = to
             /\ Len(isr) = 2 => isr'[2] = isr[2]
  <2>1. /\ Len(isr') = Len(isr) /\ isr'[1].step = s /\ isr'[1].to = to
        /\ \A k \in 2 .. Len(isr) : isr'[k] = isr[k]
        /\ isr'[1].cur = isr[1].cur
    BY <1>4 DEF Onwards
  <2>2. Len(isr) = 2 => isr'[2] = isr[2] BY <1>1, <2>1
  <2>3. \A S : In(1, S)' <=> s \in S BY <1>1, <2>1 DEF In
  <2>4. \A S : In(2, S)' <=> In(2, S) BY <1>1, <2>1 DEF In
  <2> QED BY <2>1, <2>2, <2>3, <2>4
<1> QED BY <1>2, <1>3, <1>4

LEMMA EdgeKeepsRoom ==
  ASSUME TypeOK, RoomOK, Receiver
  PROVE  RoomOK'
<1>1. /\ isr \in Seq(Edges) /\ Len(isr) \in Nat /\ chan \in Nat /\ since \in Nat
  BY Sizes, TypeParts DEF SenderOK, DecoderOK
<1>2. UNCHANGED <<chan, bad_frame>> BY ReceiverLeaves
<1>3. CASE Dropout BY <1>2, <1>3 DEF Dropout, RoomOK, In, Closing
<1>4. CASE PulseEnds \/ NoiseEdge
  <2>1. /\ isr = <<>>
        /\ \E value : Edge(since', value)
    BY <1>4 DEF PulseEnds, NoiseEdge
  <2>2. /\ Len(isr') = 1 /\ isr'[1].cur = since' /\ isr'[1].step = "body"
    BY <2>1, FirstEdge
  <2>3. Closing(1) = 0 /\ Closing(2) = 0 BY <2>1 DEF Closing, In
  <2>4. Closing(1)' = 0 /\ Closing(2)' = 0 BY <2>2 DEF Closing, In
  <2>5. \A S : ~In(2, S)' BY <2>2 DEF In
  <2>6. \A S : In(1, S)' => "body" \in S BY <2>2 DEF In
  <2> QED BY <1>1, <1>2, <2>2, <2>3, <2>4, <2>5, <2>6, Sizes DEF RoomOK, Storing
<1>5. CASE NestedEdge
  <2>1. Len(isr) = 1 /\ Edge(since, Noise) /\ since' = since
    BY <1>5 DEF NestedEdge
  <2>2. Interrupt(since, Noise) \in Edges
    BY InterruptIs DEF TypeOK, Values
  <2>3. /\ Len(isr') = 2 /\ isr'[1] = Interrupt(since, Noise) /\ isr'[2] = isr[1]
    BY <1>1, <2>1, <2>2, EdgeIs
  <2>4. isr'[1].cur = since /\ isr'[1].step = "body" BY <2>3 DEF Interrupt
  <2>5. \A S : In(2, S)' <=> In(1, S) BY <2>1, <2>3 DEF In
  <2>6. \A S : In(1, S)' <=> "body" \in S BY <2>3, <2>4 DEF In
  <2>7. Closing(1)' = 0 /\ Closing(2)' = Closing(1) /\ Closing(2) = 0
    <3>1. In(2, {"close"})' <=> In(1, {"close"}) BY <2>5
    <3>2. ~In(1, {"close"})' BY <2>6
    <3>3. ~In(2, {"close"}) BY <2>1 DEF In
    <3> QED BY <3>1, <3>2, <3>3 DEF Closing
  <2>8. Closing(1) \in {0, 1} BY DEF Closing
  <2>9. /\ Len(isr') # 1
        /\ Len(isr') = 2 => since' = isr'[1].cur /\ since' \in {0, isr'[2].cur}
    BY <2>1, <2>3, <2>4 DEF RoomOK
  <2>10. bad_frame' = 0 => chan' <= NUM_CHN + Closing(1)' + Closing(2)'
    BY <1>1, <1>2, <2>7, <2>8, Sizes DEF RoomOK
  <2>11. ASSUME NEW k \in {1, 2}
         PROVE
       /\ In(k, Storing \cup {"close"})' => SHORT <= isr'[k].cur /\ isr'[k].cur <= LONG
       /\ In(k, {"first", "open"})' => isr'[k].cur > LONG
       /\ In(k, {"open"})' => chan' = 0
       /\ In(k, Storing)' => chan' <= NUM_CHN + NESTED
       /\ In(k, {"store", "count"})' /\ bad_frame' = 0 =>
            isr'[k].to <= NUM_CHN + Closing(1)' + Closing(2)'
    <3>1. CASE k = 1 BY <2>6, <3>1 DEF Storing
    <3>2. CASE k = 2
      <4>1. NUM_CHN + Closing(1) + Closing(2) = NUM_CHN + Closing(1)' + Closing(2)'
        BY <2>7, <2>8, Sizes
      <4> QED BY <1>2, <2>3, <2>5, <3>2, <4>1 DEF RoomOK
    <3> QED BY <3>1, <3>2
  <2>12. ~In(1, Storing)' BY <2>6 DEF Storing
  <2> QED BY <2>9, <2>10, <2>11, <2>12 DEF RoomOK
<1> QED BY <1>3, <1>4, <1>5 DEF Receiver

LEMMA LeavingKeepsRoom ==
  ASSUME TypeOK, RoomOK, LeaveISR
  PROVE  RoomOK'
<1>1. /\ isr \in Seq(Edges) /\ isr # <<>> /\ Len(isr) <= 2 /\ chan \in Nat
      /\ since \in 0 .. PERIOD - 1
  BY Sizes, TypeParts, DecoderRuns DEF SenderOK, DecoderOK, PPM_decode
<1>2. /\ Step("leave") /\ since' \in {since, (since - isr[1].cur) % PERIOD}
      /\ isr' = Tail(isr) /\ UNCHANGED <<chan, bad_frame>>
  BY DEF LeaveISR, Moved, Overwritten, Cur, decoder
<1>3. Len(isr) \in {1, 2}
  <2>1. PICK n \in Nat \ {0} : n = Len(isr) BY <1>1, IsrSteps
  <2> QED BY <1>1, <2>1
<1>4. Closing(1) = 0 BY <1>1, <1>2, InIs DEF Closing
<1>5. CASE Len(isr) = 1
  <2>1. isr' = <<>> BY <1>1, <1>2, <1>5, IsrSteps
  <2>2. \A k \in {1, 2} : \A S : ~In(k, S)' BY <2>1 DEF In
  <2>3. Closing(2) = 0 /\ Closing(1)' = 0 /\ Closing(2)' = 0
    <3>1. ~In(2, {"close"}) BY <1>5 DEF In
    <3> QED BY <2>2, <3>1 DEF Closing
  <2>4. Len(isr') = 0 BY <2>1
  <2> QED BY <1>2, <1>4, <2>2, <2>3, <2>4 DEF RoomOK
<1>6. CASE Len(isr) = 2
  <2>1. Len(isr') = 1 /\ isr'[1] = isr[2]
    <3>1. Len(Tail(isr)) = Len(isr) - 1 /\ Tail(isr)[1] = isr[2]
      BY <1>1, <1>6, IsrSteps
    <3>2. Len(Tail(isr)) = 1 BY <1>6, <3>1
    <3> QED BY <1>2, <3>1, <3>2
  <2>2. since' \in {0, since}
    <3>1. since - isr[1].cur = 0 BY <1>1, <1>6, Sizes DEF RoomOK
    <3>2. 0 \in 0 .. PERIOD - 1 BY Sizes
    <3> QED BY <1>2, <3>1, <3>2, Wraps
  <2>3. \A S : In(1, S)' <=> In(2, S) BY <1>6, <2>1 DEF In
  <2>4. \A S : ~In(2, S)' BY <2>1 DEF In
  <2>5. Closing(1)' = Closing(2) /\ Closing(2)' = 0 BY <2>3, <2>4 DEF Closing
  <2>6. Closing(2) \in {0, 1} BY DEF Closing
  <2>7. bad_frame' = 0 => chan' <= NUM_CHN + Closing(1)' + Closing(2)'
    BY <1>1, <1>2, <1>4, <2>5, <2>6, Sizes DEF RoomOK
  <2>8. ASSUME NEW k \in {1, 2}
        PROVE
       /\ In(k, Storing \cup {"close"})' => SHORT <= isr'[k].cur /\ isr'[k].cur <= LONG
       /\ In(k, {"first", "open"})' => isr'[k].cur > LONG
       /\ In(k, {"open"})' => chan' = 0
       /\ In(k, Storing)' => chan' <= NUM_CHN + NESTED
       /\ In(k, {"store", "count"})' /\ bad_frame' = 0 =>
            isr'[k].to <= NUM_CHN + Closing(1)' + Closing(2)'
    <3>1. CASE k = 2 BY <2>4, <3>1
    <3>2. CASE k = 1
      <4>1. NUM_CHN + Closing(1) + Closing(2) = NUM_CHN + Closing(1)' + Closing(2)'
        BY <1>4, <2>5, <2>6, Sizes
      <4> QED BY <1>2, <2>1, <2>3, <3>2, <4>1 DEF RoomOK
    <3> QED BY <3>1, <3>2
  <2>9. Len(isr') = 1 /\ since' \in {0, isr'[1].cur} BY <1>6, <2>1, <2>2 DEF RoomOK
  <2> QED BY <2>7, <2>8, <2>9 DEF RoomOK
<1> QED BY <1>3, <1>5, <1>6

\* RoomOK, part by part.
Measuring ==
  /\ Len(isr) = 1 => since \in {0, isr[1].cur}
  /\ Len(isr) = 2 => since = isr[1].cur /\ since \in {0, isr[2].cur}
PlaceOK(k) ==
  /\ In(k, Storing \cup {"close"}) => SHORT <= isr[k].cur /\ isr[k].cur <= LONG
  /\ In(k, {"first", "open"}) => isr[k].cur > LONG
  /\ In(k, {"open"}) => chan = 0
  /\ In(k, Storing) => chan <= NUM_CHN + NESTED
  /\ In(k, {"store", "count"}) /\ bad_frame = 0 =>
       isr[k].to <= NUM_CHN + Closing(1) + Closing(2)
LEMMA RoomIs ==
  RoomOK <=> /\ Measuring /\ PlaceOK(1) /\ PlaceOK(2)
             /\ Len(isr) = 2 /\ In(1, Storing) => bad_frame = 0
             /\ bad_frame = 0 => chan <= NUM_CHN + Closing(1) + Closing(2)
BY DEF RoomOK, Measuring, PlaceOK

LEMMA MovesKeepRoom ==
  ASSUME TypeOK, RoomOK, PPM_decode, ~LeaveISR
  PROVE  RoomOK'
<1>1. /\ isr \in Seq(Edges) /\ isr # <<>> /\ chan \in Nat /\ since \in Nat
      /\ DecoderOK
  BY Sizes, TypeParts, DecoderRuns DEF SenderOK, DecoderOK
<1>2. Moves /\ since' = since BY <1>1, DecoderMoves
<1>3. \A c \in {1, 2} : Closing(c) \in {0, 1} BY DEF Closing
<1>4. isr[1].cur \in Nat /\ isr[1].to \in Nat
  BY <1>1, IsrSteps, Sizes DEF Edges, Places
<1>5. ASSUME NEW s, NEW to, Onwards(s, to)
      PROVE  /\ \A S : In(1, S)' <=> s \in S
             /\ \A S : In(2, S)' <=> In(2, S)
             /\ Closing(1)' = (IF s = "close" THEN 1 ELSE 0) /\ Closing(2)' = Closing(2)
             /\ Len(isr') = Len(isr) /\ isr'[1].cur = isr[1].cur /\ isr'[1].to = to
             /\ Len(isr) = 2 => isr'[2] = isr[2]
  BY <1>1, <1>5, InIs DEF Closing
<1>6. \A S : In(1, S) <=> isr[1].step \in S BY <1>1, InIs
<1>7. Len(isr) \in {1, 2} /\ Len(isr) <= 1 + NESTED
  <2>1. PICK n \in Nat \ {0} : n = Len(isr) BY <1>1, IsrSteps
  <2>2. n <= 1 + NESTED BY <2>1 DEF TypeOK
  <2> QED BY <2>1, <2>2, Sizes
<1>8. \A S : In(2, S) <=> Len(isr) = 2 /\ isr[2].step \in S
  <2>1. 2 \in 1 .. Len(isr) <=> Len(isr) = 2 BY <1>7
  <2> QED BY <2>1 DEF In
<1>9. /\ Closing(1) = (IF isr[1].step = "close" THEN 1 ELSE 0)
      /\ Closing(2) = (IF Len(isr) = 2 /\ isr[2].step = "close" THEN 1 ELSE 0)
  BY <1>6, <1>8 DEF Closing
<1>20. /\ Measuring /\ PlaceOK(1) /\ PlaceOK(2)
       /\ Len(isr) = 2 /\ In(1, Storing) => bad_frame = 0
       /\ bad_frame = 0 => chan <= NUM_CHN + Closing(1) + Closing(2)
  BY RoomIs
<1>21. SUFFICES /\ PlaceOK(1)' /\ PlaceOK(2)'
                /\ (Len(isr) = 2 /\ In(1, Storing) => bad_frame = 0)'
                /\ (bad_frame = 0 => chan <= NUM_CHN + Closing(1) + Closing(2))'
  <2>1. /\ Len(isr') = Len(isr) /\ isr'[1].cur = isr[1].cur
        /\ Len(isr) = 2 => isr'[2] = isr[2]
    BY <1>2, <1>5 DEF Moves
  <2>2. Measuring' BY <1>2, <1>20, <2>1 DEF Measuring
  <2> QED BY <2>2, RoomIs, PTL
<1>22. ASSUME NEW s, NEW to, Onwards(s, to)
       PROVE  /\ isr'[1].cur = isr[1].cur /\ isr'[1].to = to /\ Len(isr') = Len(isr)
              /\ Len(isr) = 2 => isr'[2] = isr[2]
              /\ \A S : In(1, S)' <=> s \in S
              /\ \A S : In(2, S)' <=> Len(isr) = 2 /\ isr[2].step \in S
              /\ Closing(1)' = (IF s = "close" THEN 1 ELSE 0) /\ Closing(2)' = Closing(2)
  BY <1>5, <1>8, <1>22
<1>23. \A s \in Steps : Goes(s) => Onwards(s, isr[1].to) BY <1>1, GoesIs
<1>10. CASE Glitch
  <2>1. Onwards("leave", isr[1].to) /\ bad_frame' = 1 /\ chan' = chan
    BY <1>10, <1>23 DEF Glitch, Steps
  <2>2. PlaceOK(1)' BY <1>22, <2>1 DEF PlaceOK, Storing
  <2>3. PlaceOK(2)' BY <1>8, <1>20, <1>22, <2>1 DEF PlaceOK, Storing
  <2>4. ~In(1, Storing)' BY <1>22, <2>1 DEF Storing
  <2> QED BY <2>1, <2>2, <2>3, <2>4
<1>11. CASE StartOfFrame
  <2>1. /\ Onwards("first", isr[1].to) /\ bad_frame' = bad_frame /\ chan' = chan
        /\ isr[1].step = "body" /\ isr[1].cur > LONG
    BY <1>11, <1>23 DEF StartOfFrame, Steps, decoder, Cur, Body, Step
  <2>2. PlaceOK(1)' BY <1>22, <2>1 DEF PlaceOK, Storing
  <2>3. PlaceOK(2)' BY <1>8, <1>9, <1>20, <1>22, <2>1 DEF PlaceOK, Storing
  <2>4. ~In(1, Storing)' BY <1>22, <2>1 DEF Storing
  <2> QED BY <1>9, <1>20, <1>22, <2>1, <2>2, <2>3, <2>4
<1>12. CASE Ignored
  <2>1. Onwards("leave", isr[1].to) /\ bad_frame' = 1 /\ chan' = chan
    BY <1>12, <1>23 DEF Ignored, Steps, decoder
  <2>2. PlaceOK(1)' BY <1>22, <2>1 DEF PlaceOK, Storing
  <2>3. PlaceOK(2)' BY <1>8, <1>20, <1>22, <2>1 DEF PlaceOK, Storing
  <2>4. ~In(1, Storing)' BY <1>22, <2>1 DEF Storing
  <2> QED BY <2>1, <2>2, <2>3, <2>4
<1>13. CASE Accept
  <2>1. /\ Onwards("load", isr[1].to) /\ bad_frame = 0 /\ bad_frame' = 0 /\ chan' = chan
        /\ isr[1].step = "body" /\ SHORT <= isr[1].cur /\ isr[1].cur <= LONG
    BY <1>13, <1>23 DEF Accept, IsPulse, Steps, decoder, Cur, Body, Step
  <2>2. chan <= NUM_CHN + NESTED
    <3>1. Closing(1) = 0 /\ Closing(2) <= NESTED BY <1>7, <1>9, <2>1, Sizes
    <3> QED BY <1>1, <1>3, <1>20, <2>1, <3>1, Sizes
  <2>3. PlaceOK(1)' BY <1>22, <2>1, <2>2 DEF PlaceOK, Storing
  <2>4. PlaceOK(2)' BY <1>8, <1>9, <1>20, <1>22, <2>1 DEF PlaceOK, Storing
  <2> QED BY <1>9, <1>20, <1>22, <2>1, <2>3, <2>4
<1>14. CASE ResetChan
  <2>1. /\ Onwards("open", isr[1].to) /\ bad_frame' = bad_frame /\ chan' = 0
        /\ isr[1].step = "first"
    BY <1>14, <1>23 DEF ResetChan, FirstChannel, Steps, Step
  <2>2. PlaceOK(1)'
    <3>1. isr[1].cur > LONG BY <1>6, <1>20, <2>1 DEF PlaceOK
    <3> QED BY <1>22, <2>1, <3>1 DEF PlaceOK, Storing
  <2>3. PlaceOK(2)'
    BY <1>8, <1>9, <1>20, <1>22, <2>1, Sizes DEF PlaceOK, Storing
  <2>4. ~In(1, Storing)' BY <1>22, <2>1 DEF Storing
  <2>5. 0 <= NUM_CHN + Closing(1)' + Closing(2)' BY <1>3, <1>22, <2>1, Sizes
  <2> QED BY <2>1, <2>2, <2>3, <2>4, <2>5
<1>15. CASE OpenFrame
  <2>1. /\ Onwards("leave", isr[1].to) /\ bad_frame' = 0 /\ chan' = chan
        /\ isr[1].step = "open"
    BY <1>15, <1>23 DEF OpenFrame, Steps, Step
  <2>2. isr[1].cur > LONG /\ chan = 0 BY <1>6, <1>20, <2>1 DEF PlaceOK
  <2>3. PlaceOK(1)' BY <1>22, <2>1 DEF PlaceOK, Storing
  <2>4. PlaceOK(2)'
    <3>1. ~(Len(isr) = 2 /\ isr[2].step \in Storing)
      <4>1. SUFFICES ASSUME Len(isr) = 2, isr[2].step \in Storing PROVE FALSE OBVIOUS
      <4>2. isr[2].cur <= LONG BY <1>8, <1>20, <4>1 DEF PlaceOK
      <4>3. isr[1].cur \in {0, isr[2].cur} BY <1>20, <4>1 DEF Measuring
      <4> QED BY <1>4, <2>2, <4>2, <4>3, Sizes
    <3> QED BY <1>8, <1>20, <1>22, <2>1, <3>1 DEF PlaceOK, Storing
  <2>5. 0 <= NUM_CHN + Closing(1)' + Closing(2)' BY <1>3, <1>22, <2>1, Sizes
  <2> QED BY <2>1, <2>2, <2>3, <2>4, <2>5
<1>16. CASE LoadChan
  <2>1. /\ Onwards("store", chan) /\ bad_frame' = bad_frame /\ chan' = chan
        /\ isr[1].step = "load"
    <3>1. isr[1].step = "load" BY <1>16 DEF LoadChan, Step
    <3>2. chan \in Places
      BY <1>1, <1>6, <1>20, <3>1, Sizes DEF PlaceOK, Storing, Places
    <3> QED BY <1>1, <1>16, <3>1, <3>2, TakesIs DEF LoadChan, decoder
  <2>2. /\ SHORT <= isr[1].cur /\ isr[1].cur <= LONG /\ chan <= NUM_CHN + NESTED
        /\ Len(isr) = 2 => bad_frame = 0
    BY <1>6, <1>20, <2>1 DEF PlaceOK, Storing
  <2>3. Closing(1)' = 0 /\ Closing(1) = 0 /\ Closing(2)' = Closing(2)
    BY <1>9, <1>22, <2>1
  <2>4. PlaceOK(1)' BY <1>20, <1>22, <2>1, <2>2, <2>3 DEF PlaceOK, Storing
  <2>5. PlaceOK(2)' BY <1>8, <1>20, <1>22, <2>1, <2>3 DEF PlaceOK, Storing
  <2> QED BY <1>20, <1>22, <2>1, <2>2, <2>3, <2>4, <2>5
<1>17. CASE StoreChannel
  <2>1. /\ Onwards("count", isr[1].to) /\ bad_frame' = bad_frame /\ chan' = chan
        /\ isr[1].step = "store"
    BY <1>17, <1>23 DEF StoreChannel, Steps, Step
  <2>2. /\ SHORT <= isr[1].cur /\ isr[1].cur <= LONG /\ chan <= NUM_CHN + NESTED
        /\ Len(isr) = 2 => bad_frame = 0
        /\ bad_frame = 0 => isr[1].to <= NUM_CHN + Closing(1) + Closing(2)
    BY <1>6, <1>20, <2>1 DEF PlaceOK, Storing
  <2>3. Closing(1)' = 0 /\ Closing(1) = 0 /\ Closing(2)' = Closing(2)
    BY <1>9, <1>22, <2>1
  <2>4. PlaceOK(1)' BY <1>20, <1>22, <2>1, <2>2, <2>3 DEF PlaceOK, Storing
  <2>5. PlaceOK(2)' BY <1>8, <1>20, <1>22, <2>1, <2>3 DEF PlaceOK, Storing
  <2> QED BY <1>20, <1>22, <2>1, <2>2, <2>3, <2>4, <2>5
<1>18. CASE CountChannel
  <2>1. PICK c \in {isr[1].to, chan} :
          chan' = c + 1 /\ Goes(IF c >= NUM_CHN THEN "close" ELSE "leave")
    BY <1>18 DEF CountChannel, TooMany
  <2>2. bad_frame' = bad_frame /\ isr[1].step = "count" /\ c \in Nat
    BY <1>1, <1>4, <1>18 DEF CountChannel, Step
  <2>3. /\ SHORT <= isr[1].cur /\ isr[1].cur <= LONG
        /\ Len(isr) = 2 => bad_frame = 0
        /\ bad_frame = 0 => isr[1].to <= NUM_CHN + Closing(1) + Closing(2)
    BY <1>6, <1>20, <2>2 DEF PlaceOK, Storing
  <2>4. Closing(1) = 0 BY <1>9, <2>2
  <2>5. bad_frame = 0 => c <= NUM_CHN + Closing(2)
    BY <1>3, <1>20, <2>1, <2>3, <2>4, Sizes
  <2>6. CASE c >= NUM_CHN
    <3>1. Onwards("close", isr[1].to) BY <1>23, <2>1, <2>6 DEF Steps
    <3>2. Closing(1)' = 1 /\ Closing(2)' = Closing(2) BY <1>22, <3>1
    <3>3. PlaceOK(1)' BY <1>22, <2>3, <3>1 DEF PlaceOK, Storing
    <3>4. ~(Len(isr) = 2 /\ isr[2].step = "open")
      <4>1. SUFFICES ASSUME Len(isr) = 2, isr[2].step = "open" PROVE FALSE OBVIOUS
      <4>2. isr[2].cur > LONG BY <1>8, <1>20, <4>1 DEF PlaceOK
      <4>3. isr[1].cur \in {0, isr[2].cur} BY <1>20, <4>1 DEF Measuring
      <4> QED BY <1>4, <2>3, <4>2, <4>3, Sizes
    <3>5. ASSUME Len(isr) = 2, isr[2].step \in Storing
          PROVE  chan' <= NUM_CHN + NESTED
      <4>1. Closing(2) = 0 /\ NESTED = 1
        <5>1. isr[2].step # "close" BY <3>5 DEF Storing
        <5> QED BY <1>7, <1>9, <3>5, <5>1, Sizes
      <4>2. c <= NUM_CHN BY <2>2, <2>3, <2>5, <3>5, <4>1, Sizes
      <4> QED BY <2>1, <2>2, <4>1, <4>2, Sizes
    <3>6. ASSUME Len(isr) = 2, isr[2].step \in {"store", "count"}, bad_frame' = 0
          PROVE  isr[2].to <= NUM_CHN + Closing(1)' + Closing(2)'
      <4>1. isr[2].to <= NUM_CHN + Closing(1) + Closing(2)
        BY <1>8, <1>20, <2>2, <3>6 DEF PlaceOK
      <4>2. isr[2].to \in Nat
        <5>1. 2 \in 1 .. Len(isr) BY <3>6
        <5>2. isr[2] \in Edges BY <1>1, <5>1
        <5> QED BY <5>2, Sizes DEF Edges, Places
      <4> QED BY <1>3, <2>4, <3>2, <4>1, <4>2, Sizes
    <3>7. PlaceOK(2)'
      BY <1>8, <1>20, <1>22, <3>1, <3>4, <3>5, <3>6 DEF PlaceOK, Storing
    <3>8. bad_frame' = 0 => chan' <= NUM_CHN + Closing(1)' + Closing(2)'
      BY <1>3, <2>1, <2>2, <2>5, <3>2, Sizes
    <3>9. ~In(1, Storing)' BY <1>22, <3>1 DEF Storing
    <3> QED BY <3>3, <3>7, <3>8, <3>9
  <2>7. CASE ~(c >= NUM_CHN)
    <3>1. Onwards("leave", isr[1].to) BY <1>23, <2>1, <2>7 DEF Steps
    <3>2. Closing(1)' = 0 /\ Closing(2)' = Closing(2) BY <1>22, <3>1
    <3>3. PlaceOK(1)' BY <1>22, <3>1 DEF PlaceOK, Storing
    <3>4. ~(Len(isr) = 2 /\ isr[2].step = "open")
      <4>1. SUFFICES ASSUME Len(isr) = 2, isr[2].step = "open" PROVE FALSE OBVIOUS
      <4>2. isr[2].cur > LONG BY <1>8, <1>20, <4>1 DEF PlaceOK
      <4>3. isr[1].cur \in {0, isr[2].cur} BY <1>20, <4>1 DEF Measuring
      <4> QED BY <1>4, <2>3, <4>2, <4>3, Sizes
    <3>5. chan' <= NUM_CHN BY <2>1, <2>2, <2>7, Sizes
    <3>6. /\ chan' <= NUM_CHN + NESTED
          /\ chan' <= NUM_CHN + Closing(1)' + Closing(2)'
      BY <1>3, <2>1, <2>2, <3>2, <3>5, Sizes
    <3>7. PlaceOK(2)'
      BY <1>8, <1>20, <1>22, <2>2, <2>4, <3>1, <3>2, <3>4, <3>6 DEF PlaceOK, Storing
    <3>8. ~In(1, Storing)' BY <1>22, <3>1 DEF Storing
    <3> QED BY <3>3, <3>6, <3>7, <3>8
  <2> QED BY <2>6, <2>7
<1>19. CASE CloseFrame
  <2>1. Onwards("leave", isr[1].to) /\ bad_frame' = 1 /\ chan' = chan
    BY <1>19, <1>23 DEF CloseFrame, Steps
  <2>2. PlaceOK(1)' BY <1>22, <2>1 DEF PlaceOK, Storing
  <2>3. PlaceOK(2)' BY <1>8, <1>20, <1>22, <2>1 DEF PlaceOK, Storing
  <2>4. ~In(1, Storing)' BY <1>22, <2>1 DEF Storing
  <2> QED BY <2>1, <2>2, <2>3, <2>4
<1> QED
  BY <1>10, <1>11, <1>12, <1>13, <1>14, <1>15, <1>16, <1>17, <1>18, <1>19 DEF PPM_decode

LEMMA RoomSteps ==
  ASSUME TypeOK, RoomOK, Next
  PROVE  RoomOK'
<1>1. CASE Receiver BY <1>1, EdgeKeepsRoom
<1>2. CASE LeaveISR BY <1>2, LeavingKeepsRoom
<1>3. CASE PPM_decode /\ ~LeaveISR BY <1>3, MovesKeepRoom
<1>4. CASE Main BY <1>4, MainLeaves DEF RoomOK, In, Closing
<1> QED BY <1>1, <1>2, <1>3, <1>4 DEF Next

-----------------------------------------------------------------------------
(***************************************************************************)
(* Channels are copied whole.                                              *)
(***************************************************************************)
LEMMA EdgesComeUnmasked ==
  Receiver => isr # <<>> \/ masked = 0 \/ isr' = isr
<1>1. Len(isr) = 1 => isr # <<>> OBVIOUS
<1>2. NestedEdge => isr # <<>> BY <1>1 DEF NestedEdge
<1> QED BY <1>2 DEF Receiver, PulseEnds, NoiseEdge, Dropout

LEMMA CopySteps ==
  ASSUME TypeOK, CopyUndisturbed, ChannelsWhole, Next
  PROVE  CopyUndisturbed' /\ ChannelsWhole'
<1>1. MainOK /\ SenderOK BY TypeParts
<1>2. masked \in {0, 1} BY <1>1 DEF MainOK
<1>3. CASE Receiver \/ PPM_decode
  <2>1. UNCHANGED <<pc, i, lo, masked, Servo_data>>
    BY <1>3, ReceiverLeaves, DecoderLeaves
  <2>2. PPM_decode => isr # <<>> BY DecoderRuns
  <2>3. masked = 1 => isr' = <<>>
    <3>1. masked = 1 => isr = <<>> BY DEF CopyUndisturbed
    <3> QED BY <1>3, <2>2, <3>1, EdgesComeUnmasked
  <2>4. masked = 1 => PPM_data' = PPM_data
    <3>1. masked = 1 => isr = <<>> BY DEF CopyUndisturbed
    <3> QED BY <1>3, <2>2, <3>1, ReceiverLeaves
  <2>5. CopyUndisturbed' BY <2>1, <2>3, <2>4 DEF CopyUndisturbed
  <2>6. ChannelsWhole' BY <2>1 DEF ChannelsWhole
  <2> QED BY <2>5, <2>6
<1>4. CASE Main
  <2>1. isr = <<>> /\ isr' = isr /\ PPM_data' = PPM_data BY <1>4, MainLeaves
  <2>2. CASE ReadHigh
    <3>1. /\ pc = "high" /\ pc' = "sei" /\ i' = i /\ masked' = masked
          /\ Servo_data' = [Servo_data EXCEPT ![i] = <<lo, PPM_data[i]>>]
      BY <2>2 DEF ReadHigh, At
    <3>2. lo = PPM_data[i] /\ masked = 1 BY <3>1 DEF CopyUndisturbed
    <3>3. CopyUndisturbed' BY <2>1, <3>1, <3>2 DEF CopyUndisturbed
    <3>4. ChannelsWhole' BY <1>1, <3>1, <3>2 DEF ChannelsWhole, MainOK
    <3> QED BY <3>3, <3>4
  <2>3. CASE ~ReadHigh
    <3>1. Servo_data' = Servo_data
      BY <1>4, <2>3 DEF Main, FrameReady, NoFrame, Mask, ReadLow, Unmask, PPM_FLAG_off,
         update_channels_aux, Callback, copying
    <3>2. ChannelsWhole' BY <3>1 DEF ChannelsWhole
    <3>3. CopyUndisturbed'
      BY <1>2, <1>4, <2>1, <2>3 DEF CopyUndisturbed, Main, FrameReady, NoFrame, Mask, Cli,
         ReadLow, Unmask, PPM_FLAG_off, update_channels_aux, Callback, copying, At
    <3> QED BY <3>2, <3>3
  <2> QED BY <2>2, <2>3
<1> QED BY <1>3, <1>4 DEF Next

-----------------------------------------------------------------------------
(***************************************************************************)
(* Channels stay in place.                                                 *)
(***************************************************************************)
\* What OnlyGlitches says while there was no other noise.
Undamaged ==
  /\ \A c \in Channels : PPM_data[c][1] = c
  /\ Len(isr) <= 1 /\ width \in Widths(slot)
  /\ isr = <<>> =>
       \/ since = 0
       \/ since = PERIOD - 1 /\ slot = 0 /\ run = 0 /\ bad_frame = 1
  /\ isr # <<>> => since = Cur
  /\ Settled /\ bad_frame = 0 => run = 0 /\ chan = Counted
  /\ (Body /\ Cur > LONG) \/ In(1, {"first", "open"}) => run = 0 /\ slot = 1
  /\ (IsPulse /\ bad_frame = 0) \/ In(1, Storing) =>
       run = 0 /\ Counted = chan + 1 /\ isr[1].value[1] = chan
  /\ Step("open") => chan = 0
  /\ In(1, {"store", "count"}) => isr[1].to = chan

LEMMA UndamagedIs == OnlyGlitches <=> (harm = 0 => Undamaged)
BY DEF OnlyGlitches, Undamaged

\* A width that is measured belongs to the gap only if it is longer than a pulse.
LEMMA WidthTells ==
  ASSUME TypeOK, width \in Widths(slot)
  PROVE  /\ width \in 1 .. PERIOD - 1
         /\ slot = 0 => width > LONG
         /\ slot # 0 => SHORT <= width /\ width <= LONG
<1>1. slot = 0 \/ slot \in 1 .. SENT BY Sizes DEF TypeOK
<1> QED BY <1>1, WidthsAre, Sizes

\* The next slot, and how many channels were sent when it begins.
LEMMA NextSlot ==
  ASSUME TypeOK, PulseEnds
  PROVE  /\ slot = 0 => slot' = 1 /\ Counted' = 0 /\ odd' = odd
         /\ slot # 0 => /\ Counted' = slot /\ slot' # 1 /\ slot - 1 \in Nat
                        /\ Parity' = odd
<1>1. /\ slot' = (slot + 1) % (SENT + 1)
      /\ odd' = IF slot' = 0 THEN 1 - odd ELSE odd
  BY DEF PulseEnds
<1>2. slot \in 0 .. SENT /\ odd \in {0, 1} BY DEF TypeOK
<1>3. slot' = IF slot = SENT THEN 0 ELSE slot + 1
  <2>1. PICK m \in Nat \ {0} : m = SENT + 1 BY Sizes
  <2>2. PICK k \in 0 .. m : k = slot + 1 BY <1>2, <2>1, Sizes
  <2>3. k % m = IF k = m THEN 0 ELSE k BY <2>1, <2>2
  <2> QED BY <1>1, <1>2, <2>1, <2>2, <2>3, Sizes
<1>4. CASE slot = 0
  <2>1. slot' = 1 BY <1>3, <1>4, Sizes
  <2> QED BY <1>1, <1>4, <2>1 DEF Counted
<1>5. CASE slot # 0
  <2>1. slot - 1 \in Nat BY <1>2, <1>5, Sizes
  <2>2. CASE slot = SENT
    <3>1. slot' = 0 /\ odd' = 1 - odd BY <1>1, <1>3, <2>2
    <3> QED BY <1>2, <1>5, <2>1, <2>2, <3>1 DEF Counted, Parity
  <2>3. CASE slot # SENT
    <3>1. slot' = slot + 1 /\ slot' # 0 /\ odd' = odd
      BY <1>1, <1>2, <1>3, <2>3, Sizes
    <3> QED BY <1>2, <1>5, <2>1, <3>1, Sizes DEF Counted, Parity
  <2> QED BY <2>2, <2>3
<1> QED BY <1>4, <1>5

\* Before the first step of an interrupt none of the other steps is on.
LEMMA BodyPrimed ==
  ASSUME isr' # <<>>, isr'[1].step = "body"
  PROVE  /\ ~Settled' /\ ~Step("open")' /\ ~Step("close")' /\ ~Step("count")'
         /\ ~In(1, Storing)' /\ ~In(1, {"store", "count"})' /\ ~In(1, {"first", "open"})'
BY DEF Settled, Step, In, Storing

LEMMA PulseUndamaged ==
  ASSUME TypeOK, Undamaged, PulseEnds
  PROVE  Undamaged'
<1>1. /\ isr = <<>> /\ since' = (since + (width - run)) % PERIOD
      /\ Edge(since', IF slot > 0 /\ since' = width THEN <<slot - 1, odd>> ELSE Noise)
      /\ width' \in Widths(slot') /\ run' = 0
      /\ UNCHANGED <<chan, bad_frame, PPM_data>>
  BY DEF PulseEnds, Wait, decoder
<1>2. /\ isr' # <<>> /\ Len(isr') = 1 /\ Body' /\ Cur' = since'
      /\ isr'[1].value = IF slot > 0 /\ since' = width THEN <<slot - 1, odd>> ELSE Noise
  BY <1>1, FirstEdge
<1>3. width \in 1 .. PERIOD - 1 /\ width \in Widths(slot) /\ run \in 0 .. width
  BY WidthTells DEF Undamaged, TypeOK
<1>4. /\ slot = 0 => width > LONG
      /\ slot # 0 => SHORT <= width /\ width <= LONG
  BY <1>3, WidthTells
<1>5. since' = IF since = 0 THEN width - run ELSE width - 1
  <2>1. CASE since = 0
    <3>1. width - run \in 0 .. PERIOD - 1 /\ 0 + (width - run) = width - run
      BY <1>3, Sizes
    <3> QED BY <1>1, <2>1, <3>1, Wraps
  <2>2. CASE since # 0
    <3>1. since = PERIOD - 1 /\ run = 0 BY <1>1, <2>2 DEF Undamaged
    <3>2. width \in 1 .. PERIOD /\ width - run = width BY <1>3, <3>1, Sizes
    <3> QED BY <1>1, <2>2, <3>1, <3>2, Wraps
  <2> QED BY <2>1, <2>2
<1>6. ASSUME Cur' > LONG PROVE slot' = 1
  <2>1. width > LONG BY <1>2, <1>3, <1>5, <1>6, Sizes
  <2>2. slot = 0 BY <1>4, <1>3, <2>1, Sizes
  <2> QED BY <2>2, NextSlot
<1>7. ASSUME IsPulse', bad_frame' = 0
      PROVE  Counted' = chan' + 1 /\ isr'[1].value[1] = chan'
  <2>1. since = 0 /\ run = 0 /\ chan = Counted
    BY <1>1, <1>7 DEF Undamaged, Settled
  <2>2. since' = width BY <1>3, <1>5, <2>1
  <2>3. SHORT <= width /\ width <= LONG BY <1>2, <1>7, <2>2 DEF IsPulse
  <2>4. slot # 0 /\ slot > 0
    <3>1. slot # 0 BY <1>3, <1>4, <2>3, Sizes
    <3> QED BY <3>1, Sizes DEF TypeOK
  <2>5. isr'[1].value = <<slot - 1, odd>> BY <1>2, <2>2, <2>4
  <2>6. chan' = slot - 1 BY <1>1, <2>1, <2>4 DEF Counted
  <2>7. Counted' = slot BY <2>4, NextSlot
  <2> QED BY <2>4, <2>5, <2>6, <2>7, Sizes DEF TypeOK
<1>8. isr'[1].step = "body" BY <1>2 DEF Body, Step
<1> QED BY <1>1, <1>2, <1>6, <1>7, <1>8, BodyPrimed DEF Undamaged

LEMMA GlitchUndamaged ==
  ASSUME TypeOK, Undamaged, NoiseEdge, harm' = 0
  PROVE  Undamaged'
<1>1. PICK at \in NoiseAt :
        /\ run < at /\ at < width /\ isr = <<>>
        /\ since' = (since + (at - run)) % PERIOD /\ run' = at
        /\ Edge(since', Noise) /\ at - run < SHORT
        /\ UNCHANGED <<slot, width, odd, chan, bad_frame, PPM_data>>
  BY DEF NoiseEdge, Wait, Disturb, decoder
<1>2. isr' # <<>> /\ Len(isr') = 1 /\ Body' /\ Cur' = since' BY <1>1, FirstEdge
<1>3. /\ width \in Widths(slot) /\ run \in 0 .. width /\ width \in 1 .. PERIOD - 1
      /\ at \in Nat
  BY PpmAssumption, WidthTells DEF Undamaged, TypeOK
<1>4. since' < SHORT
  <2>1. at - run \in 1 .. PERIOD - 1 BY <1>1, <1>3, Sizes
  <2>2. CASE since = 0
    <3>1. 0 + (at - run) = at - run /\ at - run \in 0 .. PERIOD - 1 BY <2>1, Sizes
    <3>2. since' = at - run BY <1>1, <2>2, <3>1, Wraps
    <3> QED BY <1>1, <3>2
  <2>3. CASE since # 0
    <3>1. since = PERIOD - 1 BY <1>1, <2>3 DEF Undamaged
    <3>2. at - run \in 1 .. PERIOD BY <2>1, Sizes
    <3>3. since' = (at - run) - 1 BY <1>1, <3>1, <3>2, Wraps
    <3> QED BY <1>1, <2>1, <3>3, Sizes
  <2> QED BY <2>2, <2>3
<1>5. ~(Cur' > LONG) /\ ~IsPulse'
  <2>1. Cur' = since' /\ since' \in Nat /\ since' < SHORT
    <3>1. since + (at - run) \in Int BY <1>3, Sizes DEF TypeOK
    <3>2. since' \in 0 .. PERIOD - 1 BY <1>1, <3>1, Wraps
    <3> QED BY <1>2, <1>4, <3>2, Sizes
  <2>2. ~(Cur' > LONG) /\ ~(SHORT <= Cur') BY <2>1, Sizes
  <2> QED BY <2>2 DEF IsPulse
<1>6. isr'[1].step = "body" BY <1>2 DEF Body, Step
<1> QED BY <1>1, <1>2, <1>5, <1>6, BodyPrimed DEF Undamaged

\* A step of the only interrupt that runs.
LEMMA SingleMoves ==
  ASSUME TypeOK, RoomOK, Len(isr) <= 1, since = Cur, PPM_decode, ~LeaveISR
  PROVE  /\ Moves /\ isr # <<>> /\ isr \in Seq(Edges)
         /\ isr' # <<>> /\ Len(isr') <= 1 /\ Cur' = Cur /\ since' = Cur' /\ ~Body' /\ ~IsPulse'
         /\ isr'[1].value = isr[1].value
         /\ \A S : In(1, S) <=> isr[1].step \in S
         /\ \A t : Step(t) <=> isr[1].step = t
         /\ \A s, to : Onwards(s, to) =>
              /\ \A S : In(1, S)' <=> s \in S
              /\ \A t : Step(t)' <=> s = t
              /\ Settled' <=> s = "leave"
              /\ isr'[1].to = to
<1>1. SenderOK /\ DecoderOK BY TypeParts
<1>2. isr # <<>> /\ isr \in Seq(Edges) BY <1>1, DecoderRuns DEF SenderOK
<1>3. Moves /\ since' = since BY <1>1, <1>2, DecoderMoves
<1>4. PICK s, to : s # "body" /\ Onwards(s, to) BY <1>3 DEF Moves
<1>5. /\ isr' # <<>> /\ Len(isr') = Len(isr) /\ isr'[1].cur = isr[1].cur
      /\ isr'[1].value = isr[1].value /\ isr'[1].step = s
  BY <1>4 DEF Onwards
<1>6. Cur' = Cur /\ ~Body' BY <1>4, <1>5 DEF Cur, Body, Step
<1>7. ~IsPulse' BY <1>6 DEF IsPulse
<1>8. ASSUME NEW r, NEW to2, Onwards(r, to2)
      PROVE  /\ \A S : In(1, S)' <=> r \in S
             /\ \A t : Step(t)' <=> r = t
             /\ Settled' <=> r = "leave"
             /\ isr'[1].to = to2
  <2>1. \A S : In(1, S)' <=> r \in S BY <1>2, <1>8, InIs
  <2>2. isr' # <<>> /\ isr'[1].step = r /\ isr'[1].to = to2 BY <1>8 DEF Onwards
  <2>3. \A t : Step(t)' <=> r = t BY <2>2 DEF Step
  <2>4. Settled' <=> r = "leave" BY <2>2 DEF Settled, Step
  <2> QED BY <2>1, <2>2, <2>3, <2>4
<1> QED BY <1>2, <1>3, <1>5, <1>6, <1>7, <1>8, InIs

LEMMA DecoderUndamaged ==
  ASSUME TypeOK, RoomOK, Undamaged, PPM_decode
  PROVE  Undamaged'
<1>1. SenderOK /\ DecoderOK BY TypeParts
<1>2. isr # <<>> /\ isr \in Seq(Edges) /\ Len(isr) <= 1 /\ since = Cur
  BY <1>1, DecoderRuns DEF SenderOK, Undamaged
<1>3. UNCHANGED <<slot, width, run, odd>> /\ Counted' = Counted
  BY DecoderLeaves DEF Counted
<1>4. CASE LeaveISR
  <2>1. /\ Moved \/ Len(isr) = 2
        /\ isr' = Tail(isr) /\ Step("leave") /\ UNCHANGED <<chan, bad_frame, PPM_data>>
    BY <1>4 DEF LeaveISR, Overwritten, decoder
  <2>2. isr' = <<>> /\ since' = (since - Cur) % PERIOD
    <3>1. PICK n \in Nat \ {0} : n = Len(isr) BY <1>2, IsrSteps
    <3>2. Len(isr) = 1 BY <1>2, <3>1
    <3> QED BY <1>2, <2>1, <3>2, IsrSteps DEF Moved
  <2>3. since' = 0
    <3>1. since \in Int /\ since - Cur = 0 BY <1>1, <1>2, Sizes DEF SenderOK
    <3>2. 0 \in 0 .. PERIOD - 1 BY Sizes
    <3> QED BY <2>2, <3>1, <3>2, Wraps
  <2>4. /\ ~Body' /\ ~IsPulse' /\ Len(isr') <= 1 /\ ~Step("open")'
        /\ \A S : ~In(1, S)'
    BY <2>2 DEF Body, IsPulse, Step, In
  <2>5. Settled BY <2>1 DEF Settled
  <2> QED BY <1>3, <2>1, <2>2, <2>3, <2>4, <2>5 DEF Undamaged
<1>5. ASSUME ~LeaveISR
      PROVE  /\ isr' # <<>> /\ Len(isr') <= 1 /\ since' = Cur' /\ ~Body' /\ ~IsPulse'
             /\ isr'[1].value = isr[1].value
             /\ \A S : In(1, S) <=> isr[1].step \in S
             /\ \A t : Step(t) <=> isr[1].step = t
             /\ \A s, to : Onwards(s, to) =>
                  /\ \A S : In(1, S)' <=> s \in S
                  /\ \A t : Step(t)' <=> s = t
                  /\ Settled' <=> s = "leave"
                  /\ isr'[1].to = to
  BY <1>2, <1>5, SingleMoves
<1>6. \A s \in Steps : Goes(s) => Onwards(s, isr[1].to) BY <1>2, GoesIs
<1>8. CASE ~LeaveISR /\ (Glitch \/ Ignored \/ CloseFrame)
  <2>1. /\ Onwards("leave", isr[1].to) /\ bad_frame' = 1 /\ PPM_data' = PPM_data
    BY <1>6, <1>8 DEF Glitch, Ignored, CloseFrame, decoder, Steps
  <2> QED BY <1>3, <1>5, <1>8, <2>1 DEF Undamaged, Storing
<1>9. CASE ~LeaveISR /\ StartOfFrame
  <2>1. /\ Body /\ Cur > LONG /\ Onwards("first", isr[1].to)
        /\ UNCHANGED <<chan, bad_frame, PPM_data>>
    BY <1>6, <1>9 DEF StartOfFrame, decoder, Steps
  <2>2. run = 0 /\ slot = 1 BY <2>1 DEF Undamaged
  <2> QED BY <1>3, <1>5, <1>9, <2>1, <2>2 DEF Undamaged, Storing
<1>10. CASE ~LeaveISR /\ ResetChan
  <2>1. /\ isr[1].step = "first" /\ Onwards("open", isr[1].to) /\ chan' = 0
        /\ UNCHANGED <<bad_frame, PPM_data>>
    BY <1>6, <1>10 DEF ResetChan, FirstChannel, Step, Steps
  <2>2. run = 0 /\ slot = 1 BY <1>5, <1>10, <2>1 DEF Undamaged
  <2> QED BY <1>3, <1>5, <1>10, <2>1, <2>2 DEF Undamaged, Storing
<1>11. CASE ~LeaveISR /\ OpenFrame
  <2>1. /\ isr[1].step = "open" /\ Onwards("leave", isr[1].to)
        /\ UNCHANGED <<chan, PPM_data>>
    BY <1>6, <1>11 DEF OpenFrame, Step, Steps
  <2>2. run = 0 /\ slot = 1 /\ chan = 0 BY <1>5, <1>11, <2>1 DEF Undamaged
  <2>3. Counted' = 0 BY <1>3, <2>2 DEF Counted
  <2> QED BY <1>3, <1>5, <1>11, <2>1, <2>2, <2>3 DEF Undamaged, Storing
<1>12. CASE ~LeaveISR /\ Accept
  <2>1. /\ IsPulse /\ bad_frame = 0 /\ Onwards("load", isr[1].to)
        /\ UNCHANGED <<chan, bad_frame, PPM_data>>
    BY <1>6, <1>12 DEF Accept, decoder, Steps
  <2>2. run = 0 /\ Counted = chan + 1 /\ isr[1].value[1] = chan
    BY <2>1 DEF Undamaged
  <2> QED BY <1>3, <1>5, <1>12, <2>1, <2>2 DEF Undamaged, Storing
<1>13. ASSUME ~LeaveISR, isr[1].step \in Storing
       PROVE  run = 0 /\ Counted = chan + 1 /\ isr[1].value[1] = chan
  BY <1>5, <1>13 DEF Undamaged
<1>14. CASE ~LeaveISR /\ LoadChan
  <2>1. isr[1].step = "load" /\ Takes(chan) /\ UNCHANGED <<chan, bad_frame, PPM_data>>
    BY <1>14 DEF LoadChan, decoder, Step
  <2>2. chan \in Places
    <3>1. In(1, Storing) BY <1>5, <1>14, <2>1 DEF Storing
    <3> QED BY <1>1, <3>1, Sizes DEF RoomOK, DecoderOK, Places
  <2>3. Onwards("store", chan) BY <1>2, <2>1, <2>2, TakesIs
  <2>4. run = 0 /\ Counted = chan + 1 /\ isr[1].value[1] = chan
    BY <1>13, <1>14, <2>1 DEF Storing
  <2> QED BY <1>3, <1>5, <1>14, <2>1, <2>3, <2>4 DEF Undamaged, Storing
<1>15. CASE ~LeaveISR /\ StoreChannel
  <2>1. /\ isr[1].step = "store" /\ Onwards("count", isr[1].to)
        /\ PPM_data' = [PPM_data EXCEPT ![isr[1].to] = isr[1].value]
        /\ UNCHANGED <<chan, bad_frame>>
    BY <1>6, <1>15 DEF StoreChannel, Step, Steps
  <2>2. /\ run = 0 /\ Counted = chan + 1 /\ isr[1].value[1] = chan
        /\ isr[1].to = chan
    BY <1>5, <1>13, <1>15, <2>1 DEF Undamaged, Storing
  <2>3. \A c \in Channels : PPM_data'[c][1] = c
    <3>1. /\ PPM_data \in [Places -> Values]
          /\ \A c \in Channels : c \in Places
      BY <1>1, Sizes DEF DecoderOK, Channels, Places
    <3>2. ASSUME NEW c \in Channels PROVE PPM_data'[c][1] = c
      <4>1. PPM_data'[c] = IF c = chan THEN isr[1].value ELSE PPM_data[c]
        BY <2>1, <2>2, <3>1
      <4> QED BY <2>2, <4>1 DEF Undamaged
    <3> QED BY <3>2
  <2> QED BY <1>3, <1>5, <1>15, <2>1, <2>2, <2>3 DEF Undamaged, Storing
<1>16. CASE ~LeaveISR /\ CountChannel
  <2>1. PICK c \in {isr[1].to, chan} :
          chan' = c + 1 /\ Goes(IF c >= NUM_CHN THEN "close" ELSE "leave")
    BY <1>16 DEF CountChannel, TooMany
  <2>2. isr[1].step = "count" /\ UNCHANGED <<bad_frame, PPM_data>>
    BY <1>16 DEF CountChannel, Step
  <2>3. run = 0 /\ Counted = chan + 1 /\ isr[1].to = chan
    BY <1>5, <1>13, <1>16, <2>2 DEF Undamaged, Storing
  <2>4. chan' = Counted' BY <1>3, <2>1, <2>3
  <2>5. PICK s \in {"close", "leave"} : Goes(s) BY <2>1
  <2>6. Onwards(s, isr[1].to) BY <1>6, <2>5 DEF Steps
  <2> QED BY <1>3, <1>5, <1>16, <2>2, <2>3, <2>4, <2>5, <2>6 DEF Undamaged, Storing
<1> QED
  BY <1>4, <1>8, <1>9, <1>10, <1>11, <1>12, <1>14, <1>15, <1>16 DEF PPM_decode

LEMMA GlitchSteps ==
  ASSUME TypeOK, RoomOK, OnlyGlitches, Next
  PROVE  OnlyGlitches'
<1>1. SUFFICES ASSUME harm' = 0 PROVE Undamaged'
  BY DEF OnlyGlitches, Undamaged
<1>2. ~NestedEdge /\ ~Dropout /\ harm = 0
  <2>1. NestedEdge \/ Dropout => harm' = 1 BY DEF NestedEdge, Dropout, Disturb
  <2>2. PulseEnds => harm' = harm BY DEF PulseEnds
  <2>3. NoiseEdge => harm' \in {harm, 1} BY DEF NoiseEdge, Disturb
  <2> QED BY <1>1, <2>1, <2>2, <2>3, DecoderLeaves, MainLeaves DEF Next, Receiver
<1>3. Undamaged BY <1>2, UndamagedIs
<1>4. CASE PulseEnds BY <1>3, <1>4, PulseUndamaged
<1>5. CASE NoiseEdge BY <1>1, <1>3, <1>5, GlitchUndamaged
<1>6. CASE PPM_decode BY <1>3, <1>6, DecoderUndamaged
<1>7. CASE Main
  <2>1. UNCHANGED <<slot, width, run, since, isr, chan, bad_frame, PPM_data>>
    BY <1>7, MainLeaves
  <2> QED
    BY <1>3, <2>1 DEF Undamaged, Body, Step, Settled, In, Cur, IsPulse, Counted
<1> QED BY <1>2, <1>4, <1>5, <1>6, <1>7 DEF Next, Receiver

\* What is copied is in place as well.
LEMMA InPlaceSteps ==
  ASSUME TypeOK, CopyUndisturbed, OnlyGlitches, ChannelsInPlace, Next
  PROVE  ChannelsInPlace'
<1>1. MainOK /\ SenderOK /\ DecoderOK BY TypeParts
<1>2. SUFFICES ASSUME harm' = 0
               PROVE  \A c \in Channels : Servo_data'[c][1][1] = c
  BY DEF ChannelsInPlace
<1>3. harm = 0
  <2>1. NestedEdge \/ Dropout => harm' = 1 BY DEF NestedEdge, Dropout, Disturb
  <2>2. PulseEnds => harm' = harm BY DEF PulseEnds
  <2>3. NoiseEdge => harm' \in {harm, 1} BY DEF NoiseEdge, Disturb
  <2> QED BY <1>2, <2>1, <2>2, <2>3, DecoderLeaves, MainLeaves DEF Next, Receiver
<1>4. CASE ReadHigh
  <2>1. /\ pc = "high" /\ Servo_data' = [Servo_data EXCEPT ![i] = <<lo, PPM_data[i]>>]
    BY <1>4 DEF ReadHigh, At
  <2>2. lo = PPM_data[i] /\ i \in Channels /\ PPM_data[i][1] = i
    BY <1>1, <1>3, <2>1 DEF CopyUndisturbed, OnlyGlitches, MainOK
  <2>3. ASSUME NEW c \in Channels PROVE Servo_data'[c][1][1] = c
    <3>1. Servo_data'[c] = IF c = i THEN <<lo, PPM_data[i]>> ELSE Servo_data[c]
      BY <1>1, <2>1 DEF MainOK
    <3> QED BY <1>3, <2>2, <3>1 DEF ChannelsInPlace
  <2> QED BY <2>3
<1>5. CASE ~ReadHigh
  <2>1. Servo_data' = Servo_data
    BY <1>5, ReceiverLeaves, DecoderLeaves DEF Next, Main, FrameReady, NoFrame, Mask,
       ReadLow, Unmask, PPM_FLAG_off, update_channels_aux, Callback, copying
  <2> QED BY <1>3, <2>1 DEF ChannelsInPlace
<1> QED BY <1>4, <1>5

-----------------------------------------------------------------------------
(***************************************************************************)
(* The decoder recovers.                                                   *)
(***************************************************************************)
\* What Recovering says after the first, and the second start of frame.
Measured ==
  /\ Len(isr) <= 1 /\ run = 0 /\ width \in Widths(slot)
  /\ since = IF isr = <<>> THEN 0 ELSE Cur
CountedAlong ==
  /\ Settled => Collected(Counted, Parity)
  /\ Body /\ slot = 1 => Cur > LONG /\ (clean = 3 => Collected(SENT, 1 - odd))
  /\ Body /\ slot # 1 => IsPulse
  /\ (Body /\ slot # 1) \/ In(1, Storing) =>
       /\ slot # 1 /\ isr[1].value = <<Counted - 1, Parity>>
       /\ Collected(Counted - 1, Parity)
  /\ In(1, Storing) => bad_frame = 0
  /\ In(1, {"store", "count"}) => isr[1].to = chan
  /\ Step("count") => PPM_data[chan] = isr[1].value
  /\ Step("close") => slot # 1 /\ chan = NUM_CHN + 1 /\ Stored(Counted, Parity)
                     /\ Counted = chan
  /\ In(1, {"first", "open"}) =>
       slot = 1 /\ (clean = 3 => PPM_FLAG = 1 /\ Stored(SENT, 1 - odd))
  /\ Step("open") => chan = 0

LEMMA NoiseStarts == NoiseEdge \/ NestedEdge \/ Dropout => clean' = 0
BY DEF NoiseEdge, NestedEdge, Dropout, Disturb

LEMMA PulseMeasured ==
  ASSUME TypeOK, Recovering, PulseEnds, clean' > 0
  PROVE  Measured' /\ (clean > 0 => Cur' = width /\ since = 0 /\ run = 0)
<1>1. /\ isr = <<>> /\ since' = (since + (width - run)) % PERIOD
      /\ Edge(since', IF slot > 0 /\ since' = width THEN <<slot - 1, odd>> ELSE Noise)
      /\ width' \in Widths(slot') /\ run' = 0
  BY DEF PulseEnds, Wait
<1>2. isr' # <<>> /\ Len(isr') = 1 /\ Cur' = since' BY <1>1, FirstEdge
<1>3. Measured' BY <1>1, <1>2 DEF Measured
<1>4. ASSUME clean > 0 PROVE Cur' = width /\ since = 0 /\ run = 0
  <2>1. since = 0 /\ run = 0 /\ width \in Widths(slot)
    BY <1>1, <1>4 DEF Recovering
  <2>2. width \in 1 .. PERIOD - 1 BY <2>1, WidthTells
  <2>3. 0 + (width - 0) = width /\ width \in 0 .. PERIOD - 1 BY <2>2, Sizes
  <2>4. since' = width BY <1>1, <2>1, <2>3, Wraps
  <2> QED BY <1>2, <2>1, <2>4
<1> QED BY <1>3, <1>4

LEMMA PulseCountedAlong ==
  ASSUME TypeOK, Recovering, PulseEnds, clean' > 1
  PROVE  CountedAlong'
<1>1. /\ isr = <<>>
      /\ Edge(since', IF slot > 0 /\ since' = width THEN <<slot - 1, odd>> ELSE Noise)
      /\ clean' = IF slot = 0 /\ clean < 3 THEN clean + 1 ELSE clean
      /\ UNCHANGED <<chan, bad_frame, PPM_data>>
  BY DEF PulseEnds, decoder
<1>2. clean \in 0 .. 3 /\ slot \in 0 .. SENT /\ odd \in {0, 1} BY DEF TypeOK
<1>3. clean > 0 BY <1>1, <1>2
<1>4. Cur' = width /\ since = 0 /\ run = 0 /\ width \in Widths(slot)
  <2>1. clean' > 0 BY <1>1, <1>2
  <2> QED BY <1>3, <2>1, PulseMeasured DEF Recovering
<1>5. /\ isr' # <<>> /\ Body' /\ Cur' = since'
      /\ isr'[1].value = IF slot > 0 /\ since' = width THEN <<slot - 1, odd>> ELSE Noise
  BY <1>1, FirstEdge
<1>6. \A n, parity : Collected(n, parity)' <=> Collected(n, parity)
  BY <1>1 DEF Collected, Stored
<1>7. clean > 1 => Collected(Counted, Parity)
  <2>1. Settled BY <1>1 DEF Settled
  <2> QED BY <2>1 DEF Recovering
<1>10. isr'[1].step = "body" BY <1>5 DEF Body, Step
<1>8. CASE slot = 0
  <2>1. slot' = 1 /\ odd' = odd BY <1>8, NextSlot
  <2>2. Cur' > LONG BY <1>4, <1>8, WidthTells
  <2>3. ASSUME clean' = 3
        PROVE  Collected(SENT, 1 - odd)'
    <3>1. clean > 1 BY <1>1, <1>2, <2>3
    <3>2. Counted = SENT /\ Parity = 1 - odd BY <1>8 DEF Counted, Parity
    <3>3. Collected(SENT, 1 - odd) BY <1>7, <3>1, <3>2
    <3> QED BY <1>1, <2>1, <3>3 DEF Collected, Stored
  <2> QED BY <1>5, <1>10, <2>1, <2>2, <2>3, BodyPrimed DEF CountedAlong
<1>9. CASE slot # 0
  <2>1. clean > 1 BY <1>1, <1>9
  <2>2. /\ Counted' = slot /\ slot' # 1 /\ slot - 1 \in Nat /\ Parity' = odd
        /\ Counted = slot - 1 /\ Parity = odd /\ slot > 0
    BY <1>2, <1>9, NextSlot, Sizes DEF Counted, Parity
  <2>3. SHORT <= Cur' /\ Cur' <= LONG BY <1>4, <1>9, WidthTells
  <2>4. isr'[1].value = <<Counted' - 1, Parity'>>
    BY <1>4, <1>5, <2>2
  <2>5. Collected(Counted - 1, Parity)'
    <3>1. Collected(slot - 1, odd) BY <1>7, <2>1, <2>2
    <3> QED BY <1>1, <2>2, <3>1 DEF Collected, Stored
  <2>6. IsPulse' BY <1>5, <2>3 DEF IsPulse
  <2> QED BY <1>5, <1>10, <2>2, <2>4, <2>5, <2>6, BodyPrimed DEF CountedAlong
<1> QED BY <1>8, <1>9

LEMMA DecoderMeasured ==
  ASSUME TypeOK, RoomOK, Measured, PPM_decode
  PROVE  Measured'
<1>1. SenderOK BY TypeParts
<1>2. isr # <<>> /\ isr \in Seq(Edges) /\ Len(isr) \in Nat \ {0} /\ Len(isr) <= 1
  <2>1. isr # <<>> /\ isr \in Seq(Edges) BY <1>1, DecoderRuns DEF SenderOK
  <2> QED BY <2>1, IsrSteps DEF Measured
<1>3. UNCHANGED <<slot, width, run>> /\ since = Cur
  BY <1>2, DecoderLeaves DEF Measured
<1>4. CASE LeaveISR
  <2>1. isr' = Tail(isr) /\ (Moved \/ Len(isr) = 2) BY <1>4 DEF LeaveISR, Overwritten
  <2>2. Len(isr) = 1
    <3>1. PICK n \in Nat \ {0} : n = Len(isr) BY <1>2
    <3> QED BY <1>2, <3>1
  <2>3. isr' = <<>> /\ Len(isr') <= 1 BY <1>2, <2>1, <2>2, IsrSteps
  <2>4. since' = 0
    <3>1. since \in Int /\ since - Cur = 0 BY <1>1, <1>3, Sizes DEF SenderOK
    <3>2. 0 \in 0 .. PERIOD - 1 BY Sizes
    <3> QED BY <2>1, <2>2, <3>1, <3>2, Wraps DEF Moved
  <2> QED BY <1>3, <2>3, <2>4 DEF Measured
<1>5. CASE ~LeaveISR
  <2>1. isr' # <<>> /\ Len(isr') <= 1 /\ since' = Cur'
    BY <1>2, <1>3, <1>5, SingleMoves
  <2> QED BY <1>2, <1>3, <2>1 DEF Measured
<1> QED BY <1>4, <1>5

\* A channel is counted, or was too many.
LEMMA OneMore ==
  ASSUME DecoderOK, NEW n \in Nat, NEW parity, Collected(n, parity),
         isr[1].value = <<n, parity>>
  PROVE  /\ Ignored => Collected(n + 1, parity)'
         /\ bad_frame = 0 => n <= NUM_CHN /\ chan = n
         /\ bad_frame = 0 /\ UNCHANGED <<bad_frame, PPM_data>>
              /\ PPM_data[chan] = isr[1].value /\ chan' = chan + 1 =>
                /\ Stored(n + 1, parity)'
                /\ n < NUM_CHN => Collected(n + 1, parity)'
<1>1. ASSUME Ignored PROVE Collected(n + 1, parity)'
  <2>1. bad_frame = 1 /\ UNCHANGED <<chan, bad_frame, PPM_data>>
    BY <1>1 DEF Ignored, decoder
  <2>2. n > NUM_CHN BY <2>1 DEF Collected
  <2>3. n + 1 > NUM_CHN BY <2>2, Sizes
  <2>4. \A c \in 0 .. NUM_CHN : c < n + 1 => c < n BY <2>2, Sizes
  <2> QED BY <2>1, <2>2, <2>3, <2>4 DEF Collected, Stored
<1>2. ASSUME bad_frame = 0 PROVE n <= NUM_CHN /\ chan = n
  <2>1. ~(n > NUM_CHN) /\ chan = n BY <1>2 DEF Collected
  <2> QED BY <2>1, Sizes
<1>3. ASSUME bad_frame = 0, UNCHANGED <<bad_frame, PPM_data>>,
             PPM_data[chan] = isr[1].value, chan' = chan + 1
      PROVE  /\ Stored(n + 1, parity)'
             /\ n < NUM_CHN => Collected(n + 1, parity)'
  <2>1. n <= NUM_CHN /\ chan = n BY <1>2, <1>3
  <2>2. ASSUME NEW c \in 0 .. NUM_CHN, c < n + 1
        PROVE  PPM_data'[c] = <<c, parity>>
    <3>1. c = n \/ c < n BY <2>2, Sizes
    <3> QED BY <1>3, <2>1, <3>1 DEF Collected, Stored
  <2>3. Stored(n + 1, parity)' BY <2>2 DEF Stored
  <2>4. n < NUM_CHN => ~(n + 1 > NUM_CHN) BY Sizes
  <2> QED BY <1>3, <2>1, <2>3, <2>4 DEF Collected
<1> QED BY <1>1, <1>2, <1>3

LEMMA DecoderCountedAlong ==
  ASSUME TypeOK, RoomOK, CountedAlong, Recovers, Measured, PPM_decode
  PROVE  CountedAlong' /\ Recovers'
<1>1. SenderOK /\ DecoderOK BY TypeParts
<1>2. isr # <<>> /\ isr \in Seq(Edges) BY <1>1, DecoderRuns DEF SenderOK
<1>3. /\ UNCHANGED <<slot, odd, clean>> /\ Counted' = Counted /\ Parity' = Parity
      /\ slot \in 0 .. SENT /\ odd \in {0, 1}
  BY <1>1, DecoderLeaves DEF Counted, Parity, SenderOK
<1>4. CASE LeaveISR
  <2>1. /\ isr' = Tail(isr) /\ Step("leave")
        /\ UNCHANGED <<chan, bad_frame, PPM_data, PPM_FLAG>>
    BY <1>4 DEF LeaveISR, decoder
  <2>2. isr' = <<>>
    <3>1. PICK k \in Nat \ {0} : k = Len(isr) BY <1>2, IsrSteps
    <3>2. k <= 1 BY <3>1 DEF Measured
    <3>3. Len(isr) = 1 BY <3>1, <3>2
    <3> QED BY <1>2, <2>1, <3>3, IsrSteps
  <2>3. Settled /\ (\A t : ~Step(t)') /\ (\A S : ~In(1, S)')
    <3>1. Settled /\ \A t : ~Step(t)' BY <2>1, <2>2 DEF Settled, Step
    <3>2. Len(isr') = 0 BY <2>2
    <3>3. ~(1 \in 1 .. Len(isr')) BY <3>2
    <3> QED BY <3>1, <3>3 DEF In
  <2>4. Collected(Counted, Parity) BY <2>3 DEF CountedAlong
  <2>5. Collected(Counted, Parity)' BY <1>3, <2>1, <2>4 DEF Collected, Stored
  <2> QED BY <2>3, <2>5 DEF CountedAlong, Recovers, Body
<1> DEFINE st == isr[1].step
<1>5. ASSUME ~LeaveISR
      PROVE  /\ ~Body' /\ isr'[1].value = isr[1].value
             /\ \A S : In(1, S) <=> st \in S
             /\ \A t : Step(t) <=> st = t
             /\ \A s, to : Onwards(s, to) =>
                  /\ \A S : In(1, S)' <=> s \in S
                  /\ \A t : Step(t)' <=> s = t
                  /\ Settled' <=> s = "leave"
                  /\ isr'[1].to = to
  <2>1. Len(isr) <= 1 /\ since = Cur BY <1>2 DEF Measured
  <2> QED BY <1>5, <2>1, SingleMoves
<1>6. \A s \in Steps : Goes(s) => Onwards(s, isr[1].to) BY <1>2, GoesIs
<1>7. CASE ~LeaveISR /\ StartOfFrame
  <2>1. /\ Body /\ Cur > LONG /\ Onwards("first", isr[1].to)
        /\ PPM_FLAG' = IF chan > SEEN THEN 1 ELSE PPM_FLAG
        /\ PPM_data' = PPM_data
    BY <1>6, <1>7 DEF StartOfFrame, decoder, Steps
  <2>2. slot = 1
    <3>1. ~IsPulse
      <4>1. Cur \in Nat BY <1>2, IsrSteps, Sizes DEF Cur, Edges
      <4> QED BY <2>1, <4>1, Sizes DEF IsPulse
    <3> QED BY <2>1, <3>1 DEF CountedAlong
  <2>3. ASSUME clean = 3 PROVE PPM_FLAG' = 1 /\ Stored(SENT, 1 - odd)'
    <3>1. Collected(SENT, 1 - odd) BY <2>1, <2>2, <2>3 DEF CountedAlong
    <3>2. chan > SEEN BY <3>1, Sizes DEF Collected
    <3> QED BY <1>3, <2>1, <3>1, <3>2 DEF Collected, Stored
  <2>4. CountedAlong'
    BY <1>3, <1>5, <1>7, <2>1, <2>2, <2>3 DEF CountedAlong, Storing
  <2>5. Recovers' BY <1>5, <1>7, <2>1 DEF Recovers
  <2> QED BY <2>4, <2>5
<1>8. CASE ~LeaveISR /\ ResetChan
  <2>1. /\ st = "first" /\ Onwards("open", isr[1].to) /\ chan' = 0
        /\ UNCHANGED <<PPM_FLAG, PPM_data>>
    BY <1>6, <1>8 DEF ResetChan, FirstChannel, Step, Steps
  <2>2. slot = 1 /\ (clean = 3 => PPM_FLAG = 1 /\ Stored(SENT, 1 - odd))
    BY <1>5, <1>8, <2>1 DEF CountedAlong
  <2>3. Stored(SENT, 1 - odd)' <=> Stored(SENT, 1 - odd)
    BY <1>3, <2>1 DEF Stored
  <2>4. CountedAlong'
    BY <1>3, <1>5, <1>8, <2>1, <2>2, <2>3 DEF CountedAlong, Storing
  <2>5. Recovers' BY <1>5, <1>8, <2>1 DEF Recovers
  <2> QED BY <2>4, <2>5
<1>9. CASE ~LeaveISR /\ OpenFrame
  <2>1. /\ st = "open" /\ Onwards("leave", isr[1].to) /\ bad_frame' = 0
        /\ UNCHANGED <<chan, PPM_FLAG, PPM_data>>
    BY <1>6, <1>9 DEF OpenFrame, Step, Steps
  <2>2. /\ slot = 1 /\ chan = 0
        /\ clean = 3 => PPM_FLAG = 1 /\ Stored(SENT, 1 - odd)
    BY <1>5, <1>9, <2>1 DEF CountedAlong
  <2>3. Counted' = 0 BY <1>3, <2>2 DEF Counted
  <2>4. Collected(Counted, Parity)'
    <3>1. ~(0 > NUM_CHN) /\ \A c \in 0 .. NUM_CHN : ~(c < 0) BY Sizes
    <3> QED BY <2>1, <2>2, <2>3, <3>1 DEF Collected, Stored
  <2>5. CountedAlong' BY <1>5, <1>9, <2>1, <2>4 DEF CountedAlong, Storing
  <2>6. \A c \in Channels : c \in 0 .. NUM_CHN BY Sizes DEF Channels
  <2>7. Recovers' BY <1>3, <2>1, <2>2, <2>6 DEF Recovers, Stored
  <2> QED BY <2>5, <2>7
<1>10. CASE ~LeaveISR /\ Glitch
  <2>1. Body /\ Cur < SHORT BY <1>10 DEF Glitch
  <2>2. Cur \in Nat BY <1>2, IsrSteps, Sizes DEF Cur, Edges
  <2>3. ~IsPulse /\ ~(Cur > LONG) BY <2>1, <2>2, Sizes DEF IsPulse
  <2> QED BY <2>1, <2>3 DEF CountedAlong
<1>11. ASSUME (Body /\ IsPulse) \/ In(1, Storing)
       PROVE  /\ slot # 1 /\ isr[1].value = <<Counted - 1, Parity>>
              /\ Collected(Counted - 1, Parity)
              /\ Counted - 1 \in Nat /\ (Counted - 1) + 1 = Counted
  <2>1. Body /\ IsPulse => slot # 1
    <3>1. Cur \in Nat BY <1>2, IsrSteps, Sizes DEF Cur, Edges
    <3>2. IsPulse => ~(Cur > LONG) BY <3>1, Sizes DEF IsPulse
    <3> QED BY <3>2 DEF CountedAlong
  <2>2. /\ slot # 1 /\ isr[1].value = <<Counted - 1, Parity>>
        /\ Collected(Counted - 1, Parity)
    BY <1>11, <2>1 DEF CountedAlong
  <2> QED BY <1>3, <2>2, Sizes DEF Counted
<1>12. CASE ~LeaveISR /\ Ignored
  <2>1. Body /\ IsPulse /\ Onwards("leave", isr[1].to)
    BY <1>6, <1>12 DEF Ignored, IsPulse, Steps
  <2>2. PICK n \in Nat : n = Counted - 1 /\ n + 1 = Counted BY <1>11, <2>1
  <2>3. PICK parity : parity = Parity OBVIOUS
  <2>4. Collected(n + 1, parity)' BY <1>1, <1>11, <1>12, <2>1, <2>2, <2>3, OneMore
  <2>5. Collected(Counted, Parity)' BY <1>3, <2>2, <2>3, <2>4 DEF Collected, Stored
  <2>6. CountedAlong' BY <1>5, <1>12, <2>1, <2>5 DEF CountedAlong, Storing
  <2>7. Recovers' BY <1>3, <1>11, <2>1 DEF Recovers
  <2> QED BY <2>6, <2>7
<1>13. CASE ~LeaveISR /\ Accept
  <2>1. /\ Body /\ IsPulse /\ Onwards("load", isr[1].to) /\ bad_frame = 0
        /\ UNCHANGED <<chan, bad_frame, PPM_data>>
    BY <1>6, <1>13 DEF Accept, IsPulse, Steps, decoder
  <2>2. /\ slot # 1 /\ isr[1].value = <<Counted - 1, Parity>>
        /\ Collected(Counted - 1, Parity)
    BY <1>11, <2>1
  <2>3. Collected(Counted - 1, Parity)' BY <1>3, <2>1, <2>2 DEF Collected, Stored
  <2>4. CountedAlong'
    BY <1>3, <1>5, <1>13, <2>1, <2>2, <2>3 DEF CountedAlong, Storing
  <2>5. Recovers' BY <1>3, <2>2 DEF Recovers
  <2> QED BY <2>4, <2>5
<1>14. CASE ~LeaveISR /\ LoadChan
  <2>1. st = "load" /\ Takes(chan) /\ UNCHANGED <<chan, bad_frame, PPM_data>>
    BY <1>14 DEF LoadChan, decoder, Step
  <2>2. In(1, Storing) BY <1>5, <1>14, <2>1 DEF Storing
  <2>3. chan \in Places BY <1>1, <2>2, Sizes DEF RoomOK, DecoderOK, Places
  <2>4. Onwards("store", chan) BY <1>2, <2>1, <2>3, TakesIs
  <2>5. /\ slot # 1 /\ isr[1].value = <<Counted - 1, Parity>>
        /\ Collected(Counted - 1, Parity) /\ bad_frame = 0
    BY <1>11, <2>2 DEF CountedAlong
  <2>6. Collected(Counted - 1, Parity)' BY <1>3, <2>1, <2>5 DEF Collected, Stored
  <2>7. CountedAlong'
    BY <1>3, <1>5, <1>14, <2>1, <2>4, <2>5, <2>6 DEF CountedAlong, Storing
  <2>8. Recovers' BY <1>3, <2>5 DEF Recovers
  <2> QED BY <2>7, <2>8
<1>15. CASE ~LeaveISR /\ StoreChannel
  <2>1. /\ st = "store" /\ Onwards("count", isr[1].to)
        /\ PPM_data' = [PPM_data EXCEPT ![isr[1].to] = isr[1].value]
        /\ UNCHANGED <<chan, bad_frame>>
    BY <1>6, <1>15 DEF StoreChannel, Step, Steps
  <2>2. In(1, Storing) /\ In(1, {"store", "count"})
    BY <1>5, <1>15, <2>1 DEF Storing
  <2>3. /\ slot # 1 /\ isr[1].value = <<Counted - 1, Parity>>
        /\ Collected(Counted - 1, Parity) /\ bad_frame = 0 /\ isr[1].to = chan
    BY <1>11, <2>2 DEF CountedAlong
  <2>4. PICK n \in Nat : n = Counted - 1 BY <1>11, <2>2
  <2>5. n <= NUM_CHN /\ chan = n
    <3>1. ~(n > NUM_CHN) /\ chan = n BY <2>3, <2>4 DEF Collected
    <3> QED BY <3>1, Sizes
  <2>6. /\ chan \in Places /\ PPM_data'[chan] = isr[1].value
        /\ \A c \in 0 .. NUM_CHN : c < n => PPM_data'[c] = PPM_data[c]
    <3>1. chan \in Places BY <2>5, Sizes DEF Places
    <3>2. \A c \in 0 .. NUM_CHN : c \in Places BY Sizes DEF Places
    <3>3. \A c \in Places : PPM_data'[c] = IF c = chan THEN isr[1].value ELSE PPM_data[c]
      BY <1>1, <2>1, <2>3 DEF DecoderOK
    <3>4. \A c \in 0 .. NUM_CHN : c < n => c # chan BY <2>5, Sizes
    <3> QED BY <3>1, <3>2, <3>3, <3>4
  <2>7. Collected(Counted - 1, Parity)'
    BY <1>3, <2>1, <2>3, <2>4, <2>6 DEF Collected, Stored
  <2>8. CountedAlong'
    BY <1>3, <1>5, <1>15, <2>1, <2>3, <2>6, <2>7 DEF CountedAlong, Storing
  <2>9. Recovers' BY <1>3, <2>3 DEF Recovers
  <2> QED BY <2>8, <2>9
<1>16. CASE ~LeaveISR /\ CountChannel
  <2>1. PICK c \in {isr[1].to, chan} :
          chan' = c + 1 /\ Goes(IF c >= NUM_CHN THEN "close" ELSE "leave")
    BY <1>16 DEF CountChannel, TooMany
  <2>2. st = "count" /\ UNCHANGED <<bad_frame, PPM_data>>
    BY <1>16 DEF CountChannel, Step
  <2>3. In(1, Storing) /\ In(1, {"store", "count"}) /\ Step("count")
    BY <1>5, <1>16, <2>2 DEF Storing
  <2>4. /\ slot # 1 /\ isr[1].value = <<Counted - 1, Parity>>
        /\ Collected(Counted - 1, Parity) /\ bad_frame = 0 /\ isr[1].to = chan
        /\ PPM_data[chan] = isr[1].value
    BY <1>11, <2>3 DEF CountedAlong
  <2>5. c = chan /\ chan' = chan + 1 BY <2>1, <2>4
  <2>6. PICK n \in Nat : n = Counted - 1 /\ n + 1 = Counted BY <1>11, <2>3
  <2>7. PICK parity : parity = Parity OBVIOUS
  <2>8. /\ n <= NUM_CHN /\ chan = n /\ Stored(n + 1, parity)'
        /\ n < NUM_CHN => Collected(n + 1, parity)'
    BY <1>1, <2>2, <2>4, <2>5, <2>6, <2>7, OneMore
  <2>9. Recovers' BY <1>3, <2>4 DEF Recovers
  <2>10. CASE n = NUM_CHN
    <3>1. Onwards("close", isr[1].to)
      BY <1>6, <2>1, <2>5, <2>8, <2>10, Sizes DEF Steps
    <3>2. Stored(Counted, Parity)' /\ Counted' = chan' /\ chan' = NUM_CHN + 1
      BY <1>3, <2>5, <2>6, <2>7, <2>8, <2>10 DEF Stored
    <3>3. CountedAlong'
      BY <1>3, <1>5, <1>16, <2>4, <3>1, <3>2 DEF CountedAlong, Storing
    <3> QED BY <2>9, <3>3
  <2>11. CASE n # NUM_CHN
    <3>1. n < NUM_CHN BY <2>8, <2>11, Sizes
    <3>2. Onwards("leave", isr[1].to)
      BY <1>6, <2>1, <2>5, <2>8, <3>1, Sizes DEF Steps
    <3>3. Collected(Counted, Parity)'
      BY <1>3, <2>6, <2>7, <2>8, <3>1 DEF Collected, Stored
    <3>4. CountedAlong' BY <1>5, <1>16, <3>2, <3>3 DEF CountedAlong, Storing
    <3> QED BY <2>9, <3>4
  <2> QED BY <2>10, <2>11
<1>17. CASE ~LeaveISR /\ CloseFrame
  <2>1. /\ st = "close" /\ Onwards("leave", isr[1].to) /\ bad_frame' = 1
        /\ UNCHANGED <<chan, PPM_data>>
    BY <1>6, <1>17 DEF CloseFrame, Step, Steps
  <2>2. slot # 1 /\ chan = NUM_CHN + 1 /\ Stored(Counted, Parity) /\ Counted = chan
    BY <1>5, <1>17, <2>1 DEF CountedAlong
  <2>3. Collected(Counted, Parity)'
    <3>1. NUM_CHN + 1 > NUM_CHN BY Sizes
    <3> QED BY <1>3, <2>1, <2>2, <3>1 DEF Collected, Stored
  <2>4. CountedAlong' BY <1>5, <1>17, <2>1, <2>3 DEF CountedAlong, Storing
  <2>5. Recovers' BY <1>3, <2>2 DEF Recovers
  <2> QED BY <2>4, <2>5
<1> QED
  BY <1>4, <1>7, <1>8, <1>9, <1>10, <1>12, <1>13, <1>14, <1>15, <1>16, <1>17 DEF PPM_decode

LEMMA RecoverSteps ==
  ASSUME TypeOK, RoomOK, Recovering, Recovers, Next
  PROVE  Recovering' /\ Recovers'
<1>1. clean \in 0 .. 3 BY DEF TypeOK
<1>2. /\ clean > 0 => Measured
      /\ clean > 1 => CountedAlong
  BY DEF Recovering, Measured, CountedAlong
<1>3. SUFFICES /\ clean' > 0 => Measured'
               /\ clean' > 1 => CountedAlong'
               /\ Recovers'
  BY DEF Recovering, Measured, CountedAlong
<1>4. CASE PulseEnds
  <2>1. clean' > 0 => Measured' BY <1>4, PulseMeasured
  <2>2. clean' > 1 => CountedAlong' BY <1>4, PulseCountedAlong
  <2>3. Body'
    <3>1. isr = <<>> BY <1>4 DEF PulseEnds
    <3> QED BY <1>4, <3>1, FirstEdge DEF PulseEnds
  <2>4. Recovers' BY <2>3 DEF Body, Step, Recovers
  <2> QED BY <2>1, <2>2, <2>4
<1>5. CASE NoiseEdge \/ NestedEdge \/ Dropout
  <2>1. clean' = 0 BY <1>5, NoiseStarts
  <2> QED BY <2>1 DEF Recovers
<1>6. CASE PPM_decode
  <2>1. clean' = clean BY <1>6, DecoderLeaves
  <2>2. clean' > 0 => Measured' BY <1>2, <1>6, <2>1, DecoderMeasured
  <2>3. clean' > 1 => CountedAlong' /\ Recovers'
    <3>1. clean > 1 => clean > 0 BY <1>1
    <3> QED BY <1>2, <1>6, <2>1, <3>1, DecoderCountedAlong
  <2>4. ~(clean' > 1) => Recovers' BY <1>1, <2>1 DEF Recovers
  <2> QED BY <2>2, <2>3, <2>4
<1>7. CASE Main
  <2>1. /\ isr = <<>>
        /\ UNCHANGED <<slot, width, run, odd, clean, since, isr, chan, bad_frame, PPM_data>>
    BY <1>7, MainLeaves
  <2>2. clean' > 0 => Measured' BY <1>2, <2>1 DEF Measured, Cur
  <2>3. clean' > 1 => CountedAlong'
    BY <1>2, <2>1 DEF CountedAlong, Settled, In, Body, Step, Cur, IsPulse, Counted, Parity,
       Collected, Stored
  <2>4. Recovers' BY <2>1 DEF Recovers, Step
  <2> QED BY <2>2, <2>3, <2>4
<1> QED BY <1>4, <1>5, <1>6, <1>7 DEF Next, Receiver

-----------------------------------------------------------------------------
LEMMA PpmStarts == Init => PpmInvariant
<1> SUFFICES ASSUME Init PROVE PpmInvariant OBVIOUS
<1>1. /\ slot = 0 /\ width \in Widths(slot) /\ run = 0 /\ odd = 0 /\ clean = 0 /\ harm = 0
      /\ since \in {0, PERIOD - 1} /\ isr = <<>>
      /\ chan = 0 /\ bad_frame = 1 /\ PPM_FLAG = 0
      /\ PPM_data = [c \in Places |-> <<c, 0>>]
      /\ pc = "poll" /\ i = 0 /\ lo = Noise /\ masked = 0 /\ INPUT_SIGNAL = 0 /\ turned = 0
      /\ Servo_data = [c \in Channels |-> <<<<c, 0>>, <<c, 0>>>>]
  BY DEF Init, Widths
<1>2. /\ Len(isr) = 0 /\ isr \in Seq(Edges) /\ ~Body /\ ~IsPulse
      /\ (\A t : ~Step(t)) /\ (\A k \in {1, 2} : \A S : ~In(k, S))
  BY <1>1 DEF Body, IsPulse, Step, In
<1>3. \A c \in Channels : c \in Places BY Sizes DEF Channels, Places
<1>4. \A c \in Places : <<c, 0>> \in Values BY DEF Values
<1>5. SenderOK
  <2>1. width \in Nat BY <1>1, WidthsAre
  <2> QED BY <1>1, <1>2, <2>1, Sizes DEF SenderOK
<1>6. DecoderOK BY <1>1, <1>4, Sizes DEF DecoderOK
<1>7. MainOK
  <2>1. Servo_data \in [Channels -> Values \X Values] BY <1>1, <1>3, <1>4
  <2>2. lo \in Values /\ i \in Channels BY <1>1, Sizes DEF Values, Channels
  <2> QED BY <1>1, <2>1, <2>2 DEF MainOK
<1>8. TypeOK BY <1>5, <1>6, <1>7, TypeParts
<1>9. CopyUndisturbed BY <1>1 DEF CopyUndisturbed
<1>10. OnlyGlitches
  <2>1. \A c \in Channels : PPM_data[c][1] = c BY <1>1, <1>3
  <2> QED BY <1>1, <1>2, <2>1 DEF OnlyGlitches
<1>11. ChannelsRight BY <1>1 DEF ChannelsRight, ChannelsWhole, ChannelsInPlace
<1>12. Recovering /\ Recovers BY <1>1 DEF Recovering, Recovers
<1>13. RoomOK BY <1>1, <1>2 DEF RoomOK
<1> QED BY <1>8, <1>9, <1>10, <1>11, <1>12, <1>13 DEF PpmInvariant

LEMMA PpmSteps ==
  ASSUME PpmInvariant, [Next]_vars
  PROVE  PpmInvariant'
<1>1. /\ TypeOK /\ RoomOK /\ CopyUndisturbed /\ OnlyGlitches /\ ChannelsWhole /\ ChannelsInPlace
      /\ Recovering /\ Recovers
  BY DEF PpmInvariant, ChannelsRight
<1>2. CASE Next
  <2>1. TypeOK' BY <1>1, <1>2, TypeSteps
  <2>2. CopyUndisturbed' /\ ChannelsWhole' BY <1>1, <1>2, CopySteps
  <2>3. OnlyGlitches' /\ ChannelsInPlace' BY <1>1, <1>2, GlitchSteps, InPlaceSteps
  <2>4. Recovering' /\ Recovers' BY <1>1, <1>2, RecoverSteps
  <2>5. RoomOK' BY <1>1, <1>2, RoomSteps
  <2> QED BY <2>1, <2>2, <2>3, <2>4, <2>5 DEF PpmInvariant, ChannelsRight
<1>3. CASE UNCHANGED vars
  <2>1. UNCHANGED <<slot, width, run, odd, noise, clean, harm, since, isr, chan,
                    bad_frame, PPM_data, PPM_FLAG, pc, i, lo, masked, Servo_data,
                    INPUT_SIGNAL, turned>>
    BY <1>3 DEF vars, sender, decoder, copying
  <2>2. TypeOK' BY <1>1, <2>1 DEF TypeOK
  <2>3. CopyUndisturbed' BY <1>1, <2>1 DEF CopyUndisturbed
  <2>4. OnlyGlitches'
    BY <1>1, <2>1 DEF OnlyGlitches, Settled, In, Body, Step, Cur, IsPulse, Counted
  <2>5. ChannelsWhole' /\ ChannelsInPlace'
    BY <1>1, <2>1 DEF ChannelsWhole, ChannelsInPlace
  <2>6. Recovering'
    BY <1>1, <2>1 DEF Recovering, Settled, In, Body, Step, Cur, IsPulse, Counted, Parity,
       Collected, Stored
  <2>7. Recovers' BY <1>1, <2>1 DEF Recovers, Step
  <2>8. RoomOK' BY <1>1, <2>1 DEF RoomOK, In, Closing
  <2> QED BY <2>2, <2>3, <2>4, <2>5, <2>6, <2>7, <2>8 DEF PpmInvariant, ChannelsRight
<1> QED BY <1>2, <1>3

\* The inductive invariant: while there are only glitches a frame without one is
\* counted along with the receiver's, and after any noise from the second start of
\* frame on (ISR(INT0_vect), update_ppm).
THEOREM PpmInvariantHolds == Spec => []PpmInvariant
<1>1. Init => PpmInvariant BY PpmStarts
<1>2. PpmInvariant /\ [Next]_vars => PpmInvariant' BY PpmSteps
<1> QED BY <1>1, <1>2, PTL DEF Spec

\* A stick position is never put together from two, although the interrupt may come
\* at any time, and glitches never shift the channels (update_ppm between cli and
\* sei).
THEOREM StickPositionsAreRight == Spec => []ChannelsRight
<1>1. PpmInvariant => ChannelsRight BY DEF PpmInvariant
<1> QED BY <1>1, PpmInvariantHolds, PTL

\* At the third start of frame after any noise, a frame with all its channels right
\* is handed over (ISR(INT0_vect), PPM_FLAG).
THEOREM DecoderRecovers == Spec => []Recovers
<1>1. PpmInvariant => Recovers BY DEF PpmInvariant
<1> QED BY <1>1, PpmInvariantHolds, PTL

===============================================================================
