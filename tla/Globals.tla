------------------------------- MODULE Globals -------------------------------
(***************************************************************************)
(* The variables that all protocols share (Multiprotocol.ino) and the      *)
(* registers of the radio chip in use, as one record.  A protocol's init   *)
(* sets some of its fields and leaves the others as the protocol before    *)
(* left them; its callback changes them and puts at most one packet on the *)
(* air.                                                                    *)
(*                                                                         *)
(* What is kept of a packet is its kind; of a channel the place in the     *)
(* hopping table it was taken from; of an address whether it is the one    *)
(* all receivers listen to while binding, the transmitter's own, or the    *)
(* only one a protocol has.                                                *)
(***************************************************************************)
EXTENDS Integers, Sequences

CONSTANT Laps   \* Bound: a bind countdown goes this often round the hopping table.

(* The shortened countdowns and Hubsan's count fit in their bytes.         *)
ASSUME LapsAssumption == Laps \in 1..50

Nowhere == <<"none", 0>>
Silence ==
  [kind |-> "none", ch |-> Nowhere, adr |-> "none", code |-> "none", says |-> Nowhere,
   carries |-> <<>>]

PowerUp ==
  [ protocol |-> "NONE", sub_protocol |-> "NONE", option |-> 0, id |-> 0, autobind |-> FALSE,
    bind_done |-> TRUE, phase |-> "NONE", step |-> 0, bind_counter |-> 0, bind_phase |-> 0,
    binding_idx |-> 0, counter |-> 0, state |-> 0, packet_count |-> 0, packet_sent |-> 0,
    packet |-> "none", packet_period |-> 0, hopping_frequency_no |-> 0,
    hopping_frequency |-> Nowhere, rf_ch_num |-> 0, scrambled |-> TRUE,
    rf |-> Nowhere, adr |-> "none", code |-> "plain", air |-> Silence, delay |-> 0,
    txState |-> 0, bind_count |-> 0, handshake_counter |-> 0, id_data |-> "none",
    vtx_freq |-> 0, prev_option |-> 0, num_ch |-> 0, ch_idx |-> 0, hopping_frequency_ptr |-> 0,
    packet_type |-> "sticks", packet_counter |-> 0, lpass |-> 0, says |-> Nowhere,
    video |-> <<0, 0>>, yz_seq_num |-> 0, ls_counter |-> 0 ]

(* modules_reset: the chips forget what was set; the RAM does not.         *)
modules_reset(s) ==
  [s EXCEPT !.rf = Nowhere, !.adr = "none", !.code = "plain", !.air = Silence]

(* A countdown from n with the same remainder, so that the hopping index   *)
(* and the packet counter are where they would be at its end.              *)
Shortened(n, cycle) == (n % cycle) + Laps * cycle

BIND_DONE(s) == [s EXCEPT !.bind_done = TRUE]

After(s, us) == [s EXCEPT !.delay = us]
Address(s, a) == [s EXCEPT !.adr = a]
Tune(s, ch) == [s EXCEPT !.rf = ch]
Phase(s, p) == [s EXCEPT !.phase = p]

(* A channel that is no place in any table, and a place in the table:      *)
(* beyond it lies what other protocols, or other variables, have left.     *)
Only(name) == <<name, 0>>
Hop(s, i) ==
  <<IF i < s.hopping_frequency[2] THEN s.hopping_frequency[1] ELSE "stray", i>>

(* The packet is built, or sent as it is.  Some packets name the place in  *)
(* the table they are sent on, some carry on from the packets before, and  *)
(* some chips spread them by a code.                                       *)
Build(s, kind) == [s EXCEPT !.packet = kind, !.says = Nowhere]
Naming(s, ch) == [s EXCEPT !.says = ch]
Carrying(s, c) == [s EXCEPT !.air.carries = c]
Resend(s) ==
  [s EXCEPT !.air = [kind |-> s.packet, ch |-> s.rf, adr |-> s.adr, code |-> s.code,
                     says |-> s.says, carries |-> <<>>]]
Send(s, kind) == Resend(Build(s, kind))

NRF24L01_Keep(s) == s                          \* Mutant: scrambled stays.
(* NRF24L01_Initialize, and the packets of the XN297 it stands in for.     *)
NRF24L01_Initialize(s) == [s EXCEPT !.scrambled = TRUE]
XN297_SetScrambledMode(s, on) == [s EXCEPT !.scrambled = on]
XN297_Resend(s) ==
  [s EXCEPT !.air = [kind |-> s.packet, ch |-> s.rf, adr |-> s.adr,
                     code |-> IF s.scrambled THEN "scrambled" ELSE "unscrambled",
                     says |-> s.says, carries |-> <<>>]]
XN297_Send(s, kind) == XN297_Resend(Build(s, kind))

Kind(bind) == IF bind = 1 THEN "bind" ELSE "data"
==============================================================================
