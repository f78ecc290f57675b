------------------------------ MODULE TxQueue ------------------------------
(***************************************************************************)
(* What the telemetry transmit buffer promises, whatever its layout: bytes *)
(* leave in the order they were written, each once, none invented, and at  *)
(* most Capacity of them wait.  A reset discards the waiting bytes, but    *)
(* may leave old ones in the buffer, which then leave first.  A byte put   *)
(* in the full buffer, by an oversize frame, loses itself and all others.  *)
(*                                                                         *)
(* A byte is known by its number: the first byte written is byte 1.        *)
(***************************************************************************)
EXTENDS Naturals

CONSTANT Capacity

VARIABLES
  oversize,   \* An input: the frame being written may not fit.
  written,    \* The last byte put in the queue.
  gone,       \* The last byte that left it, sent, discarded or lost.
  stale,      \* Bytes from before a reset that are still to leave.
  UDR0        \* The last byte handed to the USART.

vars == <<written, gone, stale, UDR0>>

Init == written = 0 /\ gone = 0 /\ stale = 0 /\ UDR0 = 0

Held == written - gone + stale

Put ==
  /\ Held < Capacity
  /\ written' = written + 1
  /\ UNCHANGED <<gone, stale, UDR0>>

Overrun ==
  /\ oversize /\ Held = Capacity
  /\ written' = written + 1 /\ gone' = written' /\ stale' = 0
  /\ UNCHANGED UDR0

Send ==
  /\ stale = 0 /\ gone < written
  /\ gone' = gone + 1 /\ UDR0' = gone'
  /\ UNCHANGED <<written, stale>>

SendStale ==
  /\ stale > 0 /\ stale' = stale - 1
  /\ UDR0' \in 0 .. written
  /\ UNCHANGED <<written, gone>>

Discard ==
  /\ gone' = written /\ stale' \in 0 .. Capacity
  /\ UNCHANGED <<written, UDR0>>

Next == Put \/ Overrun \/ Send \/ SendStale \/ Discard

Spec == Init /\ [][Next]_vars
=============================================================================
