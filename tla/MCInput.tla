------------------------------- MODULE MCInput -------------------------------
(***************************************************************************)
(* The two ways channels reach the module: mode_select, the dial read at   *)
(* power-up, decides which of them runs; the other rests.                  *)
(***************************************************************************)
EXTENDS SerialLink, PpmInput

VARIABLE mode_select
all == <<mode_select, linkVars, vars>>

\* PPM: one tick stands for 250us, 500 ticks of the timer: it wraps after
\* 32.75ms.  The dropout is longer than that, and looks like a short pulse.
\* Noise 12 ticks into the gap looks like the start of a frame.
PpmRests == Init /\ since = 0 /\ \A gap \in Gaps : width <= gap

InputInit ==
  \/ mode_select = "serial" /\ LinkInit /\ PpmRests
  \/ mode_select = "ppm" /\ Init /\ LinkInit
InputNext ==
  \/ mode_select = "serial" /\ LinkNext /\ UNCHANGED <<mode_select, vars>>
  \/ mode_select = "ppm" /\ Next /\ UNCHANGED <<mode_select, linkVars>>
InputSpec == InputInit /\ [][InputNext]_all
==============================================================================
