-------------------------- MODULE MCProtocolSelect ---------------------------
EXTENDS ProtocolSelect

CONSTANTS plain, always, foreign, no_model

HeldOrNot == [m \in Modes |-> {0, 1}]

\* The bind channel up with the throttle up or down, down, and between.
SomeSticks == {[bind_ch |-> c, throttle |-> "low"] : c \in {"low", "mid", "high"}}
              \cup {[bind_ch |-> "high", throttle |-> "up"]}
=============================================================================
