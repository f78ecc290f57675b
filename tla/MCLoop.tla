------------------------------- MODULE MCLoop -------------------------------
(***************************************************************************)
(* The scheduler of loop and the transmit ring share the processor and no  *)
(* state: one run checks both, each while the other rests.                 *)
(***************************************************************************)
EXTENDS Scheduler, TxRing

VARIABLE component
all == <<component, vars, ringVars>>

\* One tick stands for 500us: the timer wraps after 32ms, as it does at 0.5us
\* a tick (32.768ms).  Some callbacks fit and leave 200us of their time, or less.
TimingsThatFit == {<<1, 3>>, <<2, 3>>, <<7, 8>>, <<3, 8>>, <<2, 13>>, <<0, 40>>}
SomeTimings    == TimingsThatFit \cup {<<5, 3>>, <<6, 13>>, <<70, 40>>}

\* Modes: 0 is MODE_SERIAL, 1 stands for PPM mode.  A frame of 4 bytes is to a
\* ring of 5 what that of AFHDS2A, with 30, is to one of 32.
SchedulerRests == Init /\ remote_callback = 0
RingRests      == RingInit /\ mode_select = MODE_SERIAL
SchedulerStep  == component = "scheduler" /\ Next /\ UNCHANGED <<component, ringVars>>
RingStep(A)    == component = "ring" /\ A /\ UNCHANGED <<component, vars>>

LoopInit ==
  \/ component = "scheduler" /\ Init /\ RingRests
  \/ component = "ring" /\ RingInit /\ SchedulerRests
LoopNext == SchedulerStep \/ RingStep(RingNext)

\* The fairness of FairSpec and of RingFairSpec.
LoopSpec ==
  /\ LoopInit /\ [][LoopNext]_all
  /\ WF_all(SchedulerStep)
  /\ WF_all(RingStep(Udre)) /\ WF_all(RingStep(Shifted)) /\ WF_all(RingStep(Work))
=============================================================================
