-------------------------- MODULE MCSelfCorrection --------------------------
(***************************************************************************)
(* Command lines for SelfCorrection, with rates and samples scaled down.   *)
(***************************************************************************)
EXTENDS SelfCorrection

Three == [sym |-> 3, th |-> 0, lt |-> 0, load |-> 62, step |-> 30, levels |-> 2,
          lqps |-> 40, samples |-> 25, initial |-> 20, qual |-> TRUE]

\* A second latency agent, load that does not divide.
Mixed == [sym |-> 0, th |-> 2, lt |-> 2, load |-> 41, step |-> 20, levels |-> 2,
          lqps |-> 6, samples |-> 20, initial |-> 10, qual |-> TRUE]

\* One percent, and an agent fast enough for it, so that reductions
\* reach the lowest rate before the limit of time.
Rare == [sym |-> 0, th |-> 1, lt |-> 1, load |-> 30, step |-> 1, levels |-> 3,
         lqps |-> 5000, samples |-> 1, initial |-> 1, qual |-> TRUE]

LoadOnly == [sym |-> 0, th |-> 2, lt |-> 0, load |-> 20, step |-> 0, levels |-> 1,
             lqps |-> 40, samples |-> 20, initial |-> 20, qual |-> TRUE]

LatencyOnly == [sym |-> 0, th |-> 0, lt |-> 1, load |-> 0, step |-> 10, levels |-> 2,
                lqps |-> 40, samples |-> 20, initial |-> 20, qual |-> TRUE]

Command == {Three, Mixed, Rare, LoadOnly, LatencyOnly}
CommandLines == Command \cup {[e EXCEPT !.qual = FALSE] : e \in Command}
=============================================================================
