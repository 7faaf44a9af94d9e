--------------------------- MODULE MCCoordination ---------------------------
(***************************************************************************)
(* Small instances of Coordination: one experiment per hazard.             *)
(***************************************************************************)
EXTENDS Coordination

CONSTANTS t1, l1, s1, s2

MCAgents == {t1, l1, s1, s2}

\* An agent of each role; launches fail, agents die.
Fixed ==
  [th |-> <<t1>>, lt |-> <<l1>>, sym |-> <<s1>>, pattern |-> "fixed",
   waitConn |-> TRUE, mainLoad |-> 1, latLoad |-> 1, steps |-> 1,
   polls |-> 3, tries |-> 1, mayFail |-> {l1, s1}, mayDie |-> {t1, s1}]

\* The self-correcting pattern, with retries.
SelfCorrecting ==
  [Fixed EXCEPT !.lt = <<>>, !.pattern = "fixedQual", !.latLoad = 0,
                !.polls = 2, !.tries = 3, !.mayFail = {s1}, !.mayDie = {s1}]

\* A latency rate of zero: the lt manager dies of the division in start_load
\* after acknowledging it.
ZeroLatencyRate ==
  [Fixed EXCEPT !.sym = <<>>, !.pattern = "step", !.waitConn = FALSE,
                !.latLoad = 0, !.steps = 2, !.polls = 1,
                !.mayFail = {}, !.mayDie = {t1}]

\* Two agents and two load levels.
TwoLevels ==
  [Fixed EXCEPT !.th = <<>>, !.lt = <<>>, !.sym = <<s1, s2>>,
                !.pattern = "step", !.latLoad = 0, !.steps = 2, !.polls = 2,
                !.mayFail = {}, !.mayDie = {}]

AllExperiments == {Fixed, SelfCorrecting, ZeroLatencyRate}
StepExperiments == {TwoLevels}
=============================================================================
