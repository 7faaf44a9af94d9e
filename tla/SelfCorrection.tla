--------------------------- MODULE SelfCorrection ---------------------------
(***************************************************************************)
(* The decisions and the arithmetic of the load patterns of the            *)
(* coordinator (fixedPattern, fixedQualPattern and stepPattern in          *)
(* coordinator.go, stats.go): how load and sampling are shared out to the  *)
(* agents, how long a measurement takes, and when the self-correcting      *)
(* pattern loads again, measures again at a lower rate, or reports.        *)
(*                                                                         *)
(* Messages and their failures are the subject of Coordination; here every *)
(* agent answers, and an answer says anything.  The sampling rate is a     *)
(* percentage, kept as the initial one over an integer.                    *)
(***************************************************************************)
EXTENDS Integers, FiniteSets, FiniteSetsExt

CONSTANTS
  Experiments,  \* command lines: see Experiment
  MaxTries,     \* maxTries: 10 in the code
  MaxDuration,  \* maxDuration: 900 seconds in the code
  Lags          \* ToReduceSampling of a reply: the lags of check_iid

\* sym, th, lt: numbers of agents; load, step, levels: the load pattern, in
\* requests per second; lqps: the rate of the lt agents.
Experiment == [sym : Nat, th : Nat, lt : Nat, load : Nat, step : Nat,
               levels : Nat \ {0}, lqps : Nat, samples : Nat \ {0},
               initial : Nat \ {0}, qual : BOOLEAN]

ASSUME SelfCorrectionAssumption ==
  /\ {MaxTries, MaxDuration} \subseteq Nat \ {0}
  /\ Lags \subseteq Nat \ {0, 1} /\ Lags # {}
  \* The list of check_iid has a last one.
  /\ \A lag \in Lags : lag <= Max(Lags)
  /\ \A e \in Experiments :
       /\ e \in Experiment
       \* With less than one request per second and agent a duration is infinite.
       /\ e.load >= e.sym + e.th /\ (e.lt > 0 => e.lqps > 0)
       /\ e.sym + e.th + e.lt > 0
       \* Nothing in the code enforces this: with a total above 200 percent, as of 11
       \* sampling agents at the default 20 percent, lround(1 / rate) is 0 and every
       \* one of them ends at the remainder by it.  Such command lines are left out.
       /\ e.initial * (e.sym + e.lt) <= 200

VARIABLES
  exp,        \* the experiment
  level,      \* load level of a step pattern
  state,      \* c.state: "Load", "Measure" or "Exit"; "fixed" for the pattern
              \* without self-correction; "returned" or "panicked" at the end
  tries,      \* tryCount
  divisor,    \* c.samplingRate is exp.initial / divisor percent
  outcome,    \* per level, what the pattern function returned
  checked,    \* ghost: per level, the checks of its last loading: whether all agents served
              \* what they were told, whether the throughput check passed, and whether
              \* the inter-arrival times were found correct
  report      \* ghost: per level, its last measurement: whether some agent's samples
              \* were IID, its duration (0: none) and the divisor then

vars == <<exp, level, state, tries, divisor, outcome, checked, report>>

-----------------------------------------------------------------------------
(* What the coordinator computes.                                          *)

Ceil(a, b) == (a + b - 1) \div b
Lround(a, b) == (2 * a + b) \div (2 * b)

Agents == ({"sym"} \X (1..exp.sym)) \cup ({"th"} \X (1..exp.th))
          \cup ({"lt"} \X (1..exp.lt))
Sampling == {a \in Agents : a[1] # "th"}

\* Fault: the latency rate is the flag's, with or without lt agents.
LatencyRateOfFlag == exp.lqps

\* runExp: no latency rate without lt agents.
LatencyRate == IF exp.lt = 0 THEN 0 ELSE exp.lqps

LoadRate == exp.load + (level - 1) * exp.step
PerAgentLoad == IF exp.sym + exp.th = 0 THEN 0
                ELSE LoadRate \div (exp.sym + exp.th)

\* load: what each agent is told.
Told(a) == IF a[1] = "lt" THEN LatencyRate ELSE PerAgentLoad

Expected == LoadRate + LatencyRate

\* The sampling rate sent with START_MEASURE is Percent / divisor percent.
Percent == IF Sampling = {} THEN 100 * divisor
           ELSE exp.initial * Cardinality(Sampling)

BaseRate == IF exp.lt > 0 THEN LatencyRate ELSE PerAgentLoad

\* Fault: the duration is rounded down.
DurationRoundedDown == (exp.samples * 100 * divisor) \div (BaseRate * Percent)

\* Seconds until an agent with the base rate has its samples.
Duration == Ceil(exp.samples * 100 * divisor, BaseRate * Percent)

\* add_latency_sample takes one in this many requests.
SamplingStep == Lround(100 * divisor, Percent)

\* Fault: the sampling rate is reduced as long as there are tries.
ReducibleAlways == TRUE

\* "Can't reduce sampling further" below 0.01 percent.
Reducible == 100 * exp.initial >= divisor

-----------------------------------------------------------------------------
(* The patterns.                                                           *)

\* Fault: the state is left as the last level left it.
StartStateKept == state

\* fixedQualPattern begins by loading.
StartState == "Load"

\* The pattern function returns; stepPattern goes on with the next level.
Return(res) ==
  /\ outcome' = [outcome EXCEPT ![level] = res]
  /\ tries' = 0
  /\ IF level < exp.levels
     THEN /\ level' = level + 1
          /\ state' = IF exp.qual THEN StartState ELSE "fixed"
     ELSE state' = "returned" /\ UNCHANGED level

\* A check has failed: count the try and go on in state s.
TryAgain(s) ==
  IF tries + 1 = MaxTries THEN Return("tries")
  ELSE /\ tries' = tries + 1 /\ state' = s
       /\ UNCHANGED <<level, outcome>>

\* A measurement of this level has been collected.
Reports(iid) ==
  report' = [report EXCEPT ![level] = [iid |-> iid # {}, duration |-> Duration,
                                       divisor |-> divisor]]

\* Requests per second of n agents that were told rate, summed over their
\* answers (computeStatsThroughput); slow of them serve half of it.
Served(n, slow, rate) == (n - slow) * rate + slow * (rate \div 2)

\* Load, then a measurement of a second; iad: some agent finds its inter-arrival
\* times correct.
LoadTry ==
  /\ state = "Load"
  /\ \E slow \in 0..exp.sym + exp.th, slowLt \in 0..exp.lt, iad \in BOOLEAN :
       LET rps  == Served(exp.sym + exp.th, slow, PerAgentLoad)
                   + Served(exp.lt, slowLt, LatencyRate)
           full == slow = 0 /\ slowLt = 0
           good == 10 * rps <= 11 * Expected /\ 10 * rps >= 9 * Expected
       IN  /\ checked' = [checked EXCEPT ![level] = [full |-> full, passed |-> good,
                                                   arrivals |-> iad]]
           /\ IF good /\ iad
              THEN state' = "Measure" /\ UNCHANGED <<level, tries, outcome>>
              ELSE TryAgain("Load")
  /\ UNCHANGED <<exp, divisor, report>>

\* Measure, wait, and collect latencies: iid are the agents whose samples pass,
\* asked the reductions the agents ask for.  The sum of the answers decides, and
\* the least reduction.  Averaging no answers is an integer division by zero.
MeasureTry ==
  /\ state = "Measure" /\ Sampling # {}
  /\ \E iid \in SUBSET Sampling, asked \in (SUBSET Lags) \ {{}} :
       LET late == Duration > MaxDuration  \* maxTimeReached
           again == ~late /\ iid = {} /\ Reducible
       IN  /\ Reports(iid)
           /\ divisor' = IF again
                         THEN divisor * Min(asked) ELSE divisor
           /\ \/ again /\ TryAgain("Measure")
              \/ ~again /\ late /\ Return("maxTime")
              \/ ~again /\ ~late /\ state' = "Exit"
                 /\ UNCHANGED <<level, tries, outcome>>
  /\ UNCHANGED <<exp, checked>>

Panic ==
  /\ state = "Measure" /\ Sampling = {}
  /\ state' = "panicked"
  /\ UNCHANGED <<exp, level, tries, divisor, outcome, checked, report>>

ExitState ==
  /\ state = "Exit"
  /\ Return("ok")
  /\ UNCHANGED <<exp, divisor, checked, report>>

\* fixedPattern: load, measure once, report.
MeasureFixed ==
  /\ state = "fixed"
  /\ \E iid \in SUBSET Sampling : Reports(iid)
  /\ Return("ok")
  /\ UNCHANGED <<exp, divisor, checked>>

-----------------------------------------------------------------------------
Init ==
  /\ exp \in Experiments
  /\ level = 1 /\ tries = 0 /\ divisor = 1
  /\ state = IF exp.qual THEN "Load" ELSE "fixed"
  /\ outcome = [l \in 1..exp.levels |-> "none"]
  /\ checked = [l \in 1..exp.levels |->
                  [full |-> FALSE, passed |-> FALSE, arrivals |-> FALSE]]
  /\ report = [l \in 1..exp.levels |-> [iid |-> FALSE, duration |-> 0, divisor |-> 1]]

Ended == state \in {"returned", "panicked"} /\ UNCHANGED vars

Next == LoadTry \/ MeasureTry \/ Panic \/ ExitState \/ MeasureFixed \/ Ended

Spec == Init /\ [][Next]_vars

-----------------------------------------------------------------------------
(* Properties.                                                             *)

\* Every variable keeps its type.  The sampling rate, which levels hand on to
\* each other, is never divided once it is below 0.01 percent, and on the command lines
\* that the assumption admits the agents' sampling step is not zero.
TypeOK ==
  /\ exp \in Experiments /\ level \in 1..exp.levels
  /\ state \in {"Load", "Measure", "Exit", "fixed", "returned", "panicked"}
  /\ tries \in 0..MaxTries - 1
  /\ divisor \in 1..100 * exp.initial * Max(Lags)
  /\ outcome \in [1..exp.levels -> {"none", "ok", "tries", "maxTime"}]
  /\ SamplingStep > 0

\* Agents that serve exactly what they were told pass the throughput check,
\* although each gets a rounded share and the sum is compared with the rates of
\* the command line.  It is not so with a second lt agent, with a load that hardly
\* divides, or with lt agents alone: then no agent is told the load that the
\* check expects.
DeliveredIsAccepted ==
  \A l \in 1..exp.levels :
    /\ checked[l].full /\ exp.lt <= 1
    /\ exp.sym + exp.th > 0 /\ exp.load >= 10 * (exp.sym + exp.th)
    => checked[l].passed

\* A level of a self-correcting pattern that ends without error reports its own
\* measurement, taken after throughput and inter-arrival times of this level's own
\* loading were both accepted, within the limit of time, and from samples that
\* were IID at some agent or sampled at less than 0.01 percent.
ReportsAreEarned ==
  \A l \in 1..exp.levels :
    exp.qual /\ outcome[l] = "ok" =>
      /\ checked[l].passed /\ checked[l].arrivals
      /\ report[l].duration \in 1..MaxDuration
      /\ report[l].iid \/ report[l].divisor > 100 * exp.initial

\* A measurement is long enough for every agent that serves what it was told:
\* it has its samples at the end, unless the sampling step was rounded up, or
\* the duration was computed from the higher rate of the lt agents.
EnoughSamples ==
  state \in {"Measure", "fixed"} /\ SamplingStep * Percent <= 100 * divisor =>
    \A a \in Sampling :
      Told(a) >= BaseRate => (Told(a) * Duration) \div SamplingStep >= exp.samples
=============================================================================
