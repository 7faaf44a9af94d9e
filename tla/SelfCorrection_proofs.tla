------------------------ MODULE SelfCorrection_proofs ------------------------
(***************************************************************************)
(* Theorems about SelfCorrection, for any command lines, limits and lags   *)
(* the assumptions allow.                                                  *)
(*                                                                         *)
(* A level that has been entered has no outcome before its pattern         *)
(* returns, the state "Measure" is entered with an accepted load, and      *)
(* "Exit" with a measurement of this level (LevelInv).  That a measurement *)
(* is long enough is a chain of inequalities between products, from the    *)
(* rounding of the duration to that of the sampling step.                  *)
(***************************************************************************)
EXTENDS SelfCorrection, FiniteSetTheorems, WellFoundedInduction, TLAPS

Running == state \in {"Load", "Measure", "Exit", "fixed"}

Divisors == 1..100 * exp.initial * Max(Lags)

\* What is recorded of a loading.
Checks == [full : BOOLEAN, passed : BOOLEAN, arrivals : BOOLEAN]

\* Both checks of a loading have passed.
Accepted(check) == check.passed /\ check.arrivals

StateTypes ==
  /\ exp \in Experiments /\ level \in 1..exp.levels
  /\ state \in {"Load", "Measure", "Exit", "fixed", "returned", "panicked"}
  /\ tries \in 0..MaxTries - 1 /\ divisor \in Divisors
  /\ outcome \in [1..exp.levels -> {"none", "ok", "tries", "maxTime"}]
  /\ checked \in [1..exp.levels -> Checks]
  /\ report \in [1..exp.levels -> [iid : BOOLEAN, duration : Nat, divisor : Nat]]

\* What ReportsAreEarned asks of the check and the measurement of a level.
Earned(check, measured) ==
  /\ Accepted(check)
  /\ measured.duration \in 1..MaxDuration
  /\ measured.iid \/ measured.divisor > 100 * exp.initial

LevelInv ==
  /\ Running => \A l \in 1..exp.levels : l >= level => outcome[l] = "none"
  /\ state \in {"Load", "Measure", "Exit"} => exp.qual
  /\ state = "fixed" => ~exp.qual
  /\ state = "Measure" => Accepted(checked[level])
  /\ state = "Exit" => Earned(checked[level], report[level])

IInv == StateTypes /\ LevelInv /\ ReportsAreEarned /\ DeliveredIsAccepted

-----------------------------------------------------------------------------
(* Arithmetic, and the least of the numbers asked.                         *)

LEMMA Product ==
  ASSUME NEW a \in Nat, NEW b \in Nat
  PROVE  a * b \in Nat /\ (a > 0 /\ b > 0 => a * b > 0)
  OBVIOUS

LEMMA Monotone ==
  ASSUME NEW a \in Nat, NEW b \in Nat, NEW c \in Nat, a <= b
  PROVE  a * c <= b * c
  OBVIOUS

LEMMA Cancel ==
  ASSUME NEW a \in Nat, NEW b \in Nat, NEW c \in Nat, c > 0, a * c <= b * c
  PROVE  a <= b
  OBVIOUS

LEMMA Quotient ==
  ASSUME NEW x \in Nat, NEW n \in Nat, NEW s \in Nat, s > 0, n * s <= x
  PROVE  x \div s \in Nat /\ x \div s >= n
  OBVIOUS

LEMMA CeilBounds ==
  ASSUME NEW a \in Nat, NEW b \in Nat, a > 0, b > 0
  PROVE  Ceil(a, b) \in Nat /\ Ceil(a, b) >= 1 /\ Ceil(a, b) * b >= a
  BY DEF Ceil

LEMMA LroundPositive ==
  ASSUME NEW a \in Nat, NEW b \in Nat, b > 0, b <= 2 * a
  PROVE  Lround(a, b) \in Nat /\ Lround(a, b) > 0
  <1>1. 2 * a + b \in Nat /\ 2 * b \in Nat /\ 2 * b > 0 /\ 1 * (2 * b) <= 2 * a + b
    OBVIOUS
  <1>2. (2 * a + b) \div (2 * b) \in Nat /\ (2 * a + b) \div (2 * b) >= 1
    BY <1>1, Quotient
  <1>. QED BY <1>2 DEF Lround

LEMMA LeastAsked ==
  ASSUME NEW asked, asked \subseteq Nat, asked # {}
  PROVE  Min(asked) \in asked /\ \A y \in asked : Min(asked) <= y
  <1>1. PICK x \in asked : \A y \in asked : <<y, x>> \notin OpToRel(<, Nat)
    BY NatLessThanWellFounded, WFMin
  <1>2. ASSUME NEW y \in asked PROVE x <= y
    <2>1. <<y, x>> \notin {ss \in Nat \X Nat : ss[1] < ss[2]}
      BY <1>1 DEF OpToRel
    <2>. QED BY <2>1
  <1>. QED BY <1>2 DEF Min

-----------------------------------------------------------------------------
(* The command line, and what is computed of it.                           *)

LEMMA Constants ==
  /\ MaxTries \in Nat /\ MaxTries > 0 /\ MaxDuration \in Nat /\ MaxDuration > 0
  /\ \A lag \in Lags : lag \in Nat /\ lag > 1 /\ lag <= Max(Lags)
  /\ Lags # {}
  BY SelfCorrectionAssumption

LEMMA CommandLine ==
  ASSUME exp \in Experiments
  PROVE  /\ exp.sym \in Nat /\ exp.th \in Nat /\ exp.lt \in Nat /\ exp.load \in Nat
         /\ exp.step \in Nat /\ exp.lqps \in Nat
         /\ exp.levels \in Nat /\ exp.levels > 0 /\ exp.samples \in Nat /\ exp.samples > 0
         /\ exp.initial \in Nat /\ exp.initial > 0 /\ exp.qual \in BOOLEAN
         /\ exp.load >= exp.sym + exp.th /\ (exp.lt > 0 => exp.lqps > 0)
         /\ exp.sym + exp.th + exp.lt > 0
         /\ exp.initial * (exp.sym + exp.lt) <= 200
  <1>1. /\ exp \in Experiment
        /\ exp.load >= exp.sym + exp.th /\ (exp.lt > 0 => exp.lqps > 0)
        /\ exp.sym + exp.th + exp.lt > 0
        /\ exp.initial * (exp.sym + exp.lt) <= 200
    BY SelfCorrectionAssumption
  <1>. QED BY <1>1 DEF Experiment

\* A divisor is a positive number, and so is one that is reduced while it may be.
LEMMA DivisorRange ==
  ASSUME exp \in Experiments
  PROVE  /\ \A d \in Divisors : d \in Nat /\ d > 0
         /\ 1 \in Divisors
         /\ \A d \in Divisors, lag \in Lags :
              d <= 100 * exp.initial => d * lag \in Divisors
  <1>1. /\ Max(Lags) \in Int /\ Max(Lags) > 1
    <2>1. PICK lag \in Lags : TRUE
      BY Constants
    <2>2. Max(Lags) \in Lags
      BY SelfCorrectionAssumption, Constants DEF Max
    <2>. QED BY <2>2, Constants
  <1>. DEFINE m == Max(Lags)
              i == 100 * exp.initial
  <1>2. i \in Nat /\ i > 0 /\ m \in Nat /\ m > 0
    BY <1>1, CommandLine
  <1>3. Divisors = 1..i * m
    BY DEF Divisors
  <1>4. \A lag \in Lags : lag \in Nat /\ lag > 0 /\ lag <= m
    BY Constants
  <1>. HIDE DEF i, m
  <1>5. i * m \in Nat /\ i * m > 0
    BY <1>2, Product
  <1>6. ASSUME NEW d \in Divisors, NEW lag \in Lags, d <= i
        PROVE  d * lag \in Divisors
    <2>1. d \in Nat /\ d > 0 /\ lag \in Nat /\ lag > 0 /\ lag <= m
      BY <1>3, <1>4, <1>5
    <2>2. d * lag \in Nat /\ d * lag > 0
      BY <2>1, Product
    <2>3. d * lag <= i * lag
      BY <1>2, <1>6, <2>1, Monotone
    <2>4. lag * i <= m * i
      BY <1>2, <2>1, Monotone
    <2>5. i * lag <= i * m
      BY <1>2, <2>1, <2>4
    <2>. QED BY <1>2, <1>3, <1>5, <2>1, <2>2, <2>3, <2>5
  <1>. QED BY <1>3, <1>5, <1>6 DEF i

LEMMA Role ==
  ASSUME NEW n \in Nat, NEW role
  PROVE  /\ IsFiniteSet({role} \X (1..n)) /\ Cardinality({role} \X (1..n)) = n
         /\ Cardinality({role} \X (1..n)) \in Nat
  <1>1. IsFiniteSet({role}) /\ Cardinality({role}) = 1
    BY FS_Singleton
  <1>2. IsFiniteSet(1..n) /\ Cardinality(1..n) = n
    <2>1. 1 \in Int /\ n \in Int
      OBVIOUS
    <2>2. IsFiniteSet(1..n) /\ Cardinality(1..n) = IF 1 > n THEN 0 ELSE n - 1 + 1
      BY ONLY <2>1, FS_Interval
    <2>. QED BY <2>2
  <1>3. /\ IsFiniteSet({role} \X (1..n))
        /\ Cardinality({role} \X (1..n)) = Cardinality({role}) * Cardinality(1..n)
    BY <1>1, <1>2, FS_Product
  <1>. QED BY <1>1, <1>2, <1>3

\* The agents that sample are the sym and lt agents.
LEMMA SamplingCount ==
  ASSUME exp \in Experiments
  PROVE  IsFiniteSet(Sampling) /\ Cardinality(Sampling) = exp.sym + exp.lt
  <1>. DEFINE S == {"sym"} \X (1..exp.sym)
              L == {"lt"} \X (1..exp.lt)
  <1>1. Sampling = S \cup L
    BY DEF Sampling, Agents
  <1>2. S \cap L = {}
    OBVIOUS
  <1>3. /\ IsFiniteSet(S) /\ Cardinality(S) = exp.sym
        /\ IsFiniteSet(L) /\ Cardinality(L) = exp.lt
    BY CommandLine, Role
  <1>. HIDE DEF S, L
  <1>4. Cardinality(S \cup L) = Cardinality(S) + Cardinality(L) - Cardinality(S \cap L)
        /\ IsFiniteSet(S \cup L)
    BY <1>3, FS_Union
  <1>5. Cardinality(S \cap L) = 0
    BY <1>2, FS_EmptySet
  <1>. QED BY <1>1, <1>3, <1>4, <1>5, CommandLine

\* The rates, and the percentage sampled.
LEMMA Rates ==
  ASSUME exp \in Experiments, level \in 1..exp.levels, divisor \in Divisors
  PROVE  /\ Percent \in Nat /\ Percent > 0 /\ Percent <= 200 * divisor
         /\ BaseRate \in Nat /\ BaseRate > 0
         /\ LatencyRate \in Nat /\ PerAgentLoad \in Nat
         /\ divisor \in Nat /\ divisor > 0
  <1>. USE CommandLine
  <1>1. divisor \in Nat /\ divisor > 0
    BY DivisorRange
  <1>2. Percent \in Nat /\ Percent > 0 /\ Percent <= 200 * divisor
    <2>1. CASE Sampling = {}
      BY <1>1, <2>1 DEF Percent
    <2>2. CASE Sampling # {}
      <3>1. exp.sym + exp.lt > 0
        <4>1. Cardinality(Sampling) # 0
          BY <2>2, SamplingCount, FS_EmptySet
        <4>. QED BY <4>1, SamplingCount
      <3>2. Percent = exp.initial * (exp.sym + exp.lt)
        BY <2>2, SamplingCount DEF Percent
      <3>3. exp.sym + exp.lt \in Nat /\ exp.initial \in Nat
        OBVIOUS
      <3>4. Percent \in Nat /\ Percent > 0
        BY <3>1, <3>2, <3>3, Product
      <3>. QED BY <1>1, <3>2, <3>4
    <2>. QED BY <2>1, <2>2
  <1>3. LatencyRate \in Nat /\ (exp.lt > 0 => LatencyRate > 0)
    BY DEF LatencyRate
  <1>4. PerAgentLoad \in Nat /\ (exp.sym + exp.th > 0 => PerAgentLoad > 0)
    <2>1. CASE exp.sym + exp.th = 0
      BY <2>1 DEF PerAgentLoad
    <2>2. CASE exp.sym + exp.th # 0
      <3>1. level - 1 \in Nat
        OBVIOUS
      <3>2. (level - 1) * exp.step \in Nat
        BY <3>1, Product
      <3>3. LoadRate \in Nat /\ 1 * (exp.sym + exp.th) <= LoadRate
        BY <3>2 DEF LoadRate
      <3>. QED BY <2>2, <3>3, Quotient DEF PerAgentLoad
    <2>. QED BY <2>1, <2>2
  <1>5. BaseRate \in Nat /\ BaseRate > 0
    BY <1>3, <1>4 DEF BaseRate
  <1>. QED BY <1>1, <1>2, <1>3, <1>4, <1>5

LEMMA DurationBounds ==
  ASSUME exp \in Experiments, level \in 1..exp.levels, divisor \in Divisors
  PROVE  /\ Duration \in Nat /\ Duration >= 1
         /\ exp.samples * (100 * divisor) <= Duration * (BaseRate * Percent)
  <1>. DEFINE need == exp.samples * 100 * divisor
              gain == BaseRate * Percent
  <1>1. /\ exp.samples \in Nat /\ exp.samples > 0 /\ divisor \in Nat /\ divisor > 0
        /\ BaseRate \in Nat /\ BaseRate > 0 /\ Percent \in Nat /\ Percent > 0
    BY CommandLine, Rates
  <1>2. gain \in Nat /\ gain > 0
    BY <1>1, Product
  <1>3. /\ exp.samples * (100 * divisor) \in Nat /\ exp.samples * (100 * divisor) > 0
        /\ need = exp.samples * (100 * divisor)
    <2>1. 100 * divisor \in Nat /\ 100 * divisor > 0
      BY <1>1
    <2>2. exp.samples * (100 * divisor) \in Nat /\ exp.samples * (100 * divisor) > 0
      BY <1>1, <2>1, Product
    <2>3. need = exp.samples * (100 * divisor)
      BY <1>1
    <2>. QED BY <2>2, <2>3
  <1>4. Duration = Ceil(need, gain)
    BY DEF Duration
  <1>. HIDE DEF need, gain
  <1>5. Duration \in Nat /\ Duration >= 1 /\ Duration * gain >= need
    BY <1>2, <1>3, <1>4, CeilBounds
  <1>. QED BY <1>3, <1>5 DEF gain

LEMMA StepPositive ==
  ASSUME exp \in Experiments, level \in 1..exp.levels, divisor \in Divisors
  PROVE  SamplingStep \in Nat /\ SamplingStep > 0
  <1>1. /\ 100 * divisor \in Nat /\ Percent \in Nat /\ Percent > 0
        /\ Percent <= 2 * (100 * divisor)
    BY Rates
  <1>. QED BY <1>1, LroundPositive DEF SamplingStep

\* A measurement of Duration seconds gives an agent of the base rate its samples.
LEMMA LongEnough ==
  ASSUME exp \in Experiments, level \in 1..exp.levels, divisor \in Divisors,
         SamplingStep * Percent <= 100 * divisor,
         NEW told \in Nat, told >= BaseRate
  PROVE  (told * Duration) \div SamplingStep >= exp.samples
  <1>. DEFINE d == 100 * divisor
              served == told * Duration
              taken == exp.samples * SamplingStep
  <1>1. /\ exp.samples \in Nat /\ d \in Nat /\ BaseRate \in Nat /\ Percent \in Nat
        /\ Percent > 0 /\ Duration \in Nat /\ SamplingStep \in Nat /\ SamplingStep > 0
    BY CommandLine, Rates, DurationBounds, StepPositive
  <1>2. exp.samples * d <= Duration * (BaseRate * Percent)
    BY DurationBounds
  <1>3. SamplingStep * Percent <= d
    OBVIOUS
  <1>4. served \in Nat /\ taken \in Nat /\ SamplingStep * Percent \in Nat
        /\ Duration * BaseRate \in Nat
    BY <1>1, Product
  <1>. HIDE DEF d
  <1>5. taken * Percent <= exp.samples * d
    <2>1. (SamplingStep * Percent) * exp.samples <= d * exp.samples
      BY <1>1, <1>3, <1>4, Monotone
    <2>. QED BY <1>1, <2>1
  <1>6. (BaseRate * Duration) * Percent <= served * Percent
    <2>1. BaseRate * Duration <= told * Duration
      BY <1>1, Monotone
    <2>2. BaseRate * Duration \in Nat
      BY <1>1, Product
    <2>. QED BY <1>1, <1>4, <2>1, <2>2, Monotone
  <1>7. Duration * (BaseRate * Percent) = (BaseRate * Duration) * Percent
    BY <1>1
  <1>8. taken * Percent <= served * Percent
    <2>1. /\ taken * Percent \in Nat /\ exp.samples * d \in Nat
          /\ (BaseRate * Duration) * Percent \in Nat /\ served * Percent \in Nat
      BY <1>1, <1>4, Product
    <2>. QED BY <1>2, <1>5, <1>6, <1>7, <2>1
  <1>9. taken <= served
    BY <1>1, <1>4, <1>8, Cancel
  <1>. HIDE DEF served
  <1>10. served \div SamplingStep >= exp.samples
    BY <1>1, <1>4, <1>9, Quotient
  <1>. QED BY <1>10 DEF served


\* A share of the load is rounded down by less than one.
LEMMA Share ==
  ASSUME NEW x \in Nat, NEW n \in Nat, n > 0
  PROVE  /\ x \div n \in Nat /\ n * (x \div n) \in Nat
         /\ n * (x \div n) <= x /\ x < n * (x \div n) + n
  OBVIOUS

LEMMA NoneSlow ==
  ASSUME NEW n \in Nat, NEW rate \in Nat
  PROVE  Served(n, 0, rate) = n * rate
  <1>1. rate \div 2 \in Nat /\ n - 0 = n
    OBVIOUS
  <1>2. 0 * (rate \div 2) = 0 /\ n * rate \in Nat
    BY <1>1
  <1>. QED BY <1>1, <1>2 DEF Served

\* When every agent serves what it was told, the sum is the rates of the command
\* line but for less than one request per second and agent.
LEMMA DeliveredPasses ==
  ASSUME exp \in Experiments, level \in 1..exp.levels, exp.lt <= 1,
         exp.sym + exp.th > 0, exp.load >= 10 * (exp.sym + exp.th),
         NEW rps,
         rps = Served(exp.sym + exp.th, 0, PerAgentLoad) + Served(exp.lt, 0, LatencyRate)
  PROVE  10 * rps <= 11 * Expected /\ 10 * rps >= 9 * Expected
  <1>. DEFINE n == exp.sym + exp.th
              shares == n * PerAgentLoad
  <1>1. n \in Nat /\ n > 0 /\ exp.load \in Nat /\ exp.load >= 10 * n
    BY CommandLine
  <1>2. LoadRate \in Nat /\ LoadRate >= exp.load
    <2>1. level - 1 \in Nat /\ exp.step \in Nat
      BY CommandLine
    <2>2. (level - 1) * exp.step \in Nat
      BY <2>1, Product
    <2>. QED BY <1>1, <2>2 DEF LoadRate
  <1>3. PerAgentLoad = LoadRate \div n
    BY <1>1 DEF PerAgentLoad
  <1>4. PerAgentLoad \in Nat /\ shares \in Nat /\ shares <= LoadRate /\ LoadRate < shares + n
    BY <1>1, <1>2, <1>3, Share
  <1>5. LatencyRate \in Nat /\ exp.lt * LatencyRate = LatencyRate
    <2>1. exp.lt \in {0, 1} /\ exp.lqps \in Nat
      BY CommandLine
    <2>. QED BY <2>1 DEF LatencyRate
  <1>6. rps = shares + LatencyRate
    <2>1. Served(n, 0, PerAgentLoad) = shares
      BY <1>1, <1>4, NoneSlow
    <2>2. Served(exp.lt, 0, LatencyRate) = LatencyRate
      BY <1>5, CommandLine, NoneSlow
    <2>. QED BY <2>1, <2>2
  <1>. HIDE DEF n, shares
  <1>. QED BY <1>1, <1>2, <1>4, <1>5, <1>6 DEF Expected


-----------------------------------------------------------------------------
(* The patterns, step by step.                                             *)

LEMMA LevelFacts ==
  ASSUME IInv
  PROVE  /\ exp \in Experiments /\ level \in 1..exp.levels /\ divisor \in Divisors
         /\ StateTypes /\ LevelInv /\ ReportsAreEarned /\ DeliveredIsAccepted
         /\ exp.levels \in Nat /\ level \in Nat
         /\ Duration \in Nat /\ Duration >= 1 /\ divisor \in Nat /\ divisor > 0
  <1>1. StateTypes /\ LevelInv /\ ReportsAreEarned /\ DeliveredIsAccepted
    BY DEF IInv
  <1>2. exp \in Experiments /\ level \in 1..exp.levels /\ divisor \in Divisors
    BY <1>1 DEF StateTypes
  <1>3. exp.levels \in Nat /\ level \in Nat
    BY <1>2, CommandLine
  <1>4. Duration \in Nat /\ Duration >= 1
    BY <1>2, <1>3, DurationBounds DEF Divisors
  <1>5. divisor \in Nat /\ divisor > 0
    BY <1>2, DivisorRange DEF Divisors
  <1>. QED BY <1>1, <1>2, <1>3, <1>4, <1>5

\* What a step may do to checked and report: it is about this level.
OfThisLevel ==
  /\ exp' = exp /\ divisor' \in Divisors
  /\ checked' \in [1..exp.levels -> Checks]
  /\ report' \in [1..exp.levels -> [iid : BOOLEAN, duration : Nat, divisor : Nat]]
  /\ \A l \in 1..exp.levels :
       l # level => checked'[l] = checked[l] /\ report'[l] = report[l]

\* What DeliveredIsAccepted asks of the check of a level.
FullPasses(check) ==
  /\ check.full /\ exp.lt <= 1
  /\ exp.sym + exp.th > 0 /\ exp.load >= 10 * (exp.sym + exp.th)
  => check.passed

\* It is kept, when it holds of the check of this level.
LEMMA AcceptedInv ==
  ASSUME DeliveredIsAccepted, OfThisLevel, FullPasses(checked'[level])
  PROVE  DeliveredIsAccepted'
  <1>1. ASSUME NEW l \in 1..exp.levels PROVE FullPasses(checked'[l])
    <2>1. FullPasses(checked[l])
      BY DEF DeliveredIsAccepted, FullPasses
    <2>. QED BY <2>1 DEF OfThisLevel
  <1>. QED BY <1>1 DEF DeliveredIsAccepted, FullPasses, OfThisLevel

\* A step within the level.
LEMMA WithinLevel ==
  ASSUME IInv, Running, OfThisLevel, UNCHANGED <<level, outcome>>,
         tries' \in 0..MaxTries - 1, state' \in {"Load", "Measure", "Exit"}, exp.qual,
         state' = "Measure" => Accepted(checked'[level]),
         state' = "Exit" => Earned(checked'[level], report'[level]),
         FullPasses(checked'[level])
  PROVE  IInv'
  <1>. USE LevelFacts
  <1>1. StateTypes'
    BY DEF StateTypes, OfThisLevel, Divisors
  <1>2. LevelInv'
    BY DEF LevelInv, OfThisLevel, Running, Earned
  <1>3. ReportsAreEarned'
    <2>1. \A l \in 1..exp.levels : outcome[l] = "ok" => l # level
      BY DEF LevelInv
    <2>. QED BY <2>1 DEF ReportsAreEarned, OfThisLevel
  <1>. QED BY <1>1, <1>2, <1>3, AcceptedInv DEF IInv

\* The pattern returns, and the next level begins or none is left.
LEMMA ReturnInv ==
  ASSUME IInv, Running, OfThisLevel, NEW res \in {"ok", "tries", "maxTime"}, Return(res),
         res = "ok" /\ exp.qual => Earned(checked'[level], report'[level]),
         FullPasses(checked'[level])
  PROVE  IInv'
  <1>. USE LevelFacts
  <1>1. /\ outcome \in [1..exp.levels -> {"none", "ok", "tries", "maxTime"}]
        /\ outcome' = [outcome EXCEPT ![level] = res] /\ tries' = 0
        /\ \/ /\ level < exp.levels /\ level' = level + 1
              /\ state' = IF exp.qual THEN "Load" ELSE "fixed"
           \/ level' = level /\ state' = "returned"
    BY DEF Return, StartState, StateTypes
  <1>2. /\ outcome' \in [1..exp.levels -> {"none", "ok", "tries", "maxTime"}]
        /\ outcome'[level] = res
        /\ \A l \in 1..exp.levels : l # level => outcome'[l] = outcome[l]
    BY <1>1
  <1>3. StateTypes'
    <2>1. exp' \in Experiments /\ exp'.levels = exp.levels /\ Divisors' = Divisors
      BY DEF OfThisLevel, Divisors
    <2>2. /\ level' \in 1..exp.levels
          /\ state' \in {"Load", "Measure", "Exit", "fixed", "returned", "panicked"}
      BY <1>1
    <2>3. tries' \in 0..MaxTries - 1
      BY <1>1, Constants
    <2>4. /\ divisor' \in Divisors
          /\ checked' \in [1..exp.levels -> Checks]
          /\ report' \in [1..exp.levels -> [iid : BOOLEAN, duration : Nat, divisor : Nat]]
      BY DEF OfThisLevel
    <2>. QED BY <1>2, <2>1, <2>2, <2>3, <2>4 DEF StateTypes
  <1>4. LevelInv'
    <2>1. \A l \in 1..exp.levels : l > level => outcome'[l] = "none"
      BY <1>2 DEF LevelInv
    <2>2. exp' = exp /\ exp.qual \in BOOLEAN
      BY CommandLine DEF OfThisLevel
    <2>. QED BY <1>1, <2>1, <2>2 DEF LevelInv, Running
  <1>5. ReportsAreEarned'
    <2>1. ASSUME NEW l \in 1..exp.levels, exp.qual, outcome'[l] = "ok"
          PROVE  Earned(checked'[l], report'[l])
      <3>1. CASE l = level
        BY <1>2, <2>1, <3>1
      <3>2. CASE l # level
        <4>1. Earned(checked[l], report[l])
          BY <1>2, <2>1, <3>2 DEF ReportsAreEarned, Earned, Accepted
        <4>. QED BY <3>2, <4>1 DEF OfThisLevel
      <3>. QED BY <3>1, <3>2
    <2>. QED BY <2>1 DEF ReportsAreEarned, Earned, Accepted, OfThisLevel
  <1>. QED BY <1>3, <1>4, <1>5, AcceptedInv DEF IInv

LEMMA TryAgainInv ==
  ASSUME IInv, Running, OfThisLevel, NEW s \in {"Load", "Measure"}, TryAgain(s), exp.qual,
         s = "Measure" => Accepted(checked'[level]), FullPasses(checked'[level])
  PROVE  IInv'
  <1>1. CASE tries + 1 = MaxTries
    BY <1>1, ReturnInv DEF TryAgain
  <1>2. CASE tries + 1 # MaxTries
    <2>1. /\ tries' = tries + 1 /\ state' = s /\ UNCHANGED <<level, outcome>>
          /\ tries' \in 0..MaxTries - 1
      BY <1>2, LevelFacts, Constants DEF TryAgain, StateTypes
    <2>. QED BY <2>1, WithinLevel
  <1>. QED BY <1>1, <1>2

LEMMA LoadTryInv ==
  ASSUME IInv, LoadTry
  PROVE  IInv'
  <1>. USE LevelFacts
  <1>. DEFINE Sum(slow, slowLt) == Served(exp.sym + exp.th, slow, PerAgentLoad)
                                   + Served(exp.lt, slowLt, LatencyRate)
              Good(rps) == 10 * rps <= 11 * Expected /\ 10 * rps >= 9 * Expected
              Full(slow, slowLt) == slow = 0 /\ slowLt = 0
  <1>a. PICK slow \in 0..exp.sym + exp.th, slowLt \in 0..exp.lt, iad \in BOOLEAN :
          /\ checked' = [checked EXCEPT ![level] =
               [full |-> Full(slow, slowLt), passed |-> Good(Sum(slow, slowLt)),
                arrivals |-> iad]]
          /\ IF Good(Sum(slow, slowLt)) /\ iad
             THEN state' = "Measure" /\ UNCHANGED <<level, tries, outcome>>
             ELSE TryAgain("Load")
    BY DEF LoadTry
  <1>b. Full(slow, slowLt) \in BOOLEAN /\ Good(Sum(slow, slowLt)) \in BOOLEAN
    OBVIOUS
  <1>c. ASSUME Full(slow, slowLt), exp.lt <= 1, exp.sym + exp.th > 0,
               exp.load >= 10 * (exp.sym + exp.th)
        PROVE  Good(Sum(slow, slowLt))
    BY <1>c, DeliveredPasses
  <1>. HIDE DEF Sum, Good, Full
  <1>. DEFINE full == Full(slow, slowLt)
              good == Good(Sum(slow, slowLt))
  <1>1. /\ full \in BOOLEAN /\ good \in BOOLEAN
        /\ checked' = [checked EXCEPT ![level] =
             [full |-> full, passed |-> good, arrivals |-> iad]]
        /\ IF good /\ iad
           THEN state' = "Measure" /\ UNCHANGED <<level, tries, outcome>>
           ELSE TryAgain("Load")
    BY <1>a, <1>b
  <1>d. FullPasses([full |-> full, passed |-> good, arrivals |-> iad])
    BY <1>c DEF FullPasses
  <1>. HIDE DEF full, good
  <1>2. UNCHANGED <<exp, divisor, report>> /\ state = "Load" /\ Running /\ exp.qual
    BY DEF LoadTry, Running, LevelInv
  <1>3. OfThisLevel /\ (good /\ iad => Accepted(checked'[level])) /\ FullPasses(checked'[level])
    <2>1. /\ checked' \in [1..exp.levels -> Checks]
          /\ checked'[level] = [full |-> full, passed |-> good, arrivals |-> iad]
          /\ \A l \in 1..exp.levels : l # level => checked'[l] = checked[l]
      BY <1>1 DEF StateTypes, Checks
    <2>2. good /\ iad => Accepted(checked'[level])
      <3>1. checked'[level].passed = good /\ checked'[level].arrivals = iad
        BY <2>1
      <3>. QED BY <3>1 DEF Accepted
    <2>3. FullPasses(checked'[level])
      BY <1>d, <2>1
    <2>. QED BY <1>2, <2>1, <2>2, <2>3 DEF OfThisLevel, StateTypes
  <1>4. CASE good /\ iad
    <2>1. tries' \in 0..MaxTries - 1
      BY <1>1, <1>4 DEF StateTypes
    <2>. QED BY <1>1, <1>2, <1>3, <1>4, <2>1, WithinLevel
  <1>5. CASE ~(good /\ iad)
    BY <1>1, <1>2, <1>3, <1>5, TryAgainInv
  <1>. QED BY <1>4, <1>5

\* A measurement that is collected is one of this level.
LEMMA ReportsThis ==
  ASSUME IInv, NEW iid, Reports(iid), UNCHANGED <<exp, checked>>, divisor' \in Divisors
  PROVE  /\ OfThisLevel /\ checked'[level] = checked[level] /\ FullPasses(checked'[level])
         /\ report'[level].iid = (iid # {}) /\ report'[level].duration = Duration
         /\ report'[level].divisor = divisor
  <1>. USE LevelFacts
  <1>. DEFINE this == [iid |-> iid # {}, duration |-> Duration, divisor |-> divisor]
  <1>1. this \in [iid : BOOLEAN, duration : Nat, divisor : Nat]
    OBVIOUS
  <1>2. this.iid = (iid # {}) /\ this.duration = Duration /\ this.divisor = divisor
    OBVIOUS
  <1>3. report' = [report EXCEPT ![level] = this]
    BY DEF Reports
  <1>. HIDE DEF this
  <1>4. /\ report' \in [1..exp.levels -> [iid : BOOLEAN, duration : Nat, divisor : Nat]]
        /\ report'[level] = this
        /\ \A l \in 1..exp.levels : l # level => report'[l] = report[l]
    BY <1>1, <1>3 DEF StateTypes
  <1>5. FullPasses(checked[level])
    BY DEF DeliveredIsAccepted, FullPasses
  <1>. QED BY <1>2, <1>4, <1>5 DEF OfThisLevel, StateTypes

LEMMA MeasureTryInv ==
  ASSUME IInv, MeasureTry
  PROVE  IInv'
  <1>. USE LevelFacts
  <1>. DEFINE late == Duration > MaxDuration
              Again(iid) == ~late /\ iid = {} /\ Reducible
  <1>1. PICK iid \in SUBSET Sampling, asked \in (SUBSET Lags) \ {{}} :
          /\ Reports(iid)
          /\ divisor' = IF Again(iid) THEN divisor * Min(asked) ELSE divisor
          /\ \/ Again(iid) /\ TryAgain("Measure")
             \/ ~Again(iid) /\ late /\ Return("maxTime")
             \/ /\ ~Again(iid) /\ ~late /\ state' = "Exit"
                /\ UNCHANGED <<level, tries, outcome>>
    BY DEF MeasureTry
  <1>2. /\ UNCHANGED <<exp, checked>> /\ state = "Measure" /\ Running /\ exp.qual
        /\ Accepted(checked[level])
    BY DEF MeasureTry, Running, LevelInv
  <1>3. divisor' \in Divisors
    <2>1. Min(asked) \in Lags
      BY LeastAsked, Constants
    <2>2. Again(iid) => divisor <= 100 * exp.initial
      BY CommandLine DEF Reducible
    <2>. QED BY <1>1, <2>1, <2>2, DivisorRange
  <1>4. /\ OfThisLevel /\ Accepted(checked'[level]) /\ FullPasses(checked'[level])
        /\ report'[level].iid = (iid # {}) /\ report'[level].duration = Duration
        /\ report'[level].divisor = divisor
    BY <1>1, <1>2, <1>3, ReportsThis
  <1>5. CASE Again(iid) /\ TryAgain("Measure")
    BY <1>2, <1>4, <1>5, TryAgainInv
  <1>6. CASE Return("maxTime")
    BY <1>2, <1>4, <1>6, ReturnInv
  <1>7. CASE ~Again(iid) /\ ~late /\ state' = "Exit" /\ UNCHANGED <<level, tries, outcome>>
    <2>1. Earned(checked'[level], report'[level])
      <3>1. Duration \in 1..MaxDuration
        BY <1>7, Constants
      <3>2. report'[level].iid \/ report'[level].divisor > 100 * exp.initial
        <4>1. CASE iid # {}
          BY <1>4, <4>1
        <4>2. CASE iid = {}
          <5>1. ~(100 * exp.initial >= divisor)
            BY <1>7, <4>2 DEF Reducible
          <5>. QED BY <1>4, <5>1, CommandLine
        <4>. QED BY <4>1, <4>2
      <3>. QED BY <1>2, <1>4, <1>7, <3>1, <3>2 DEF Earned
    <2>2. tries' \in 0..MaxTries - 1
      BY <1>7 DEF StateTypes
    <2>. QED BY <1>2, <1>4, <1>7, <2>1, <2>2, WithinLevel
  <1>. QED BY <1>1, <1>5, <1>6, <1>7

LEMMA PanicInv ==
  ASSUME IInv, Panic
  PROVE  IInv'
  <1>1. state' = "panicked" /\ UNCHANGED <<exp, level, tries, divisor, outcome, checked, report>>
    BY DEF Panic
  <1>2. StateTypes' /\ LevelInv'
    BY <1>1, LevelFacts DEF StateTypes, LevelInv, Running, Divisors
  <1>. QED BY <1>1, <1>2, LevelFacts DEF IInv, ReportsAreEarned, DeliveredIsAccepted

LEMMA ExitStateInv ==
  ASSUME IInv, ExitState
  PROVE  IInv'
  <1>1. UNCHANGED <<exp, divisor, checked, report>> /\ state = "Exit" /\ Running /\ Return("ok")
    BY DEF ExitState, Running
  <1>2. OfThisLevel
    BY <1>1, LevelFacts DEF OfThisLevel, StateTypes
  <1>3. Earned(checked[level], report[level])
    BY <1>1, LevelFacts DEF LevelInv
  <1>4. Earned(checked'[level], report'[level])
    BY <1>1, <1>3
  <1>5. FullPasses(checked'[level])
    BY <1>1, LevelFacts DEF DeliveredIsAccepted, FullPasses
  <1>. QED BY <1>1, <1>2, <1>4, <1>5, ReturnInv

LEMMA MeasureFixedInv ==
  ASSUME IInv, MeasureFixed
  PROVE  IInv'
  <1>1. PICK iid \in SUBSET Sampling : Reports(iid)
    BY DEF MeasureFixed
  <1>2. /\ UNCHANGED <<exp, divisor, checked>> /\ Return("ok") /\ Running /\ ~exp.qual
    BY LevelFacts DEF MeasureFixed, Running, LevelInv
  <1>3. OfThisLevel /\ FullPasses(checked'[level])
    BY <1>1, <1>2, LevelFacts, ReportsThis
  <1>. QED BY <1>2, <1>3, ReturnInv

-----------------------------------------------------------------------------
(* The theorems.                                                           *)

LEMMA InitInv == Init => IInv
  <1>. SUFFICES ASSUME Init PROVE IInv
    OBVIOUS
  <1>1. exp \in Experiments /\ exp.levels \in Nat /\ exp.levels > 0 /\ exp.qual \in BOOLEAN
    BY CommandLine DEF Init
  <1>2. StateTypes
    BY <1>1, DivisorRange, Constants DEF Init, StateTypes, Checks
  <1>3. LevelInv /\ ReportsAreEarned /\ DeliveredIsAccepted
    BY <1>1 DEF Init, LevelInv, ReportsAreEarned, DeliveredIsAccepted, Running
  <1>. QED BY <1>2, <1>3 DEF IInv

LEMMA StepInv == IInv /\ [Next]_vars => IInv'
  <1>. SUFFICES ASSUME IInv, [Next]_vars PROVE IInv'
    OBVIOUS
  <1>1. CASE UNCHANGED vars
    BY <1>1 DEF vars, IInv, StateTypes, LevelInv, ReportsAreEarned,
                    DeliveredIsAccepted, Running, Earned, Divisors
  <1>. QED BY <1>1, LoadTryInv, MeasureTryInv, PanicInv, ExitStateInv, MeasureFixedInv
           DEF Next, Ended

LEMMA Correct == Spec => []IInv
  BY InitInv, StepInv, PTL DEF Spec

\* Every variable keeps its type, no rate is divided below its limit, and no
\* agent is told a sampling step of zero (fixedQualPattern, measure).
THEOREM TypeCorrect == Spec => []TypeOK
  <1>1. IInv => TypeOK
    BY LevelFacts, StepPositive DEF StateTypes, TypeOK, Divisors
  <1>. QED BY <1>1, Correct, PTL

\* A level that ends without error reports a measurement of its own, taken under
\* an accepted load, in time, and IID or rarely sampled (fixedQualPattern).
THEOREM ReportsCorrect == Spec => []ReportsAreEarned
  <1>1. IInv => ReportsAreEarned
    BY DEF IInv
  <1>. QED BY <1>1, Correct, PTL

\* Agents that serve what they were told are never sent back to loading for their
\* throughput, however the load divides (load, fixedQualPattern).
THEOREM DeliveredCorrect == Spec => []DeliveredIsAccepted
  <1>1. IInv => DeliveredIsAccepted
    BY DEF IInv
  <1>. QED BY <1>1, Correct, PTL

\* However load, samples and sampling rate divide, a measurement lasts until
\* every agent of the base rate has its samples (computeMeasurementDuration).
THEOREM SamplesCorrect == Spec => []EnoughSamples
  <1>1. IInv => EnoughSamples
    <2>. SUFFICES ASSUME IInv, SamplingStep * Percent <= 100 * divisor,
                         NEW a \in Sampling, Told(a) >= BaseRate
                  PROVE  (Told(a) * Duration) \div SamplingStep >= exp.samples
      BY DEF EnoughSamples
    <2>1. Told(a) \in Nat
      BY LevelFacts, Rates DEF Told
    <2>. QED BY <2>1, LevelFacts, LongEnough
  <1>. QED BY <1>1, Correct, PTL

=============================================================================
