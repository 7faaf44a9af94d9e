------------------------ MODULE Coordination_proofs -------------------------
(***************************************************************************)
(* Theorems about Coordination, for any agents, experiments and number of  *)
(* expired deadlines.                                                      *)
(*                                                                         *)
(* A connection is a queue in both directions, so what a manager has       *)
(* applied follows from what has been written to it before (QueueInv).     *)
(* Until the first error there is at most one request or one reply on its  *)
(* way for every agent, that of the current round (CleanInv).              *)
(***************************************************************************)
EXTENDS Coordination, WellFoundedInduction, TLAPS

Answer == [kind : Kinds, req : Nat, epoch : Nat, left : Nat]
States == {"exited", "crashed", "launching", "idle", "apply"}

CoordTypes ==
  /\ exp \in Experiments
  /\ at \in 1..Len(Plan) /\ Group(Round) # <<>> /\ idx \in 0..Len(Group(Round))
  /\ allOpen \in BOOLEAN /\ clean \in BOOLEAN
  /\ polls \in Nat /\ polls < exp.polls /\ tries \in Nat /\ tries < exp.tries
  /\ step \in 1..exp.steps /\ result \in {"running", "ok", "err"}
  /\ reqNo \in Nat /\ measureNo \in 0..reqNo /\ timeouts \in 0..MaxTimeouts
  /\ got \in [Agents -> Answer]

AgentTypes ==
  /\ inbox \in [Agents -> Seq(Message)] /\ cur \in [Agents -> Message]
  /\ stream \in [Agents -> Seq(Answer)] /\ mgr \in [Agents -> States]
  /\ \A a \in Agents : \A i \in 1..Len(stream[a]) : stream[a][i].left > 0
  /\ alive \in [Agents -> BOOLEAN] /\ connOpen \in [Agents -> BOOLEAN]
  /\ loading \in [Agents -> BOOLEAN] /\ measuring \in [Agents -> BOOLEAN]
  /\ mEpoch \in [Agents -> Nat] /\ samples \in [Agents -> Nat]
  /\ reset \in SUBSET Agents

\* No agent is told, or measures for, a START_MEASURE that has not been sent.
EpochInv(a) ==
  /\ mEpoch[a] <= measureNo /\ samples[a] \in {0, mEpoch[a]}
  /\ cur[a].kind = "START_MEASURE" => cur[a].req <= measureNo
  /\ \A i \in 1..Len(inbox[a]) :
       inbox[a][i].kind = "START_MEASURE" => inbox[a][i].req <= measureNo

Types == CoordTypes /\ AgentTypes /\ \A a \in Agents : EpochInv(a)

\* The manager of a loads, is about to, or never will do anything again.
Told(a) == \/ loading[a] \/ mgr[a] \in Gone
           \/ mgr[a] = "apply" /\ cur[a].kind = "START_LOAD"

\* A START_LOAD has been written to a.
Sent(a) == Told(a) \/ \E j \in 1..Len(inbox[a]) : inbox[a][j].kind = "START_LOAD"

\* No START_MEASURE overtakes the first START_LOAD.
QueueInv(a) ==
  /\ measuring[a] => loading[a]
  /\ mEpoch[a] # 0 => loading[a]
  /\ mgr[a] = "apply" /\ cur[a].kind = "START_MEASURE" => loading[a]
  /\ \A i \in 1..Len(inbox[a]) :
       inbox[a][i].kind = "START_MEASURE" =>
         Told(a) \/ \E j \in 1..i - 1 : inbox[a][j].kind = "START_LOAD"

\* The i-th round of the plan has been broadcast at this load level.
Past(i) == i < at \/ (i = at /\ idx > 0)

\* The load rounds are the second and the third of every plan.
LoadSent ==
  result = "running" =>
    /\ Past(2) => \A a \in ToSet(Main) : Sent(a)
    /\ Past(3) => \A a \in ToSet(Lt) : Sent(a)

LoadInv == LoadSent /\ \A a \in Agents : QueueInv(a)

\* The reply of a to the current round has not been read.
Waiting(a) ==
  result = "running" /\ idx > 0 /\ \E j \in idx..Len(Group(Round)) : Group(Round)[j] = a

\* The manager computes a report.
Working(a) == mgr[a] = "apply" /\ cur[a].kind \in {"REPORT_THROUGHPUT", "REPORT_LATENCY"}

\* The START_MEASURE a measures for once it has applied what it was told.
Latest(a) ==
  IF inbox[a] # <<>> /\ inbox[a][1].kind = "START_MEASURE" THEN inbox[a][1].req
  ELSE IF mgr[a] = "apply" /\ cur[a].kind = "START_MEASURE" THEN cur[a].req
  ELSE mEpoch[a]

Fresh(a) == mgr[a] \in Gone \/ Latest(a) = measureNo

\* The kind of reply that a request asks for.
RightKind(m) ==
  /\ Request(Round) = "REPORT_THROUGHPUT" <=> m.kind = "thr"
  /\ Request(Round) = "REPORT_LATENCY" <=> m.kind = "lat"

FreshReport(m, a) == m.epoch = measureNo /\ loading[a]

Quiet(a) == stream[a] = <<>> /\ ~Working(a) /\ inbox[a] = <<>>
Asked(a) == /\ stream[a] = <<>> /\ ~Working(a)
            /\ Len(inbox[a]) <= 1
            /\ inbox[a] # <<>> => /\ inbox[a][1].req = reqNo
                                  /\ inbox[a][1].kind = Request(Round)
Computing(a) == /\ stream[a] = <<>> /\ Working(a) /\ inbox[a] = <<>>
                /\ cur[a].req = reqNo /\ cur[a].kind = Request(Round)
Answered(a) == /\ Len(stream[a]) = 1 /\ ~Working(a) /\ inbox[a] = <<>>
               /\ LET m == stream[a][1]
                  IN  /\ m.req = reqNo /\ m.left = Size(m.kind) /\ RightKind(m)
                      /\ m.kind \in {"thr", "lat"} => FreshReport(m, a)

OneMessage(a) == IF Waiting(a) THEN Asked(a) \/ Computing(a) \/ Answered(a) ELSE Quiet(a)

\* The reply of a to the i-th round of the plan has been read.
WasRead(i, a) ==
  \E j \in 1..Len(Group(Plan[i])) :
    Group(Plan[i])[j] = a /\ (i < at \/ (i = at /\ j < idx))

Collected(r, a) == got[a].kind = r /\ FreshReport(got[a], a)

CleanInv ==
  clean =>
    /\ result \in {"running", "ok"}
    /\ \A a \in Agents : OneMessage(a) /\ (a \in ToSet(All) => Fresh(a))
    /\ result = "running" =>
         \A r \in {"thr", "lat"} : \A a \in Agents : WasRead(Index(r), a) => Collected(r, a)
    /\ result = "ok" =>
         /\ \A a \in ToSet(Th) : Collected("thr", a)
         /\ \A a \in ToSet(Lt) \cup ToSet(Sym) : Collected("lat", a)

IInv == Types /\ LoadInv /\ CleanInv

-----------------------------------------------------------------------------
(* The bytes of a connection.                                              *)

\* A set of numbers that is not empty has a least member, and one below a
\* bound has a greatest.
LEMMA LeastMember ==
  ASSUME NEW S, S \subseteq Nat, S # {}
  PROVE  \E x \in S : \A y \in S : x <= y
  <1>1. PICK x \in S : \A y \in S : <<y, x>> \notin OpToRel(<, Nat)
    BY NatLessThanWellFounded, WFMin
  <1>2. ASSUME NEW y \in S PROVE x <= y
    <2>1. <<y, x>> \notin {ss \in Nat \X Nat : ss[1] < ss[2]}
      BY <1>1 DEF OpToRel
    <2>. QED BY <2>1
  <1>. QED BY <1>2

LEMMA Least ==
  ASSUME NEW S, S \subseteq Nat, S # {}
  PROVE  Min(S) \in S /\ \A y \in S : Min(S) <= y
  BY LeastMember DEF Min

LEMMA Greatest ==
  ASSUME NEW n \in Nat, NEW S, S \subseteq 0..n, S # {}
  PROVE  Max(S) \in S /\ \A y \in S : y <= Max(S)
  <1>. DEFINE D == {d \in 0..n : n - d \in S}
  <1>1. D # {}
    <2>1. PICK x \in S : TRUE
      OBVIOUS
    <2>2. x \in 0..n /\ n - x \in 0..n /\ n - (n - x) = x
      BY <2>1
    <2>. QED BY <2>1, <2>2
  <1>2. PICK d \in D : \A y \in D : d <= y
    <2>1. D \subseteq Nat
      OBVIOUS
    <2>. HIDE DEF D
    <2>. QED BY <1>1, <2>1, LeastMember
  <1>3. ASSUME NEW y \in S PROVE y <= n - d
    <2>1. y \in 0..n /\ n - y \in 0..n /\ n - (n - y) = y
      OBVIOUS
    <2>2. n - y \in D /\ d \in 0..n
      BY <2>1
    <2>3. d <= n - y
      BY <1>2, <2>2
    <2>. QED BY <2>1, <2>2, <2>3
  <1>4. n - d \in S
    OBVIOUS
  <1>. QED BY <1>3, <1>4 DEF Max

\* The recursion of BytesUpTo: its first n steps define a function.
Sums(f, s, n) == f = [k \in 0..n |-> IF k = 0 THEN 0 ELSE f[k - 1] + s[k].left]

LEMMA SumsOfAnswers ==
  ASSUME NEW s \in Seq(Answer)
  PROVE  \A n \in 0..Len(s) : \E f \in [0..n -> Nat] : Sums(f, s, n)
  <1>. DEFINE Bad == {n \in 0..Len(s) : ~ \E f \in [0..n -> Nat] : Sums(f, s, n)}
  <1>1. SUFFICES ASSUME Bad # {} PROVE FALSE
    OBVIOUS
  <1>2. PICK n \in Bad : \A m \in Bad : n <= m
    <2>1. Bad \subseteq Nat
      OBVIOUS
    <2>. HIDE DEF Bad
    <2>. QED BY <1>1, <2>1, LeastMember
  <1>3. CASE n = 0
    <2>. DEFINE f == [k \in 0..0 |-> 0]
    <2>1. f \in [0..0 -> Nat] /\ Sums(f, s, 0)
      BY DEF Sums
    <2>. QED BY <1>3, <2>1
  <1>4. CASE n # 0
    <2>1. n \in 1..Len(s) /\ n - 1 \in 0..Len(s) /\ ~(n <= n - 1)
      BY <1>4
    <2>2. PICK g \in [0..n - 1 -> Nat] : Sums(g, s, n - 1)
      BY <1>2, <2>1
    <2>. DEFINE f == [k \in 0..n |-> IF k = n THEN g[n - 1] + s[n].left ELSE g[k]]
    <2>3. s[n].left \in Nat /\ g[n - 1] \in Nat
      <3>1. s[n] \in Answer /\ n - 1 \in 0..n - 1
        BY <2>1
      <3>. QED BY <3>1 DEF Answer
    <2>4. f \in [0..n -> Nat]
      BY <2>1, <2>3
    <2>5. \A k \in 0..n - 1 : g[k] = IF k = 0 THEN 0 ELSE g[k - 1] + s[k].left
      BY <2>2 DEF Sums
    <2>6. ASSUME NEW k \in 0..n PROVE f[k] = IF k = 0 THEN 0 ELSE f[k - 1] + s[k].left
      <3>1. CASE k = n
        <4>1. n # 0 /\ n - 1 \in 0..n /\ n - 1 # n
          BY <2>1
        <4>. QED BY <3>1, <4>1
      <3>2. CASE k # n
        <4>1. k \in 0..n - 1 /\ (k # 0 => k - 1 \in 0..n - 1 /\ k - 1 # n)
          BY <2>1, <3>2
        <4>2. f[k] = g[k] /\ (k # 0 => f[k - 1] = g[k - 1])
          BY <4>1
        <4>. HIDE DEF f
        <4>. QED BY <2>5, <4>1, <4>2
      <3>. QED BY <3>1, <3>2
    <2>. HIDE DEF f
    <2>7. Sums(f, s, n)
      BY <2>4, <2>6 DEF Sums
    <2>. QED BY <2>4, <2>7
  <1>. QED BY <1>3, <1>4

LEMMA Bytes ==
  ASSUME NEW s \in Seq(Answer)
  PROVE  /\ BytesUpTo(s) \in [0..Len(s) -> Nat] /\ BytesUpTo(s)[0] = 0
         /\ \A k \in 1..Len(s) : BytesUpTo(s)[k] = BytesUpTo(s)[k - 1] + s[k].left
  <1>. DEFINE n == Len(s)
              b == BytesUpTo(s)
  <1>1. b = CHOOSE f : Sums(f, s, n)
    BY DEF BytesUpTo, Sums
  <1>2. n \in Nat /\ \E f : Sums(f, s, n)
    BY SumsOfAnswers
  <1>3. Sums(b, s, n)
    BY ONLY <1>1, <1>2
  <1>. HIDE DEF n, b
  <1>4. PICK f \in [0..n -> Nat] : Sums(f, s, n)
    BY SumsOfAnswers DEF n
  <1>5. \A k \in 0..n : b[k] = IF k = 0 THEN 0 ELSE b[k - 1] + s[k].left
    BY <1>3 DEF Sums
  <1>6. \A k \in 0..n : f[k] = IF k = 0 THEN 0 ELSE f[k - 1] + s[k].left
    BY <1>4 DEF Sums
  <1>. DEFINE Bad == {k \in 0..n : b[k] # f[k]}
  <1>7. Bad = {}
    <2>1. SUFFICES ASSUME Bad # {} PROVE FALSE
      OBVIOUS
    <2>2. PICK k \in Bad : \A m \in Bad : k <= m
      <3>1. Bad \subseteq Nat
        BY <1>2
      <3>. HIDE DEF Bad
      <3>. QED BY <2>1, <3>1, LeastMember
    <2>3. k # 0 /\ k - 1 \in 0..n /\ ~(k <= k - 1)
      BY <1>2, <1>5, <1>6
    <2>4. b[k - 1] = f[k - 1]
      BY <2>2, <2>3
    <2>. QED BY <1>5, <1>6, <2>3, <2>4
  <1>8. b \in [0..n -> Nat]
    BY <1>3, <1>4, <1>7 DEF Sums
  <1>9. b[0] = 0 /\ \A k \in 1..n : b[k] = b[k - 1] + s[k].left
    BY <1>2, <1>5
  <1>. QED BY <1>8, <1>9 DEF n, b

\* What a Read leaves are replies that still have bytes.
LEMMA AfterReadAnswers ==
  ASSUME NEW s \in Seq(Answer), \A i \in 1..Len(s) : s[i].left > 0, NEW n \in Nat
  PROVE  /\ AfterRead(s, n) \in Seq(Answer)
         /\ \A i \in 1..Len(AfterRead(s, n)) : AfterRead(s, n)[i].left > 0
         /\ (Len(s) = 1 /\ s[1].left <= n) => AfterRead(s, n) = <<>>
  <1>. DEFINE b == BytesUpTo(s)
              fits == {k \in 0..Len(s) : b[k] <= n}
              whole == Max(fits)
              rest == SubSeq(s, whole + 1, Len(s))
              cut == n - b[whole]
              after == IF rest = <<>> THEN <<>> ELSE [rest EXCEPT ![1].left = @ - cut]
  <1>1. AfterRead(s, n) = after
    BY DEF AfterRead
  <1>2. /\ b \in [0..Len(s) -> Nat] /\ b[0] = 0 /\ Len(s) \in Nat
        /\ \A k \in 1..Len(s) : b[k] = b[k - 1] + s[k].left
    BY Bytes
  <1>. HIDE DEF b
  <1>3. whole \in fits /\ \A k \in fits : k <= whole
    <2>1. fits \subseteq 0..Len(s) /\ fits # {}
      BY <1>2
    <2>. HIDE DEF fits
    <2>. QED BY <1>2, <2>1, Greatest
  <1>4. whole \in 0..Len(s) /\ b[whole] <= n
    BY <1>3
  <1>5. \A k \in 0..Len(s) : b[k] <= n => k <= whole
    BY <1>3
  <1>. HIDE DEF fits, whole
  <1>6. /\ rest \in Seq(Answer) /\ Len(rest) = Len(s) - whole
        /\ \A i \in 1..Len(rest) : rest[i] = s[whole + i]
    BY <1>2, <1>4
  <1>7. CASE whole = Len(s)
    <2>1. rest = <<>>
      BY <1>2, <1>6, <1>7
    <2>2. AfterRead(s, n) = <<>>
      BY <1>1, <2>1
    <2>3. <<>> \in Seq(Answer) /\ 1..Len(<<>>) = {}
      OBVIOUS
    <2>. QED BY ONLY <2>2, <2>3
  <1>8. CASE whole # Len(s)
    <2>1. whole + 1 \in 1..Len(s) /\ ~(whole + 1 <= whole) /\ (whole + 1) - 1 = whole
      BY <1>2, <1>4, <1>8
    <2>2. b[whole + 1] = b[whole] + s[whole + 1].left /\ ~(b[whole + 1] <= n)
      BY <1>2, <1>5, <2>1
    <2>3. s[whole + 1] \in Answer
      BY <2>1
    <2>4. s[whole + 1].left \in Nat /\ b[whole] \in Nat
      BY <1>2, <1>4, <2>3 DEF Answer
    <2>5. cut \in Nat /\ cut < s[whole + 1].left
      BY <1>2, <1>4, <2>1, <2>2, <2>4
    <2>. HIDE DEF cut, rest
    <2>6. Len(rest) > 0 /\ 1 \in 1..Len(rest) /\ rest[1] = s[whole + 1] /\ rest # <<>>
      <3>1. Len(rest) > 0
        BY <1>2, <1>4, <1>6, <1>8
      <3>2. 1 \in 1..Len(rest) /\ rest # <<>>
        BY <1>6, <3>1
      <3>. QED BY <1>6, <3>1, <3>2
    <2>7. [rest[1] EXCEPT !.left = @ - cut] \in Answer /\ [rest[1] EXCEPT !.left = @ - cut].left > 0
      <3>. DEFINE l == rest[1].left - cut
      <3>1. l \in Nat /\ l > 0 /\ rest[1] \in Answer
        BY <2>3, <2>4, <2>5, <2>6
      <3>. HIDE DEF l
      <3>2. [rest[1] EXCEPT !.left = l] \in Answer /\ [rest[1] EXCEPT !.left = l].left > 0
        BY <3>1 DEF Answer
      <3>. QED BY <3>2 DEF l
    <2>8. after = [rest EXCEPT ![1] = [rest[1] EXCEPT !.left = @ - cut]]
      BY <2>6
    <2>. HIDE DEF after
    <2>9. after \in Seq(Answer) /\ Len(after) = Len(rest)
      BY <1>6, <2>6, <2>7, <2>8
    <2>10. \A i \in 1..Len(rest) : rest[i].left > 0
      <3>. SUFFICES ASSUME NEW i \in 1..Len(rest) PROVE rest[i].left > 0
        OBVIOUS
      <3>1. whole + i \in 1..Len(s)
        BY <1>2, <1>4, <1>6
      <3>. QED BY <1>6, <3>1
    <2>11. ASSUME NEW i \in 1..Len(after) PROVE after[i].left > 0
      BY <1>6, <2>6, <2>7, <2>8, <2>9, <2>10
    <2>12. ~(Len(s) = 1 /\ s[1].left <= n)
      <3>1. SUFFICES ASSUME Len(s) = 1, s[1].left <= n PROVE FALSE
        OBVIOUS
      <3>2. whole = 0
        BY <1>4, <1>8, <3>1
      <3>. QED BY <1>2, <2>2, <2>4, <3>1, <3>2
    <2>. QED BY <1>1, <2>9, <2>11, <2>12
  <1>. QED BY <1>7, <1>8

-----------------------------------------------------------------------------
(* The experiment, the groups of agents and the plan.                      *)

LEMMA Concatenation ==
  ASSUME NEW S, NEW x \in Seq(S), NEW y \in Seq(S)
  PROVE  /\ x \o y \in Seq(S) /\ Len(x \o y) = Len(x) + Len(y)
         /\ \A i \in 1..Len(x) : (x \o y)[i] = x[i]
         /\ \A i \in 1..Len(y) : (x \o y)[Len(x) + i] = y[i]
         /\ ToSet(x \o y) = ToSet(x) \cup ToSet(y)
  <1>1. /\ x \o y \in Seq(S) /\ Len(x \o y) = Len(x) + Len(y)
        /\ \A i \in 1..Len(x) : (x \o y)[i] = x[i]
        /\ \A i \in 1..Len(y) : (x \o y)[Len(x) + i] = y[i]
    OBVIOUS
  <1>2. \A i \in 1..Len(x \o y) : i \in 1..Len(x) \/ (i - Len(x) \in 1..Len(y)
                                                     /\ i = Len(x) + (i - Len(x)))
    BY <1>1
  <1>3. \A i \in 1..Len(x) : i \in 1..Len(x \o y)
    BY <1>1
  <1>4. \A i \in 1..Len(y) : Len(x) + i \in 1..Len(x \o y)
    BY <1>1
  <1>5. /\ DOMAIN x = 1..Len(x) /\ DOMAIN y = 1..Len(y)
        /\ DOMAIN (x \o y) = 1..Len(x \o y)
    BY <1>1
  <1>6. ASSUME NEW i \in 1..Len(x \o y) PROVE (x \o y)[i] \in ToSet(x) \cup ToSet(y)
    BY <1>1, <1>2, <1>5 DEF ToSet
  <1>7. ASSUME NEW e \in ToSet(x) \cup ToSet(y) PROVE e \in ToSet(x \o y)
    <2>1. CASE e \in ToSet(x)
      BY <1>1, <1>3, <1>5, <2>1 DEF ToSet
    <2>2. CASE e \in ToSet(y)
      BY <1>1, <1>4, <1>5, <2>2 DEF ToSet
    <2>. QED BY <2>1, <2>2
  <1>8. ToSet(x \o y) \subseteq ToSet(x) \cup ToSet(y)
    BY <1>5, <1>6 DEF ToSet
  <1>. QED BY <1>1, <1>7, <1>8

Once(s) == \A i, j \in 1..Len(s) : s[i] = s[j] => i = j

LEMMA OnceEach ==
  ASSUME NEW S, NEW x \in Seq(S), NEW y \in Seq(S)
  PROVE  Once(x \o y) <=> Once(x) /\ Once(y) /\ ToSet(x) \cap ToSet(y) = {}
  <1>. DEFINE xy == x \o y
  <1>1. /\ xy \in Seq(S) /\ Len(xy) = Len(x) + Len(y)
        /\ \A i \in 1..Len(x) : xy[i] = x[i]
        /\ \A i \in 1..Len(y) : xy[Len(x) + i] = y[i]
    BY Concatenation
  <1>2. Len(x) \in Nat /\ Len(y) \in Nat
    OBVIOUS
  <1>3. DOMAIN x = 1..Len(x) /\ DOMAIN y = 1..Len(y)
    OBVIOUS
  <1>. HIDE DEF xy
  <1>4. ASSUME Once(xy) PROVE Once(x) /\ Once(y) /\ ToSet(x) \cap ToSet(y) = {}
    <2>1. Once(x)
      BY <1>1, <1>2, <1>4 DEF Once
    <2>2. ASSUME NEW i \in 1..Len(y), NEW j \in 1..Len(y), y[i] = y[j] PROVE i = j
      <3>1. Len(x) + i \in 1..Len(xy) /\ Len(x) + j \in 1..Len(xy)
        BY <1>1, <1>2
      <3>2. Len(x) + i = Len(x) + j
        BY <1>1, <1>4, <2>2, <3>1 DEF Once
      <3>. QED BY <1>2, <3>2
    <2>3. ASSUME NEW i \in 1..Len(x), NEW j \in 1..Len(y), x[i] = y[j] PROVE FALSE
      <3>1. i \in 1..Len(xy) /\ Len(x) + j \in 1..Len(xy) /\ i # Len(x) + j
        BY <1>1, <1>2
      <3>. QED BY <1>1, <1>4, <2>3, <3>1 DEF Once
    <2>4. ToSet(x) \cap ToSet(y) = {}
      BY <1>3, <2>3 DEF ToSet
    <2>. QED BY <2>1, <2>2, <2>4 DEF Once
  <1>5. ASSUME Once(x), Once(y), ToSet(x) \cap ToSet(y) = {} PROVE Once(xy)
    <2>1. \A i \in 1..Len(x), j \in 1..Len(y) : x[i] # y[j]
      BY <1>3, <1>5 DEF ToSet
    <2>2. \A i \in 1..Len(xy) : i \in 1..Len(x) \/ (i - Len(x) \in 1..Len(y)
                                                   /\ i = Len(x) + (i - Len(x)))
      BY <1>1, <1>2
    <2>3. ASSUME NEW i \in 1..Len(xy), NEW j \in 1..Len(xy), xy[i] = xy[j] PROVE i = j
      <3>1. CASE i \in 1..Len(x) /\ j \in 1..Len(x)
        BY <1>1, <1>5, <2>3, <3>1 DEF Once
      <3>2. CASE i \in 1..Len(x) /\ j \notin 1..Len(x)
        <4>1. j - Len(x) \in 1..Len(y) /\ xy[j] = y[j - Len(x)] /\ xy[i] = x[i]
          BY <1>1, <2>2, <3>2
        <4>. QED BY <2>1, <2>3, <3>2, <4>1
      <3>3. CASE i \notin 1..Len(x) /\ j \in 1..Len(x)
        <4>1. i - Len(x) \in 1..Len(y) /\ xy[i] = y[i - Len(x)] /\ xy[j] = x[j]
          BY <1>1, <2>2, <3>3
        <4>. QED BY <2>1, <2>3, <3>3, <4>1
      <3>4. CASE i \notin 1..Len(x) /\ j \notin 1..Len(x)
        <4>1. y[i - Len(x)] = y[j - Len(x)]
          BY <1>1, <2>2, <2>3, <3>4
        <4>2. i - Len(x) = j - Len(x)
          BY <1>5, <2>2, <3>4, <4>1 DEF Once
        <4>. QED BY <1>2, <4>2
      <3>. QED BY <3>1, <3>2, <3>3, <3>4
    <2>. QED BY <2>3 DEF Once
  <1>. QED BY <1>4, <1>5 DEF xy

LEMMA Parameters ==
  ASSUME exp \in Experiments
  PROVE  /\ Th \in Seq(Agents) /\ Lt \in Seq(Agents) /\ Sym \in Seq(Agents)
         /\ Len(All) > 0 /\ Once(All)
         /\ exp.pattern \in Patterns /\ exp.waitConn \in BOOLEAN
         /\ exp.mainLoad \in {0, 1} /\ exp.latLoad \in {0, 1}
         /\ exp.steps \in Nat /\ exp.steps > 0 /\ exp.polls \in Nat /\ exp.polls > 0
         /\ exp.tries \in Nat /\ exp.tries > 0
  <1>. DEFINE all == exp.th \o exp.lt \o exp.sym
  <1>1. /\ exp.th \in Seq(Agents) /\ exp.lt \in Seq(Agents) /\ exp.sym \in Seq(Agents)
        /\ Len(all) > 0 /\ IsInjective(all)
        /\ exp.pattern \in Patterns /\ exp.waitConn \in BOOLEAN
        /\ exp.mainLoad \in {0, 1} /\ exp.latLoad \in {0, 1}
        /\ exp.steps \in Nat \ {0} /\ exp.polls \in Nat \ {0} /\ exp.tries \in Nat \ {0}
    <2>1. Experiment(exp)
      BY CoordinationAssumption
    <2>2. /\ exp.th \in Seq(Agents) /\ exp.lt \in Seq(Agents) /\ exp.sym \in Seq(Agents)
          /\ Len(all) > 0 /\ IsInjective(all)
          /\ exp.pattern \in Patterns /\ exp.waitConn \in BOOLEAN
          /\ {exp.mainLoad, exp.latLoad} \subseteq {0, 1}
          /\ {exp.steps, exp.polls, exp.tries} \subseteq Nat \ {0}
      BY <2>1 DEF Experiment
    <2>. HIDE DEF all
    <2>. QED BY <2>2
  <1>2. all = All /\ all \in Seq(Agents)
    BY <1>1 DEF All, Th, Lt, Sym
  <1>. HIDE DEF all
  <1>3. Once(all)
    BY <1>1, <1>2 DEF Once, IsInjective
  <1>. QED BY <1>1, <1>2, <1>3 DEF Th, Lt, Sym

\* Every agent has one role, and every group names it once.
LEMMA Groups ==
  ASSUME exp \in Experiments
  PROVE  /\ All \in Seq(Agents) /\ Main \in Seq(Agents) /\ All # <<>>
         /\ ToSet(Main) = ToSet(Sym) \cup ToSet(Th)
         /\ ToSet(All) = ToSet(Th) \cup ToSet(Lt) \cup ToSet(Sym)
         /\ ToSet(Th) \cap (ToSet(Lt) \cup ToSet(Sym)) = {}
         /\ \A r \in Rounds : /\ Group(r) \in Seq(Agents) /\ Once(Group(r))
                              /\ ToSet(Group(r)) \subseteq ToSet(All)
         /\ ToSet(Group("thr")) = ToSet(Th)
         /\ ToSet(Group("lat")) = ToSet(Lt) \cup ToSet(Sym)
  <1>1. Th \in Seq(Agents) /\ Lt \in Seq(Agents) /\ Sym \in Seq(Agents) /\ Len(All) > 0
    BY Parameters
  <1>2. /\ Th \o Lt \in Seq(Agents) /\ ToSet(Th \o Lt) = ToSet(Th) \cup ToSet(Lt)
        /\ Sym \o Th \in Seq(Agents) /\ ToSet(Sym \o Th) = ToSet(Sym) \cup ToSet(Th)
        /\ Sym \o Lt \in Seq(Agents) /\ ToSet(Sym \o Lt) = ToSet(Sym) \cup ToSet(Lt)
        /\ Lt \o Sym \in Seq(Agents) /\ ToSet(Lt \o Sym) = ToSet(Lt) \cup ToSet(Sym)
    BY <1>1, Concatenation
  <1>3. All = (Th \o Lt) \o Sym /\ All \in Seq(Agents)
        /\ ToSet(All) = ToSet(Th) \cup ToSet(Lt) \cup ToSet(Sym)
    <2>. DEFINE tl == Th \o Lt
    <2>1. All = tl \o Sym
      BY DEF All
    <2>2. tl \in Seq(Agents) /\ ToSet(tl) = ToSet(Th) \cup ToSet(Lt)
      BY <1>2
    <2>. HIDE DEF tl
    <2>3. tl \o Sym \in Seq(Agents) /\ ToSet(tl \o Sym) = ToSet(tl) \cup ToSet(Sym)
      BY <1>1, <2>2, Concatenation
    <2>4. All \in Seq(Agents) /\ ToSet(All) = ToSet(Th) \cup ToSet(Lt) \cup ToSet(Sym)
      BY <2>1, <2>2, <2>3
    <2>. QED BY <2>1, <2>4 DEF tl
  <1>4. Once((Th \o Lt) \o Sym)
    BY <1>3, Parameters
  <1>5. Once(Th \o Lt) /\ Once(Sym) /\ ToSet(Th \o Lt) \cap ToSet(Sym) = {}
    BY <1>1, <1>2, <1>4, OnceEach
  <1>6. Once(Th) /\ Once(Lt) /\ ToSet(Th) \cap ToSet(Lt) = {}
    BY <1>1, <1>5, OnceEach
  <1>7. Once(Sym \o Th) /\ Once(Sym \o Lt) /\ Once(Lt \o Sym)
    <2>1. /\ ToSet(Sym) \cap ToSet(Th) = {} /\ ToSet(Sym) \cap ToSet(Lt) = {}
          /\ ToSet(Lt) \cap ToSet(Sym) = {}
      BY <1>2, <1>5
    <2>. QED BY <1>1, <1>5, <1>6, <2>1, OnceEach
  <1>8. <<>> \in Seq(Agents) /\ Once(<<>>) /\ ToSet(<<>>) = {}
    BY DEF Once, ToSet
  <1>9. \A r \in Rounds : Group(r) \in {<<>>, Th, Lt, All, Sym \o Th, Sym \o Lt, Lt \o Sym}
    BY DEF Group, Rounds, Main
  <1>10. /\ Main = Sym \o Th /\ Group("thr") = Th
         /\ Group("lat") \in {Sym \o Lt, Lt \o Sym}
    BY DEF Group, Main
  <1>11. All # <<>>
    BY <1>1
  <1>. HIDE DEF Main
  <1>12. ASSUME NEW r \in Rounds
         PROVE  /\ Group(r) \in Seq(Agents) /\ Once(Group(r))
                /\ ToSet(Group(r)) \subseteq ToSet(All)
    BY <1>1, <1>2, <1>3, <1>4, <1>5, <1>6, <1>7, <1>8, <1>9
  <1>13. ToSet(Group("lat")) = ToSet(Lt) \cup ToSet(Sym)
    BY <1>2, <1>10
  <1>. QED BY <1>2, <1>3, <1>5, <1>6, <1>10, <1>11, <1>12, <1>13

LEMMA Plans ==
  /\ Len(Plan) = (IF Qual THEN 8 ELSE 6) /\ \A i \in 1..Len(Plan) : Plan[i] \in Rounds
  /\ Plan[1] = "conn" /\ Plan[2] = "mainLoad" /\ Plan[3] = "latLoad"
  /\ \A i \in 1..Len(Plan) :
       /\ Plan[i] = "conn" <=> i = 1
       /\ Plan[i] = "mainLoad" <=> i = 2
       /\ Plan[i] = "latLoad" <=> i = 3
       /\ Plan[i] = "measure" <=> i = IF Qual THEN 6 ELSE 4
       /\ Plan[i] = "thr" <=> i = IF Qual THEN 8 ELSE 5
       /\ Plan[i] = "lat" <=> i = IF Qual THEN 7 ELSE 6
       /\ i < 4 => Plan[i] \in {"conn", "mainLoad", "latLoad"}
       /\ i > 3 => Plan[i] \notin {"conn", "mainLoad", "latLoad"}
       /\ i > (IF Qual THEN 6 ELSE 4) => Plan[i] \in {"thr", "lat"}
  <1>1. CASE Qual
    <2>1. Plan = <<"conn", "mainLoad", "latLoad", "probe", "probeThr", "measure",
                   "lat", "thr">>
      BY <1>1 DEF Plan
    <2>2. 1..Len(Plan) = {1, 2, 3, 4, 5, 6, 7, 8} /\ Len(Plan) = 8
      BY <2>1
    <2>. QED BY <1>1, <2>1, <2>2 DEF Rounds
  <1>2. CASE ~Qual
    <2>1. Plan = <<"conn", "mainLoad", "latLoad", "measure", "thr", "lat">>
      BY <1>2 DEF Plan
    <2>2. 1..Len(Plan) = {1, 2, 3, 4, 5, 6} /\ Len(Plan) = 6
      BY <2>1
    <2>. QED BY <1>2, <2>1, <2>2 DEF Rounds
  <1>. QED BY <1>1, <1>2

LEMMA Indexes ==
  /\ Index("measure") = (IF Qual THEN 6 ELSE 4)
  /\ Index("thr") = (IF Qual THEN 8 ELSE 5)
  /\ Index("lat") = (IF Qual THEN 7 ELSE 6)
  BY Plans DEF Index

\* The next round is the first one after i with a group; there is one until the
\* measurement, which all agents make.
LEMMA NextRound ==
  ASSUME exp \in Experiments, NEW i \in 0..Len(Plan)
  PROVE  /\ After(i) \in Nat /\ After(i) > i /\ After(i) <= Len(Plan) + 1
         /\ After(i) <= Len(Plan) => Group(Plan[After(i)]) # <<>>
         /\ \A j \in 1..Len(Plan) : i < j /\ j < After(i) => Group(Plan[j]) = <<>>
         /\ i < Index("measure") => After(i) <= Index("measure")
  <1>. DEFINE S == {j \in i + 1 .. Len(Plan) + 1 : j = Len(Plan) + 1 \/ Group(Plan[j]) # <<>>}
  <1>1. After(i) = Min(S)
    BY DEF After
  <1>2. Len(Plan) \in Nat /\ Len(Plan) + 1 \in S /\ S \subseteq Nat
    BY Plans
  <1>3. After(i) \in S /\ \A j \in S : After(i) <= j
    <2>. HIDE DEF S
    <2>. QED BY <1>1, <1>2, Least
  <1>4. i < Index("measure") => Index("measure") \in S
    <2>1. Index("measure") \in 1..Len(Plan) /\ Plan[Index("measure")] = "measure"
      BY Plans, Indexes
    <2>2. Group("measure") # <<>>
      BY Groups DEF Group
    <2>. QED BY <1>2, <2>1, <2>2
  <1>5. ASSUME NEW j \in 1..Len(Plan), i < j, j < After(i) PROVE Group(Plan[j]) = <<>>
    <2>1. j \notin S
      BY <1>2, <1>3, <1>5
    <2>. QED BY <1>2, <1>5, <2>1
  <1>6. After(i) \in i + 1 .. Len(Plan) + 1
        /\ (After(i) = Len(Plan) + 1 \/ Group(Plan[After(i)]) # <<>>)
    BY <1>3
  <1>7. i < Index("measure") => After(i) <= Index("measure")
    BY <1>3, <1>4
  <1>8. After(i) \in Nat /\ After(i) > i /\ After(i) <= Len(Plan) + 1
    BY <1>2, <1>6
  <1>9. After(i) <= Len(Plan) => Group(Plan[After(i)]) # <<>>
    BY <1>2, <1>6, <1>8
  <1>. QED BY <1>5, <1>7, <1>8, <1>9

\* The plan and the groups are those of the experiment, which never changes.
LEMMA SamePlan ==
  ASSUME exp' = exp
  PROVE  /\ Plan' = Plan /\ Th' = Th /\ Lt' = Lt /\ Sym' = Sym /\ Main' = Main /\ All' = All
         /\ Qual' = Qual /\ Round' = Plan[at']
         /\ Group(Round)' = Group(Plan[at'])
         /\ \A r : Group(r)' = Group(r)
         /\ \A r : Index(r)' = Index(r)
  <1>1. /\ Plan' = Plan /\ Th' = Th /\ Lt' = Lt /\ Sym' = Sym /\ Main' = Main /\ All' = All
        /\ Qual' = Qual /\ Round' = Plan[at']
    BY DEF Plan, Th, Lt, Sym, Main, All, Qual, Round
  <1>2. Group(Round)' = Group(Plan[at'])
    BY <1>1 DEF Group
  <1>3. \A r : Group(r)' = Group(r)
    BY <1>1 DEF Group
  <1>4. \A r : Index(r)' = Index(r)
    BY <1>1 DEF Index
  <1>. QED BY <1>1, <1>2, <1>3, <1>4

-----------------------------------------------------------------------------
(* How a round ends.                                                       *)

\* Another round begins, before which every round has been broadcast or has no
\* agents, or the coordinator ends.
RoundEnds ==
  /\ allOpen' \in BOOLEAN /\ polls' \in Nat /\ polls' < exp.polls
  /\ tries' \in Nat /\ tries' < exp.tries /\ step' \in 1..exp.steps
  /\ reset' \in SUBSET Agents /\ clean' \in {FALSE, clean}
  /\ \/ \E n \in 1..Len(Plan) :
          /\ at' = n /\ idx' = 0 /\ result' = "running" /\ Group(Plan[n]) # <<>>
          /\ n <= Index("measure") \/ n = After(at)
          /\ \A i \in 1..n - 1 : Past(i) \/ Group(Plan[i]) = <<>>
     \/ /\ UNCHANGED <<at, idx>> /\ result' \in {"ok", "err"}
        /\ clean' => result' = "ok" /\ After(at) > Len(Plan)

LEMMA CoordFacts ==
  ASSUME Types
  PROVE  /\ exp \in Experiments
         /\ at \in 1..Len(Plan) /\ Group(Round) # <<>> /\ idx \in 0..Len(Group(Round))
         /\ allOpen \in BOOLEAN /\ clean \in BOOLEAN
         /\ polls \in Nat /\ polls < exp.polls /\ tries \in Nat /\ tries < exp.tries
         /\ step \in 1..exp.steps /\ result \in {"running", "ok", "err"}
         /\ reqNo \in Nat /\ measureNo \in 0..reqNo /\ timeouts \in 0..MaxTimeouts
         /\ got \in [Agents -> Answer] /\ reset \in SUBSET Agents
         /\ Round \in Rounds /\ Group(Round) \in Seq(Agents) /\ Once(Group(Round))
         /\ ToSet(Group(Round)) \subseteq ToSet(All)
         /\ Len(Group(Round)) \in Nat
  <1>1. Round \in Rounds
    BY Plans DEF Types, CoordTypes, Round
  <1>2. /\ Group(Round) \in Seq(Agents) /\ Once(Group(Round))
        /\ ToSet(Group(Round)) \subseteq ToSet(All)
    BY <1>1, Groups DEF Types, CoordTypes
  <1>3. Len(Group(Round)) \in Nat
    BY <1>2
  <1>. QED BY <1>1, <1>2, <1>3 DEF Types, CoordTypes, AgentTypes

LEMMA GroupSets ==
  ASSUME Types
  PROVE  ToSet(Th) \subseteq Agents /\ ToSet(Lt) \cup ToSet(Sym) \subseteq Agents
  <1>1. Th \in Seq(Agents) /\ Lt \in Seq(Agents) /\ Sym \in Seq(Agents)
    BY CoordFacts, Parameters
  <1>2. ASSUME NEW s \in Seq(Agents) PROVE ToSet(s) \subseteq Agents
    BY DEF ToSet
  <1>. QED BY <1>1, <1>2

LEMMA FirstRoundFacts ==
  ASSUME exp \in Experiments
  PROVE  /\ FirstRound \in 1..Len(Plan) /\ Group(Plan[FirstRound]) # <<>>
         /\ FirstRound <= Index("measure")
         /\ \A i \in 1..FirstRound - 1 : Group(Plan[i]) = <<>>
  <1>1. 0 \in 0..Len(Plan) /\ Index("measure") <= Len(Plan) /\ 0 < Index("measure")
        /\ Len(Plan) \in Nat /\ Index("measure") \in Nat
    BY Plans, Indexes
  <1>2. /\ After(0) \in Nat /\ After(0) > 0 /\ After(0) <= Index("measure")
        /\ (After(0) <= Len(Plan) => Group(Plan[After(0)]) # <<>>)
        /\ \A j \in 1..Len(Plan) : 0 < j /\ j < After(0) => Group(Plan[j]) = <<>>
    BY <1>1, NextRound
  <1>3. FirstRound = After(0)
    BY DEF FirstRound
  <1>4. \A i \in 1..FirstRound - 1 : i \in 1..Len(Plan) /\ 0 < i /\ i < After(0)
    BY <1>1, <1>2, <1>3
  <1>. QED BY <1>1, <1>2, <1>3, <1>4

LEMMA FinishEnds ==
  ASSUME Types, result = "running", NEW ok \in BOOLEAN, Finish(ok),
         ok => After(at) > Len(Plan)
  PROVE  RoundEnds
  <1>1. exp.steps \in Nat /\ exp.polls \in Nat /\ exp.tries \in Nat /\ exp.polls > 0 /\ exp.tries > 0
    BY CoordFacts, Parameters
  <1>2. clean' = (clean /\ ok) /\ clean \in BOOLEAN
    BY CoordFacts DEF Finish
  <1>3. clean' \in {FALSE, clean} /\ (clean' => ok)
    BY <1>2
  <1>4. CASE Stepping /\ step < exp.steps
    <2>1. /\ step' = step + 1 /\ polls' = 0 /\ tries' = 0 /\ result' = result /\ reset' = reset
          /\ at' = FirstRound /\ idx' = 0 /\ allOpen' = TRUE
      BY <1>4 DEF Finish, Begin
    <2>2. step' \in 1..exp.steps
      <3>1. step \in 1..exp.steps
        BY CoordFacts
      <3>. QED BY <1>1, <1>4, <2>1, <3>1
    <2>3. result' = "running" /\ reset' \in SUBSET Agents
      BY <2>1, CoordFacts
    <2>4. \E n \in 1..Len(Plan) :
            /\ at' = n /\ Group(Plan[n]) # <<>> /\ n <= Index("measure")
            /\ \A i \in 1..n - 1 : Group(Plan[i]) = <<>>
      BY <2>1, CoordFacts, FirstRoundFacts
    <2>. QED BY <1>1, <1>3, <2>1, <2>2, <2>3, <2>4 DEF RoundEnds
  <1>5. CASE ~(Stepping /\ step < exp.steps)
    <2>1. /\ result' = (IF ok \/ Stepping THEN "ok" ELSE "err")
          /\ reset' = {a \in Agents : stream'[a] # <<>>}
          /\ UNCHANGED <<at, idx, allOpen, polls, tries, step>>
      BY <1>5 DEF Finish, Leave
    <2>2. result' \in {"ok", "err"} /\ (clean' => result' = "ok" /\ After(at) > Len(Plan))
      BY <1>3, <2>1
    <2>3. reset' \in SUBSET Agents
      BY <2>1
    <2>. QED BY <1>3, <2>1, <2>2, <2>3, CoordFacts DEF RoundEnds
  <1>. QED BY <1>4, <1>5

LEMMA AdvanceEnds ==
  ASSUME Types, result = "running", idx > 0, Advance(After(at))
  PROVE  RoundEnds
  <1>1. at \in 0..Len(Plan) /\ at \in Nat /\ Len(Plan) \in Nat
    BY CoordFacts, Plans
  <1>2. /\ After(at) \in Nat /\ After(at) > at
        /\ (After(at) <= Len(Plan) => Group(Plan[After(at)]) # <<>>)
        /\ \A j \in 1..Len(Plan) : at < j /\ j < After(at) => Group(Plan[j]) = <<>>
    BY <1>1, CoordFacts, NextRound
  <1>3. CASE After(at) > Len(Plan)
    BY <1>3, FinishEnds DEF Advance
  <1>4. CASE ~(After(at) > Len(Plan))
    <2>1. /\ at' = After(at) /\ idx' = 0 /\ allOpen' = TRUE
          /\ UNCHANGED <<polls, tries, step, result, clean, reset>>
      BY <1>4 DEF Advance, Begin
    <2>2. After(at) \in 1..Len(Plan) /\ Group(Plan[After(at)]) # <<>>
      BY <1>1, <1>2, <1>4
    <2>3. \A i \in 1..After(at) - 1 : Past(i) \/ Group(Plan[i]) = <<>>
      <3>1. SUFFICES ASSUME NEW i \in 1..After(at) - 1 PROVE Past(i) \/ Group(Plan[i]) = <<>>
        OBVIOUS
      <3>2. i \in 1..Len(Plan) /\ i < After(at)
        BY <1>1, <2>2
      <3>3. i <= at => Past(i)
        BY <1>1, <3>2 DEF Past
      <3>. QED BY <1>1, <1>2, <3>2, <3>3
    <2>. QED BY <2>1, <2>2, <2>3, CoordFacts DEF RoundEnds
  <1>. QED BY <1>3, <1>4

LEMMA RetryEnds ==
  ASSUME Types, result = "running", NEW n \in 1..Len(Plan), Retry(n),
         Group(Plan[n]) # <<>>, n <= Index("measure"),
         \A i \in 1..n - 1 : Past(i) \/ Group(Plan[i]) = <<>>
  PROVE  RoundEnds
  <1>1. exp.polls \in Nat /\ exp.tries \in Nat /\ exp.polls > 0 /\ exp.tries > 0
    BY CoordFacts, Parameters
  <1>2. CASE tries + 1 = exp.tries
    BY <1>2, FinishEnds DEF Retry
  <1>3. CASE tries + 1 # exp.tries
    <2>1. /\ tries' = tries + 1 /\ polls' = 0 /\ at' = n /\ idx' = 0 /\ allOpen' = TRUE
          /\ UNCHANGED <<step, result, clean, reset>>
      BY <1>3 DEF Retry, Begin
    <2>2. tries' \in Nat /\ tries' < exp.tries
      <3>1. tries \in Nat /\ tries < exp.tries
        BY CoordFacts
      <3>. QED BY <1>1, <1>3, <2>1, <3>1
    <2>3. /\ at' = n /\ idx' = 0 /\ result' = "running" /\ Group(Plan[n]) # <<>>
          /\ n <= Index("measure") \/ n = After(at)
          /\ \A i \in 1..n - 1 : Past(i) \/ Group(Plan[i]) = <<>>
      BY <2>1
    <2>4. /\ allOpen' \in BOOLEAN /\ polls' \in Nat /\ polls' < exp.polls
          /\ step' \in 1..exp.steps /\ reset' \in SUBSET Agents /\ clean' \in {FALSE, clean}
      BY <1>1, <2>1, CoordFacts
    <2>. QED BY <2>2, <2>3, <2>4 DEF RoundEnds
  <1>. QED BY <1>2, <1>3

LEMMA RoundDoneEnds ==
  ASSUME Types, result = "running", idx > 0, NEW open, RoundDone(open)
  PROVE  RoundEnds
  <1>1. CASE Round = "conn" /\ ~open
    <2>1. CASE PolledOut
      BY <1>1, <2>1, FinishEnds DEF RoundDone
    <2>2. CASE ~PolledOut
      <3>1. /\ polls' = polls + 1 /\ at' = at /\ idx' = 0 /\ allOpen' = TRUE
            /\ UNCHANGED <<tries, step, result, clean, reset>>
        BY <1>1, <2>2 DEF RoundDone, Begin
      <3>2. polls' \in Nat /\ polls' < exp.polls
        <4>1. polls + 1 # exp.polls /\ exp.polls \in Nat
          BY <2>2, CoordFacts, Parameters DEF PolledOut
        <4>. QED BY <3>1, <4>1, CoordFacts
      <3>3. at <= Index("measure")
        <4>1. Plan[at] = "conn"
          BY <1>1 DEF Round
        <4>2. at = 1
          BY <4>1, CoordFacts, Plans
        <4>. QED BY <4>2, Indexes
      <3>4. \A i \in 1..at - 1 : Past(i)
        BY CoordFacts DEF Past
      <3>5. Group(Plan[at]) # <<>>
        BY CoordFacts DEF Round
      <3>. QED BY <3>1, <3>2, <3>3, <3>4, <3>5, CoordFacts DEF RoundEnds
    <2>. QED BY <2>1, <2>2
  <1>2. CASE ~(Round = "conn" /\ ~open)
    <2>1. \/ Advance(After(at))
          \/ Qual /\ After(at) > Len(Plan) /\ Finish(FALSE)
          \/ Round = "probeThr" /\ Retry(FirstRound)
          \/ Qual /\ Round = "lat" /\ Retry(Index("measure"))
      BY <1>2 DEF RoundDone
    <2>2. CASE Retry(FirstRound)
      BY <2>2, CoordFacts, FirstRoundFacts, RetryEnds
    <2>3. CASE Round = "lat" /\ Retry(Index("measure"))
      <3>1. Index("measure") \in 1..Len(Plan) /\ Group(Plan[Index("measure")]) # <<>>
        <4>1. Index("measure") \in 1..Len(Plan)
          BY Plans, Indexes
        <4>2. Plan[Index("measure")] = "measure"
          BY <4>1, Plans, Indexes
        <4>3. Group("measure") # <<>>
          BY CoordFacts, Groups DEF Group
        <4>. QED BY <4>1, <4>2, <4>3
      <3>2. at > Index("measure")
        <4>1. Plan[at] = "lat"
          BY <2>3 DEF Round
        <4>2. at = IF Qual THEN 7 ELSE 6
          BY <4>1, CoordFacts, Plans
        <4>3. Index("measure") = IF Qual THEN 6 ELSE 4
          BY Indexes
        <4>. QED BY <4>2, <4>3
      <3>3. \A i \in 1..Index("measure") - 1 : Past(i)
        BY <3>1, <3>2, CoordFacts DEF Past
      <3>4. Index("measure") <= Index("measure")
        BY <3>1
      <3>. QED BY <2>3, <3>1, <3>3, <3>4, RetryEnds
    <2>. QED BY <2>1, <2>2, <2>3, AdvanceEnds, FinishEnds
  <1>. QED BY <1>1, <1>2

\* The round goes on: its request has been broadcast, or a reply has been read.
NextAgent ==
  /\ idx' = idx + 1 /\ idx' \in 1..Len(Group(Round)) /\ allOpen' \in BOOLEAN
  /\ UNCHANGED <<at, polls, tries, step, result, clean, reset>>

LEMMA CoordTypesStep ==
  ASSUME Types, exp' = exp, reqNo' \in Nat, measureNo' \in 0..reqNo',
         timeouts' \in 0..MaxTimeouts, got' \in [Agents -> Answer],
         RoundEnds \/ NextAgent
  PROVE  CoordTypes' /\ reset' \in SUBSET Agents
  <1>1. CASE RoundEnds
    <2>1. /\ at' \in 1..Len(Plan) /\ Group(Plan[at']) # <<>>
          /\ idx' \in 0..Len(Group(Plan[at'])) /\ result' \in {"running", "ok", "err"}
      <3>1. CASE UNCHANGED <<at, idx>> /\ result' \in {"ok", "err"}
        BY <3>1, CoordFacts DEF Round
      <3>2. ASSUME NEW n \in 1..Len(Plan), at' = n, idx' = 0, result' = "running",
                   Group(Plan[n]) # <<>>
            PROVE  <2>1!1
        <4>1. Plan[n] \in Rounds
          BY Plans
        <4>2. Group(Plan[n]) \in Seq(Agents)
          BY <4>1, CoordFacts, Groups
        <4>3. 0 \in 0..Len(Group(Plan[n]))
          BY <4>2
        <4>. QED BY <3>2, <4>3
      <3>. QED BY <1>1, <3>1, <3>2 DEF RoundEnds
    <2>2. clean' \in BOOLEAN
      BY <1>1, CoordFacts DEF RoundEnds
    <2>. QED BY <1>1, <2>1, <2>2, CoordFacts, SamePlan DEF RoundEnds, CoordTypes
  <1>2. CASE NextAgent
    <2>1. Group(Plan[at']) = Group(Round) /\ idx' \in 0..Len(Group(Round))
      BY <1>2, CoordFacts DEF NextAgent, Round
    <2>. QED BY <1>2, <2>1, CoordFacts, SamePlan DEF NextAgent, CoordTypes
  <1>. QED BY <1>1, <1>2

LEMMA LoadSentStep ==
  ASSUME Types, LoadSent, exp' = exp, RoundEnds \/ NextAgent, result = "running",
         \A a \in Agents : Sent(a) => Sent(a)',
         NextAgent /\ idx = 0 /\ Request(Round) = "START_LOAD" =>
           \A a \in ToSet(Group(Round)) : Sent(a)'
  PROVE  LoadSent'
  <1>. DEFINE G(i) == IF i = 2 THEN Main ELSE Lt
  <1>1. \A i \in {2, 3} : ToSet(G(i)) \subseteq Agents
    <2>1. Main \in Seq(Agents) /\ Lt \in Seq(Agents)
      BY CoordFacts, Groups, Parameters
    <2>. QED BY <2>1 DEF ToSet
  <1>2. \A i \in {2, 3} : i \in 1..Len(Plan) /\ Group(Plan[i]) = G(i)
                          /\ Request(Plan[i]) = "START_LOAD"
    BY Plans DEF Group, Request
  <1>3. ASSUME NEW i \in {2, 3}, result' = "running", Past(i)', NEW a \in ToSet(G(i))
        PROVE  Sent(a)'
    <2>1. Past(i) => Sent(a)'
      BY <1>1, <1>3 DEF LoadSent
    <2>2. CASE RoundEnds
      <3>1. PICK n \in 1..Len(Plan) : /\ at' = n /\ idx' = 0
                                      /\ \A j \in 1..n - 1 : Past(j) \/ Group(Plan[j]) = <<>>
        BY <1>3, <2>2 DEF RoundEnds
      <3>2. i \in 1..n - 1
        BY <1>3, <3>1 DEF Past
      <3>3. G(i) # <<>>
        BY <1>3 DEF ToSet
      <3>. QED BY <1>2, <2>1, <3>1, <3>2, <3>3
    <2>3. CASE NextAgent
      <3>1. i < at \/ i = at
        BY <1>3, <2>3 DEF Past, NextAgent
      <3>2. CASE i < at \/ idx > 0
        BY <2>1, <3>1, <3>2 DEF Past
      <3>3. CASE i = at /\ idx = 0
        BY <1>2, <1>3, <2>3, <3>3 DEF Round
      <3>. QED BY <3>1, <3>2, <3>3, CoordFacts
    <2>. QED BY <2>2, <2>3
  <1>4. Main' = Main /\ Lt' = Lt
    BY SamePlan
  <1>. QED BY <1>3, <1>4 DEF LoadSent

-----------------------------------------------------------------------------
(* The steps of the coordinator.                                           *)

LEMMA AgentFacts ==
  ASSUME Types, NEW a \in Agents
  PROVE  /\ inbox[a] \in Seq(Message) /\ cur[a] \in Message /\ stream[a] \in Seq(Answer)
         /\ \A i \in 1..Len(stream[a]) : stream[a][i].left > 0
         /\ mgr[a] \in States /\ alive[a] \in BOOLEAN /\ connOpen[a] \in BOOLEAN
         /\ loading[a] \in BOOLEAN /\ measuring[a] \in BOOLEAN
         /\ mEpoch[a] \in Nat /\ samples[a] \in Nat /\ EpochInv(a)
         /\ Len(inbox[a]) \in Nat /\ Len(stream[a]) \in Nat
  BY DEF Types, AgentTypes

\* The message of a broadcast round.
Msg == [req |-> reqNo + 1, kind |-> Request(Round), load |-> LoadOf(Round)]

\* The agents the first k writes of a broadcast reach.
Reached(k) == {a \in ToSet(SubSeq(Group(Round), 1, k)) : mgr[a] \notin Gone}

LEMMA BroadcastStep ==
  ASSUME Types, Broadcast
  PROVE  /\ UNCHANGED <<exp, timeouts, got, stream, mgr, cur, agentVars>>
         /\ result = "running" /\ idx = 0
         /\ reqNo' = reqNo + 1
         /\ measureNo' = IF Request(Round) = "START_MEASURE" THEN reqNo + 1 ELSE measureNo
         /\ Msg \in Message /\ Msg.req = reqNo + 1 /\ Msg.kind = Request(Round)
         /\ inbox' \in [Agents -> Seq(Message)]
         /\ \A a \in Agents : inbox'[a] = inbox[a] \/ inbox'[a] = Append(inbox[a], Msg)
         /\ \A a \in Agents : inbox'[a] # inbox[a] => a \in ToSet(Group(Round))
         /\ \/ /\ NextAgent
               /\ \A a \in ToSet(Group(Round)) :
                    mgr[a] \in Gone \/ inbox'[a] = Append(inbox[a], Msg)
            \/ RoundEnds /\ ~clean'
  <1>. DEFINE grp == Group(Round)
  <1>1. PICK k \in 0..Len(grp) :
          /\ inbox' = [a \in Agents |-> IF a \in Reached(k) THEN Append(inbox[a], Msg)
                                        ELSE inbox[a]]
          /\ reqNo' = reqNo + 1
          /\ measureNo' = IF Request(Round) = "START_MEASURE" THEN reqNo + 1 ELSE measureNo
          /\ UNCHANGED <<exp, timeouts, got, stream, mgr, cur, agentVars>>
          /\ IF k = Len(grp)
             THEN /\ idx' = 1
                  /\ UNCHANGED <<at, allOpen, polls, tries, step, result, clean, reset>>
             ELSE Finish(FALSE)
    <2>1. \A k : \A a : a \in Reached(k) <=> a \in ToSet(SubSeq(grp, 1, k)) /\ mgr[a] \notin Gone
      BY DEF Reached
    <2>. QED BY <2>1 DEF Broadcast, Msg
  <1>2. result = "running" /\ idx = 0
    BY DEF Broadcast
  <1>3. Msg \in Message /\ Msg.req = reqNo + 1 /\ Msg.kind = Request(Round)
    <2>1. Request(Round) \in Requests /\ LoadOf(Round) \in {0, 1} /\ reqNo + 1 \in Nat
      <3>1. Round \in Rounds /\ exp \in Experiments /\ reqNo + 1 \in Nat
        BY CoordFacts
      <3>2. Request(Round) \in Requests
        BY <3>1 DEF Requests
      <3>3. LoadOf(Round) \in {0, 1}
        BY <3>1, Parameters DEF LoadOf
      <3>. QED BY <3>1, <3>2, <3>3
    <2>. QED BY <2>1 DEF Msg, Message
  <1>4. grp \in Seq(Agents) /\ grp # <<>> /\ Len(grp) \in Nat /\ Len(grp) > 0
    BY CoordFacts
  <1>5. ASSUME NEW a \in Reached(k) PROVE a \in ToSet(grp)
    <2>1. PICK i \in DOMAIN SubSeq(grp, 1, k) : SubSeq(grp, 1, k)[i] = a
      BY DEF Reached, ToSet
    <2>2. i \in 1..Len(grp) /\ grp[i] = a
      BY <1>4, <2>1
    <2>. QED BY <1>4, <2>2 DEF ToSet
  <1>6. /\ inbox' \in [Agents -> Seq(Message)]
        /\ \A a \in Agents : inbox'[a] = IF a \in Reached(k) THEN Append(inbox[a], Msg)
                                         ELSE inbox[a]
    <2>1. \A a \in Agents : inbox[a] \in Seq(Message) /\ Append(inbox[a], Msg) \in Seq(Message)
      BY <1>3, AgentFacts
    <2>. HIDE DEF Msg
    <2>. QED BY <1>1, <2>1
  <1>7. CASE k = Len(grp)
    <2>1. NextAgent
      BY <1>1, <1>2, <1>4, <1>7, CoordFacts DEF NextAgent
    <2>2. ToSet(SubSeq(grp, 1, k)) = ToSet(grp)
      <3>. DEFINE written == SubSeq(grp, 1, k)
      <3>1. /\ DOMAIN written = 1..Len(grp) /\ DOMAIN grp = 1..Len(grp)
            /\ \A i \in 1..Len(grp) : written[i] = grp[i]
        BY <1>4, <1>7
      <3>. HIDE DEF written
      <3>2. ToSet(written) = ToSet(grp)
        BY <3>1 DEF ToSet
      <3>. QED BY <3>2 DEF written
    <2>3. ToSet(grp) \subseteq Agents
      BY <1>4 DEF ToSet
    <2>4. \A a \in ToSet(grp) : mgr[a] \in Gone \/ inbox'[a] = Append(inbox[a], Msg)
      BY <1>6, <2>2, <2>3 DEF Reached
    <2>. QED BY <1>1, <1>2, <1>3, <1>5, <1>6, <2>1, <2>4
  <1>8. CASE k # Len(grp)
    <2>1. Finish(FALSE)
      BY <1>1, <1>8
    <2>2. RoundEnds /\ ~clean'
      BY <1>2, <2>1, FinishEnds DEF Finish
    <2>. QED BY <1>1, <1>2, <1>3, <1>5, <1>6, <2>2
  <1>. QED BY <1>7, <1>8

LEMMA ReadReplyStep ==
  ASSUME Types, ReadReply
  PROVE  LET a == Group(Round)[idx]
         IN  /\ UNCHANGED <<exp, reqNo, measureNo, timeouts, inbox, mgr, cur, agentVars>>
             /\ result = "running" /\ idx \in 1..Len(Group(Round)) /\ a \in Agents
             /\ stream[a] # <<>>
             /\ stream' = [stream EXCEPT ![a] = AfterRead(@, ReadSize(Round))]
             /\ \/ RoundEnds /\ ~clean' /\ got' = got
                \/ /\ got' = [got EXCEPT ![a] = stream[a][1]]
                   /\ \/ NextAgent
                      \/ idx = Len(Group(Round)) /\ RoundEnds
  <1>. DEFINE grp == Group(Round)
              a == grp[idx]
              m == Head(stream[a])
  <1>1. /\ UNCHANGED <<exp, reqNo, measureNo, timeouts, inbox, mgr, cur, agentVars>>
        /\ result = "running" /\ idx > 0 /\ stream[a] # <<>>
        /\ stream' = [stream EXCEPT ![a] = AfterRead(@, ReadSize(Round))]
    BY DEF ReadReply
  <1>2. idx \in 1..Len(grp) /\ a \in Agents
    BY <1>1, CoordFacts
  <1>3. m = stream[a][1]
    BY <1>1, <1>2, AgentFacts
  <1>a. PICK info \in Infos(m) :
          LET open == allOpen /\ info # 0
          IN  IF ~Accepts(Round, info)
              THEN Finish(FALSE) /\ UNCHANGED got
              ELSE /\ got' = [got EXCEPT ![a] = m]
                   /\ IF idx < Len(grp)
                      THEN /\ idx' = idx + 1 /\ allOpen' = open
                           /\ UNCHANGED <<at, polls, tries, step, result, clean, reset>>
                      ELSE RoundDone(open)
    BY DEF ReadReply
  <1>4. CASE ~Accepts(Round, info)
    <2>1. Finish(FALSE) /\ got' = got
      BY <1>4, <1>a
    <2>2. RoundEnds /\ ~clean'
      BY <1>1, <2>1, FinishEnds DEF Finish
    <2>. QED BY <1>1, <1>2, <2>1, <2>2
  <1>5. CASE Accepts(Round, info)
    <2>. DEFINE open == allOpen /\ info # 0
    <2>1. /\ got' = [got EXCEPT ![a] = m]
          /\ IF idx < Len(grp)
             THEN /\ idx' = idx + 1 /\ allOpen' = open
                  /\ UNCHANGED <<at, polls, tries, step, result, clean, reset>>
             ELSE RoundDone(open)
      BY <1>5, <1>a
    <2>2. CASE idx < Len(grp)
      <3>1. NextAgent
        BY <1>2, <2>1, <2>2, CoordFacts DEF NextAgent
      <3>. QED BY <1>1, <1>2, <1>3, <2>1, <3>1
    <2>3. CASE ~(idx < Len(grp))
      <3>1. RoundEnds
        BY <1>1, <2>1, <2>3, RoundDoneEnds
      <3>2. idx = Len(grp)
        BY <1>2, <2>3, CoordFacts
      <3>. QED BY <1>1, <1>2, <1>3, <2>1, <3>1, <3>2
    <2>. QED BY <2>2, <2>3
  <1>. QED BY <1>4, <1>5

LEMMA ReadFailsStep ==
  ASSUME Types, ReadFails
  PROVE  /\ UNCHANGED <<exp, reqNo, measureNo, got, inbox, stream, mgr, cur, agentVars>>
         /\ result = "running" /\ timeouts' \in 0..MaxTimeouts /\ RoundEnds /\ ~clean'
  <1>1. /\ UNCHANGED <<exp, reqNo, measureNo, got, inbox, stream, mgr, cur, agentVars>>
        /\ result = "running" /\ Finish(FALSE)
        /\ \/ UNCHANGED timeouts
           \/ timeouts < MaxTimeouts /\ timeouts' = timeouts + 1
    BY DEF ReadFails, ReadError
  <1>2. timeouts' \in 0..MaxTimeouts
    BY <1>1, CoordFacts, CoordinationAssumption
  <1>. QED BY <1>1, <1>2, FinishEnds DEF Finish

LEMMA BroadcastTypes ==
  ASSUME Types, Broadcast
  PROVE  Types'
  <1>1. /\ reqNo' \in Nat /\ measureNo' \in 0..reqNo' /\ measureNo <= measureNo'
        /\ measureNo \in Nat /\ measureNo' \in Nat
    <2>1. /\ reqNo \in Nat /\ measureNo \in 0..reqNo /\ reqNo' = reqNo + 1
          /\ measureNo' = IF Request(Round) = "START_MEASURE" THEN reqNo + 1 ELSE measureNo
      BY BroadcastStep, CoordFacts
    <2>2. measureNo' = reqNo + 1 \/ measureNo' = measureNo
      BY <2>1
    <2>. QED BY <2>1, <2>2
  <1>2. CoordTypes' /\ reset' \in SUBSET Agents
    BY <1>1, BroadcastStep, CoordTypesStep, CoordFacts
  <1>3. AgentTypes'
    BY <1>2, BroadcastStep DEF Types, AgentTypes, agentVars
  <1>4. ASSUME NEW a \in Agents PROVE EpochInv(a)'
    <2>1. UNCHANGED <<mEpoch, samples, cur>> /\ EpochInv(a) /\ inbox[a] \in Seq(Message)
          /\ mEpoch[a] \in Nat /\ cur[a] \in Message
      BY BroadcastStep, AgentFacts DEF agentVars
    <2>2. ASSUME NEW i \in 1..Len(inbox'[a]), inbox'[a][i].kind = "START_MEASURE"
          PROVE  inbox'[a][i].req <= measureNo'
      <3>1. CASE inbox'[a] = inbox[a]
        <4>1. inbox[a][i].req <= measureNo /\ inbox[a][i].req \in Nat
          <5>1. inbox[a][i] \in Message /\ i \in 1..Len(inbox[a])
            BY <2>1, <3>1
          <5>2. inbox[a][i].req \in Nat
            BY <5>1 DEF Message
          <5>. QED BY <2>1, <2>2, <3>1, <5>1, <5>2 DEF EpochInv
        <4>. QED BY <1>1, <3>1, <4>1
      <3>2. CASE inbox'[a] = Append(inbox[a], Msg)
        <4>1. CASE i = Len(inbox[a]) + 1
          <5>1. inbox'[a][i] = Msg
            BY <2>1, <3>2, <4>1
          <5>2. /\ Msg.req = reqNo + 1 /\ Msg.kind = Request(Round) /\ reqNo \in Nat
                /\ measureNo' = IF Request(Round) = "START_MEASURE" THEN reqNo + 1 ELSE measureNo
            BY BroadcastStep, CoordFacts
          <5>3. Request(Round) = "START_MEASURE" /\ measureNo' = reqNo + 1
            BY <2>2, <5>1, <5>2
          <5>. QED BY <5>1, <5>2, <5>3
        <4>2. CASE i # Len(inbox[a]) + 1
          <5>1. i \in 1..Len(inbox[a]) /\ inbox'[a][i] = inbox[a][i]
            BY <2>1, <3>2, <4>2
          <5>2. inbox[a][i].req <= measureNo /\ inbox[a][i].req \in Nat
            <6>1. inbox[a][i] \in Message
              BY <2>1, <5>1
            <6>2. inbox[a][i].req \in Nat
              BY <6>1 DEF Message
            <6>. QED BY <2>1, <2>2, <5>1, <6>2 DEF EpochInv
          <5>. QED BY <1>1, <5>1, <5>2
        <4>. QED BY <4>1, <4>2
      <3>. QED BY <3>1, <3>2, BroadcastStep
    <2>3. mEpoch[a] <= measureNo' /\ (cur[a].kind = "START_MEASURE" => cur[a].req <= measureNo')
      <3>1. cur[a].req \in Nat
        BY <2>1 DEF Message
      <3>2. /\ mEpoch[a] <= measureNo /\ mEpoch'[a] = mEpoch[a] /\ cur'[a] = cur[a]
            /\ (cur[a].kind = "START_MEASURE" => cur[a].req <= measureNo)
        BY <2>1 DEF EpochInv
      <3>. QED BY <1>1, <2>1, <3>1, <3>2
    <2>. QED BY <2>1, <2>2, <2>3 DEF EpochInv
  <1>. QED BY <1>2, <1>3, <1>4 DEF Types

LEMMA ReadReplyTypes ==
  ASSUME Types, ReadReply
  PROVE  Types'
  <1>. DEFINE a == Group(Round)[idx]
  <1>1. /\ UNCHANGED <<exp, reqNo, measureNo, timeouts, inbox, mgr, cur, agentVars>>
        /\ a \in Agents /\ stream[a] # <<>>
        /\ stream' = [stream EXCEPT ![a] = AfterRead(@, ReadSize(Round))]
        /\ RoundEnds \/ NextAgent
        /\ got' = got \/ got' = [got EXCEPT ![a] = stream[a][1]]
    BY ReadReplyStep
  <1>2. stream[a] \in Seq(Answer) /\ \A i \in 1..Len(stream[a]) : stream[a][i].left > 0
    BY <1>1, AgentFacts
  <1>3. got' \in [Agents -> Answer]
    <2>1. stream[a][1] \in Answer
      BY <1>1, <1>2
    <2>. QED BY <1>1, <2>1, CoordFacts
  <1>4. ReadSize(Round) \in Nat
    BY DEF ReadSize
  <1>5. /\ AfterRead(stream[a], ReadSize(Round)) \in Seq(Answer)
        /\ \A i \in 1..Len(AfterRead(stream[a], ReadSize(Round))) :
             AfterRead(stream[a], ReadSize(Round))[i].left > 0
    BY <1>2, <1>4, AfterReadAnswers
  <1>6. /\ stream' \in [Agents -> Seq(Answer)]
        /\ \A b \in Agents : \A i \in 1..Len(stream'[b]) : stream'[b][i].left > 0
    BY <1>1, <1>5 DEF Types, AgentTypes
  <1>7. CoordTypes' /\ reset' \in SUBSET Agents
    BY <1>1, <1>3, CoordTypesStep, CoordFacts
  <1>8. AgentTypes'
    BY <1>1, <1>6, <1>7 DEF Types, AgentTypes, agentVars
  <1>9. \A b \in Agents : EpochInv(b)'
    BY <1>1 DEF Types, EpochInv, agentVars
  <1>. QED BY <1>7, <1>8, <1>9 DEF Types

LEMMA ReadFailsTypes ==
  ASSUME Types, ReadFails
  PROVE  Types'
  <1>1. CoordTypes' /\ reset' \in SUBSET Agents
    BY ReadFailsStep, CoordTypesStep, CoordFacts
  <1>2. AgentTypes'
    BY <1>1, ReadFailsStep DEF Types, AgentTypes, agentVars
  <1>3. \A b \in Agents : EpochInv(b)'
    BY ReadFailsStep DEF Types, EpochInv, agentVars
  <1>. QED BY <1>1, <1>2, <1>3 DEF Types

\* START_LOAD is written to an agent before START_MEASURE.
LEMMA BroadcastLoad ==
  ASSUME Types, LoadInv, Broadcast
  PROVE  LoadInv'
  <1>1. UNCHANGED <<mgr, cur, loading, measuring, mEpoch>>
    BY BroadcastStep DEF agentVars
  <1>2. Msg.kind = Request(Round) /\ result = "running" /\ exp' = exp
    BY BroadcastStep
  <1>3. \A a \in Agents : Told(a)' = Told(a)
    BY <1>1 DEF Told
  <1>4. ASSUME NEW a \in Agents
        PROVE  /\ Sent(a) => Sent(a)'
               /\ inbox'[a] = Append(inbox[a], Msg) /\ Msg.kind = "START_LOAD" => Sent(a)'
    <2>1. inbox[a] \in Seq(Message)
      BY AgentFacts
    <2>2. CASE inbox'[a] = inbox[a]
      <3>1. Sent(a) => Sent(a)'
        BY <1>3, <2>2 DEF Sent
      <3>2. inbox'[a] # Append(inbox[a], Msg)
        BY <2>1, <2>2
      <3>. QED BY <3>1, <3>2
    <2>3. CASE inbox'[a] = Append(inbox[a], Msg)
      <3>1. /\ \A j \in 1..Len(inbox[a]) : j \in 1..Len(inbox'[a]) /\ inbox'[a][j] = inbox[a][j]
            /\ Len(inbox[a]) + 1 \in 1..Len(inbox'[a]) /\ inbox'[a][Len(inbox[a]) + 1] = Msg
        BY <2>1, <2>3
      <3>. QED BY <1>3, <3>1 DEF Sent
    <2>. QED BY <2>2, <2>3, BroadcastStep
  <1>5. LoadSent'
    <2>1. ASSUME NextAgent, Request(Round) = "START_LOAD", NEW a \in ToSet(Group(Round))
          PROVE  Sent(a)'
      <3>1. a \in Agents
        BY CoordFacts DEF ToSet
      <3>2. ~RoundEnds
        BY <2>1, BroadcastStep, CoordFacts DEF RoundEnds, NextAgent
      <3>3. mgr[a] \in Gone \/ inbox'[a] = Append(inbox[a], Msg)
        BY <2>1, <3>2, BroadcastStep
      <3>4. mgr[a] \in Gone => Sent(a)
        BY DEF Sent, Told
      <3>. QED BY <1>2, <1>4, <2>1, <3>1, <3>3, <3>4
    <2>2. RoundEnds \/ NextAgent
      BY BroadcastStep
    <2>. QED BY <1>2, <1>4, <2>1, <2>2, LoadSentStep DEF LoadInv
  <1>6. ASSUME NEW a \in Agents PROVE QueueInv(a)'
    <2>1. inbox[a] \in Seq(Message) /\ QueueInv(a)
      BY AgentFacts DEF LoadInv
    <2>2. ASSUME NEW i \in 1..Len(inbox'[a]), inbox'[a][i].kind = "START_MEASURE", ~Told(a)
          PROVE  \E j \in 1..i - 1 : inbox'[a][j].kind = "START_LOAD"
      <3>1. CASE inbox'[a] = inbox[a]
        BY <2>1, <2>2, <3>1 DEF QueueInv
      <3>2. CASE inbox'[a] # inbox[a] /\ i # Len(inbox[a]) + 1
        <4>1. inbox'[a] = Append(inbox[a], Msg)
          BY <3>2, BroadcastStep
        <4>2. i \in 1..Len(inbox[a]) /\ \A j \in 1..i : inbox'[a][j] = inbox[a][j]
          BY <2>1, <3>2, <4>1
        <4>3. \E j \in 1..i - 1 : inbox[a][j].kind = "START_LOAD"
          BY <2>1, <2>2, <4>2 DEF QueueInv
        <4>4. \A j \in 1..i - 1 : j \in 1..i
          BY <4>2
        <4>. QED BY <4>2, <4>3, <4>4
      <3>3. CASE inbox'[a] # inbox[a] /\ i = Len(inbox[a]) + 1
        <4>1. inbox'[a] = Append(inbox[a], Msg) /\ a \in ToSet(Group(Round))
          BY <3>3, BroadcastStep
        <4>2. Request(Round) = "START_MEASURE"
          <5>1. inbox'[a][i] = Msg
            BY <2>1, <3>3, <4>1
          <5>. QED BY <1>2, <2>2, <5>1
        <4>3. at > 3
          <5>1. Round \notin {"conn", "mainLoad", "latLoad"}
            BY <4>2 DEF Request
          <5>. QED BY <5>1, CoordFacts, Plans DEF Round
        <4>4. Sent(a)
          <5>1. a \in ToSet(Main) \/ a \in ToSet(Lt)
            BY <4>1, CoordFacts, Groups
          <5>2. Past(2) /\ Past(3)
            BY <4>3, CoordFacts DEF Past
          <5>. QED BY <1>2, <5>1, <5>2 DEF LoadInv, LoadSent
        <4>5. PICK j \in 1..Len(inbox[a]) : inbox[a][j].kind = "START_LOAD"
          BY <2>2, <4>4 DEF Sent
        <4>6. j \in 1..i - 1 /\ inbox'[a][j] = inbox[a][j]
          BY <2>1, <3>3, <4>1
        <4>. QED BY <4>5, <4>6
      <3>. QED BY <3>1, <3>2, <3>3
    <2>. QED BY <1>1, <1>3, <2>1, <2>2 DEF QueueInv
  <1>. QED BY <1>5, <1>6 DEF LoadInv

\* A step that leaves the agents and their requests alone.
LEMMA ReadLoad ==
  ASSUME Types, LoadInv, UNCHANGED <<exp, inbox, mgr, cur, agentVars>>, result = "running",
         RoundEnds \/ (NextAgent /\ idx > 0)
  PROVE  LoadInv'
  <1>1. UNCHANGED <<inbox, mgr, cur, loading, measuring, mEpoch>>
    BY DEF agentVars
  <1>2. \A a \in Agents : Sent(a)' = Sent(a) /\ QueueInv(a)' = QueueInv(a)
    BY <1>1 DEF Sent, Told, QueueInv
  <1>3. idx \in Nat
    BY CoordFacts
  <1>4. NextAgent /\ idx = 0 => RoundEnds
    BY <1>3
  <1>5. LoadSent'
    <2>1. CASE RoundEnds
      <3>1. ~(NextAgent /\ idx = 0)
        BY <2>1, <1>3 DEF RoundEnds, NextAgent
      <3>. QED BY <1>2, <2>1, <3>1, LoadSentStep DEF LoadInv
    <2>2. CASE NextAgent /\ idx > 0
      BY <1>2, <1>3, <2>2, LoadSentStep DEF LoadInv
    <2>. QED BY <2>1, <2>2
  <1>. QED BY <1>2, <1>5 DEF LoadInv

-----------------------------------------------------------------------------
(* The steps of a manager and its agent.                                   *)

\* The coordinator and the other agents do nothing.
OthersSame(b) ==
  /\ UNCHANGED <<coordVars, reset>>
  /\ \A a \in Agents \ {b} :
       /\ inbox'[a] = inbox[a] /\ stream'[a] = stream[a]
       /\ mgr'[a] = mgr[a] /\ cur'[a] = cur[a] /\ loading'[a] = loading[a]
       /\ measuring'[a] = measuring[a] /\ mEpoch'[a] = mEpoch[a]
       /\ samples'[a] = samples[a]

LEMMA SameCoord ==
  ASSUME UNCHANGED coordVars
  PROVE  /\ UNCHANGED <<exp, at, idx, allOpen, polls, tries, step, result, clean, reqNo,
                        measureNo, timeouts, got>>
         /\ Request(Round)' = Request(Round) /\ Group(Round)' = Group(Round)
         /\ Plan' = Plan /\ Main' = Main /\ Lt' = Lt /\ Th' = Th /\ Sym' = Sym /\ All' = All
         /\ \A a : Waiting(a)' <=> Waiting(a)
         /\ \A r, a : WasRead(Index(r), a)' <=> WasRead(Index(r), a)
  <1>1. UNCHANGED <<exp, at, idx, allOpen, polls, tries, step, result, clean, reqNo,
                    measureNo, timeouts, got>>
    BY DEF coordVars
  <1>2. /\ Plan' = Plan /\ Main' = Main /\ Lt' = Lt /\ Th' = Th /\ Sym' = Sym /\ All' = All
        /\ Round' = Round /\ Group(Round)' = Group(Round)
        /\ (\A r : Group(r)' = Group(r)) /\ (\A r : Index(r)' = Index(r))
    BY <1>1, SamePlan DEF Round
  <1>3. Request(Round)' = Request(Round)
    BY <1>2 DEF Request
  <1>4. \A a : Waiting(a)' <=> Waiting(a)
    BY <1>1, <1>2 DEF Waiting
  <1>5. \A r, a : WasRead(Index(r), a)' <=> WasRead(Index(r), a)
    BY <1>1 DEF WasRead, Index, Plan, Qual, Group, Main, All, Th, Lt, Sym
  <1>. QED BY <1>1, <1>2, <1>3, <1>4, <1>5

\* A step of b keeps the invariant if it keeps what is said of b.
LEMMA LocalInv ==
  ASSUME IInv, NEW b \in Agents, OthersSame(b), AgentTypes', EpochInv(b)', QueueInv(b)',
         Sent(b) => Sent(b)', loading[b] => loading'[b],
         clean => OneMessage(b)', clean /\ b \in ToSet(All) => Fresh(b)'
  PROVE  IInv'
  <1>1. Types /\ LoadInv /\ CleanInv
    BY DEF IInv
  <1>2. UNCHANGED coordVars /\ reset' = reset
    BY DEF OthersSame
  <1>3. UNCHANGED <<exp, at, idx, allOpen, polls, tries, step, result, clean, reqNo,
                    measureNo, timeouts, got>>
    BY <1>2, SameCoord
  <1>4. Types'
    <2>1. CoordTypes'
      BY <1>1, <1>2, <1>3, SameCoord DEF Types, CoordTypes
    <2>2. ASSUME NEW a \in Agents, a # b PROVE EpochInv(a)'
      BY <1>1, <1>3, <2>2 DEF Types, EpochInv, OthersSame
    <2>. QED BY <2>1, <2>2 DEF Types
  <1>5. \A a \in Agents : Sent(a) => Sent(a)'
    <2>1. ASSUME NEW a \in Agents, a # b PROVE Sent(a) => Sent(a)'
      BY <2>1 DEF OthersSame, Sent, Told
    <2>. QED BY <2>1
  <1>6. LoadInv'
    <2>1. Past(2)' = Past(2) /\ Past(3)' = Past(3)
      BY <1>3 DEF Past
    <2>2. ToSet(Main) \subseteq Agents /\ ToSet(Lt) \subseteq Agents
      <3>1. Main \in Seq(Agents) /\ Lt \in Seq(Agents)
        BY <1>1, CoordFacts, Groups, Parameters
      <3>. QED BY <3>1 DEF ToSet
    <2>3. LoadSent'
      BY <1>1, <1>2, <1>3, <1>5, <2>1, <2>2, SameCoord DEF LoadInv, LoadSent
    <2>4. ASSUME NEW a \in Agents, a # b PROVE QueueInv(a)'
      BY <1>1, <2>4 DEF LoadInv, QueueInv, Told, OthersSame
    <2>. QED BY <2>3, <2>4 DEF LoadInv
  <1>7. CleanInv'
    <2>1. SUFFICES ASSUME clean PROVE CleanInv'
      BY <1>3 DEF CleanInv
    <2>2. \A a \in Agents : loading[a] => loading'[a]
      BY DEF OthersSame
    <2>3. ASSUME NEW a \in Agents, a # b PROVE OneMessage(a)' /\ (a \in ToSet(All) => Fresh(a)')
      <3>1. OneMessage(a) /\ (a \in ToSet(All) => Fresh(a))
        BY <1>1, <2>1 DEF CleanInv
      <3>2. /\ inbox'[a] = inbox[a] /\ stream'[a] = stream[a] /\ mgr'[a] = mgr[a]
            /\ cur'[a] = cur[a] /\ mEpoch'[a] = mEpoch[a] /\ loading'[a] = loading[a]
        BY <2>3 DEF OthersSame
      <3>3. (Waiting(a)' <=> Waiting(a)) /\ Request(Round)' = Request(Round)
        BY <1>2, SameCoord
      <3>4. Working(a)' <=> Working(a)
        BY <3>2 DEF Working
      <3>5. OneMessage(a)'
        <4>1. Quiet(a) => Quiet(a)'
          BY <3>2, <3>4 DEF Quiet
        <4>2. Asked(a) => Asked(a)'
          BY <1>3, <3>2, <3>3, <3>4 DEF Asked
        <4>3. Computing(a) => Computing(a)'
          BY <1>3, <3>2, <3>3, <3>4 DEF Computing
        <4>4. Answered(a) => Answered(a)'
          BY <1>3, <3>2, <3>3, <3>4 DEF Answered, RightKind, FreshReport, Size
        <4>. QED BY <3>1, <3>3, <4>1, <4>2, <4>3, <4>4 DEF OneMessage
      <3>6. Fresh(a) => Fresh(a)'
        BY <1>3, <3>2 DEF Fresh, Latest
      <3>7. All' = All
        BY <1>2, SameCoord
      <3>. QED BY <3>1, <3>5, <3>6, <3>7
    <2>4. \A a \in Agents : OneMessage(a)' /\ (a \in ToSet(All) => Fresh(a)')
      BY <2>1, <2>3
    <2>5. ASSUME NEW r \in {"thr", "lat"}, NEW a \in Agents, Collected(r, a)
          PROVE  Collected(r, a)'
      BY <1>3, <2>2, <2>5 DEF Collected, FreshReport
    <2>6. ToSet(Th) \subseteq Agents /\ ToSet(Lt) \cup ToSet(Sym) \subseteq Agents
      BY <1>1, GroupSets
    <2>7. /\ result' \in {"running", "ok"}
          /\ result' = "running" =>
               \A r \in {"thr", "lat"} : \A a \in Agents :
                 WasRead(Index(r), a)' => Collected(r, a)'
      BY <1>1, <1>2, <1>3, <2>1, <2>5, SameCoord DEF CleanInv
    <2>8. result' = "ok" =>
            /\ \A a \in ToSet(Th) : Collected("thr", a)'
            /\ \A a \in ToSet(Lt) \cup ToSet(Sym) : Collected("lat", a)'
      BY <1>1, <1>3, <2>1, <2>5, <2>6 DEF CleanInv
    <2>. QED BY <1>2, <2>4, <2>7, <2>8, SameCoord DEF CleanInv
  <1>. QED BY <1>4, <1>6, <1>7 DEF IInv

\* A step of b without a message, in which the manager goes on to its next
\* state or stays in this one.
LEMMA SilentInv ==
  ASSUME IInv, NEW b \in Agents, OthersSame(b), AgentTypes', UNCHANGED <<inbox, stream, cur>>,
         samples'[b] \in {0, mEpoch'[b]},
         \/ mEpoch'[b] = mEpoch[b]
         \/ mEpoch'[b] = cur[b].req /\ cur[b].kind = "START_MEASURE",
         loading[b] => loading'[b], measuring'[b] => loading'[b],
         mEpoch'[b] # 0 => loading'[b],
         mgr'[b] = mgr[b] \/ (~Working(b) /\ mgr'[b] # "apply"),
         Told(b) => Told(b)', Fresh(b) => Fresh(b)'
  PROVE  IInv'
  <1>1. Types /\ LoadInv /\ CleanInv /\ UNCHANGED coordVars
    BY DEF IInv, OthersSame
  <1>2. /\ UNCHANGED <<result, clean, reqNo, measureNo>>
        /\ Request(Round)' = Request(Round) /\ All' = All
        /\ Waiting(b)' <=> Waiting(b)
    BY <1>1, SameCoord
  <1>3. EpochInv(b)'
    BY <1>1, <1>2, AgentFacts DEF EpochInv
  <1>4. QueueInv(b)'
    BY <1>1 DEF LoadInv, QueueInv
  <1>5. Sent(b) => Sent(b)'
    BY DEF Sent
  <1>6. clean => OneMessage(b)'
    <2>1. SUFFICES ASSUME clean PROVE OneMessage(b)'
      OBVIOUS
    <2>2. OneMessage(b)
      BY <1>1, <2>1 DEF CleanInv
    <2>3. CASE mgr'[b] = mgr[b]
      <3>1. Working(b)' <=> Working(b)
        BY <2>3 DEF Working
      <3>2. (Quiet(b) => Quiet(b)') /\ (Asked(b) => Asked(b)') /\ (Computing(b) => Computing(b)')
        BY <1>2, <3>1 DEF Quiet, Asked, Computing
      <3>3. Answered(b) => Answered(b)'
        BY <1>2, <3>1 DEF Answered, RightKind, FreshReport, Size
      <3>. QED BY <1>2, <2>2, <3>2, <3>3 DEF OneMessage
    <2>4. CASE ~Working(b) /\ mgr'[b] # "apply"
      <3>1. ~Working(b)'
        BY <2>4 DEF Working
      <3>2. (Quiet(b) => Quiet(b)') /\ (Asked(b) => Asked(b)') /\ ~Computing(b)
        BY <1>2, <2>4, <3>1 DEF Quiet, Asked, Computing
      <3>3. Answered(b) => Answered(b)'
        BY <1>2, <3>1 DEF Answered, RightKind, FreshReport, Size
      <3>. QED BY <1>2, <2>2, <3>2, <3>3 DEF OneMessage
    <2>. QED BY <2>3, <2>4
  <1>7. clean /\ b \in ToSet(All) => Fresh(b)'
    BY <1>1 DEF CleanInv
  <1>. QED BY <1>3, <1>4, <1>5, <1>6, <1>7, LocalInv

\* The facts a step of b starts from.
LEMMA Before ==
  ASSUME IInv, NEW b \in Agents
  PROVE  /\ Types /\ AgentTypes /\ QueueInv(b) /\ EpochInv(b)
         /\ mgr[b] \in States /\ loading[b] \in BOOLEAN /\ measuring[b] \in BOOLEAN
         /\ mEpoch[b] \in Nat /\ samples[b] \in {0, mEpoch[b]}
         /\ cur[b] \in Message /\ cur[b].req \in Nat /\ cur[b].load \in {0, 1}
         /\ inbox[b] \in Seq(Message) /\ stream[b] \in Seq(Answer)
  <1>1. Types /\ AgentTypes /\ QueueInv(b) /\ EpochInv(b)
    BY DEF IInv, Types, LoadInv
  <1>2. cur[b] \in Message
    BY <1>1, AgentFacts
  <1>3. cur[b].req \in Nat /\ cur[b].load \in {0, 1}
    BY <1>2 DEF Message
  <1>. QED BY <1>1, <1>2, <1>3, AgentFacts DEF EpochInv

LEMMA LaunchInv ==
  ASSUME IInv, NEW b \in Agents, Launch(b) \/ LaunchFails(b)
  PROVE  IInv'
  <1>1. /\ mgr[b] = "launching" /\ UNCHANGED <<coordVars, inbox, stream, reset, cur, agentVars>>
        /\ mgr' = [mgr EXCEPT ![b] = "idle"] \/ mgr' = [mgr EXCEPT ![b] = "crashed"]
    BY DEF Launch, LaunchFails
  <1>2. UNCHANGED <<alive, connOpen, loading, measuring, mEpoch, samples>>
    BY <1>1 DEF agentVars
  <1>3. mgr' \in [Agents -> States] /\ mgr'[b] \in {"idle", "crashed"}
        /\ \A a \in Agents \ {b} : mgr'[a] = mgr[a]
    BY <1>1, Before DEF AgentTypes, States
  <1>4. AgentTypes'
    BY <1>1, <1>2, <1>3, Before DEF AgentTypes
  <1>5. OthersSame(b)
    BY <1>1, <1>2, <1>3 DEF OthersSame
  <1>6. Told(b) => Told(b)'
    BY <1>1, <1>2 DEF Told, Gone
  <1>7. Fresh(b) => Fresh(b)'
    BY <1>1, <1>2, <1>3 DEF Fresh, Latest, Gone, coordVars
  <1>8. ~Working(b)
    BY <1>1 DEF Working
  <1>. QED BY <1>1, <1>2, <1>3, <1>4, <1>5, <1>6, <1>7, <1>8, Before, SilentInv DEF QueueInv

LEMMA StartLoadInv ==
  ASSUME IInv, NEW b \in Agents, StartLoad(b)
  PROVE  IInv'
  <1>1. /\ mgr[b] = "apply" /\ cur[b].kind = "START_LOAD"
        /\ UNCHANGED <<coordVars, inbox, stream, reset, cur, alive, connOpen, mEpoch, samples>>
        /\ measuring' = [measuring EXCEPT ![b] = FALSE]
        /\ \/ mgr' = [mgr EXCEPT ![b] = "crashed"] /\ UNCHANGED loading
           \/ mgr' = [mgr EXCEPT ![b] = "idle"] /\ loading' = [loading EXCEPT ![b] = TRUE]
    BY DEF StartLoad
  <1>2. /\ mgr' \in [Agents -> States] /\ mgr'[b] \in {"idle", "crashed"}
        /\ \A a \in Agents \ {b} : mgr'[a] = mgr[a]
    BY <1>1, Before DEF AgentTypes, States
  <1>3. /\ loading' \in [Agents -> BOOLEAN] /\ measuring' \in [Agents -> BOOLEAN]
        /\ measuring'[b] = FALSE /\ (loading[b] => loading'[b])
        /\ mgr'[b] = "idle" => loading'[b]
        /\ \A a \in Agents \ {b} : loading'[a] = loading[a] /\ measuring'[a] = measuring[a]
    <2>1. /\ loading \in [Agents -> BOOLEAN] /\ measuring \in [Agents -> BOOLEAN]
          /\ mgr \in [Agents -> States]
      BY Before DEF AgentTypes, States
    <2>2. /\ measuring' \in [Agents -> BOOLEAN] /\ measuring'[b] = FALSE
          /\ \A a \in Agents \ {b} : measuring'[a] = measuring[a]
      BY <1>1, <2>1
    <2>3. /\ loading' \in [Agents -> BOOLEAN] /\ (loading[b] => loading'[b])
          /\ \A a \in Agents \ {b} : loading'[a] = loading[a]
      BY <1>1, <2>1
    <2>4. mgr'[b] = "idle" => loading'[b]
      <3>1. CASE mgr' = [mgr EXCEPT ![b] = "crashed"]
        BY <2>1, <3>1
      <3>2. CASE loading' = [loading EXCEPT ![b] = TRUE]
        BY <2>1, <3>2
      <3>. QED BY <1>1, <3>1, <3>2
    <2>. QED BY <2>2, <2>3, <2>4
  <1>4. AgentTypes'
    BY <1>1, <1>2, <1>3, Before DEF AgentTypes
  <1>5. OthersSame(b)
    BY <1>1, <1>2, <1>3 DEF OthersSame
  <1>6. Told(b)'
    BY <1>2, <1>3 DEF Told, Gone
  <1>7. Fresh(b) => Fresh(b)'
    BY <1>1, <1>2 DEF Fresh, Latest, Gone, coordVars
  <1>8. ~Working(b)
    BY <1>1 DEF Working
  <1>9. mEpoch[b] # 0 => loading'[b]
    BY <1>3, Before DEF QueueInv
  <1>. QED BY <1>1, <1>2, <1>3, <1>4, <1>5, <1>6, <1>7, <1>8, <1>9, Before, SilentInv

LEMMA StartMeasureInv ==
  ASSUME IInv, NEW b \in Agents, StartMeasure(b)
  PROVE  IInv'
  <1>1. /\ mgr[b] = "apply" /\ cur[b].kind = "START_MEASURE"
        /\ UNCHANGED <<coordVars, inbox, stream, reset, cur, alive, connOpen, loading>>
        /\ samples' = [samples EXCEPT ![b] = 0]
        /\ measuring' = [measuring EXCEPT ![b] = TRUE]
        /\ mEpoch' = [mEpoch EXCEPT ![b] = cur[b].req]
        /\ mgr' = [mgr EXCEPT ![b] = "idle"]
    BY DEF StartMeasure, ClearStats
  <1>2. /\ mgr' \in [Agents -> States] /\ mgr'[b] = "idle"
        /\ measuring' \in [Agents -> BOOLEAN]
        /\ mEpoch' \in [Agents -> Nat] /\ mEpoch'[b] = cur[b].req
        /\ samples' \in [Agents -> Nat] /\ samples'[b] = 0
        /\ \A a \in Agents \ {b} : /\ mgr'[a] = mgr[a] /\ measuring'[a] = measuring[a]
                                   /\ mEpoch'[a] = mEpoch[a] /\ samples'[a] = samples[a]
    BY <1>1, Before DEF AgentTypes, States
  <1>3. loading[b] /\ loading'[b]
    BY <1>1, Before DEF QueueInv
  <1>4. AgentTypes'
    BY <1>1, <1>2, Before DEF AgentTypes
  <1>5. OthersSame(b)
    BY <1>1, <1>2 DEF OthersSame
  <1>6. Told(b)'
    BY <1>3 DEF Told
  <1>7. Fresh(b) => Fresh(b)'
    BY <1>1, <1>2 DEF Fresh, Latest, Gone, coordVars
  <1>8. ~Working(b)
    BY <1>1 DEF Working
  <1>. QED BY <1>1, <1>2, <1>3, <1>4, <1>5, <1>6, <1>7, <1>8, SilentInv

LEMMA CoordinatorGoneInv ==
  ASSUME IInv, NEW b \in Agents, CoordinatorGone(b)
  PROVE  IInv'
  <1>1. /\ mgr[b] = "idle"
        /\ UNCHANGED <<coordVars, inbox, stream, reset, cur, connOpen, loading, measuring,
                       mEpoch, samples>>
        /\ mgr' = [mgr EXCEPT ![b] = "crashed"] \/ mgr' = [mgr EXCEPT ![b] = "exited"]
        /\ alive' = alive \/ alive' = [alive EXCEPT ![b] = FALSE]
    BY DEF CoordinatorGone, Terminate
  <1>2. /\ mgr' \in [Agents -> States] /\ mgr'[b] \in {"exited", "crashed"}
        /\ \A a \in Agents \ {b} : mgr'[a] = mgr[a]
        /\ alive' \in [Agents -> BOOLEAN]
    BY <1>1, Before DEF AgentTypes, States
  <1>3. AgentTypes'
    BY <1>1, <1>2, Before DEF AgentTypes
  <1>4. OthersSame(b)
    BY <1>1, <1>2 DEF OthersSame
  <1>5. Told(b)' /\ Fresh(b)'
    BY <1>2 DEF Told, Fresh, Gone
  <1>6. ~Working(b)
    BY <1>1 DEF Working
  <1>. QED BY <1>1, <1>2, <1>3, <1>4, <1>5, <1>6, Before, SilentInv DEF QueueInv

LEMMA AgentInv ==
  ASSUME IInv, NEW b \in Agents, Agent(b)
  PROVE  IInv'
  <1>1. /\ UNCHANGED <<coordVars, inbox, stream, reset, mgr, cur, loading, measuring, mEpoch>>
        /\ alive' = alive \/ alive' = [alive EXCEPT ![b] = FALSE]
        /\ connOpen' = connOpen \/ connOpen' = [connOpen EXCEPT ![b] = TRUE]
        /\ samples' = samples \/ samples' = [samples EXCEPT ![b] = mEpoch[b]]
    BY DEF Agent, OpenConnections, AddSample, AgentDies
  <1>2. /\ alive' \in [Agents -> BOOLEAN] /\ connOpen' \in [Agents -> BOOLEAN]
        /\ samples' \in [Agents -> Nat] /\ samples'[b] \in {0, mEpoch[b]}
        /\ \A a \in Agents \ {b} : samples'[a] = samples[a]
    BY <1>1, Before DEF AgentTypes
  <1>3. AgentTypes'
    BY <1>1, <1>2, Before DEF AgentTypes
  <1>4. OthersSame(b)
    BY <1>1, <1>2 DEF OthersSame
  <1>5. (Told(b) => Told(b)') /\ (Fresh(b) => Fresh(b)')
    BY <1>1 DEF Told, Fresh, Latest, coordVars
  <1>. QED BY <1>1, <1>2, <1>3, <1>4, <1>5, Before, SilentInv DEF QueueInv

LEMMA SendStep ==
  ASSUME Types, NEW b \in Agents, NEW m \in Answer, m.left > 0,
         NEW next \in {"apply", "idle"}, Send(b, m, next)
  PROVE  /\ stream' \in [Agents -> Seq(Answer)] /\ mgr' \in [Agents -> States]
         /\ \A a \in Agents : \A i \in 1..Len(stream'[a]) : stream'[a][i].left > 0
         /\ \A a \in Agents \ {b} : stream'[a] = stream[a] /\ mgr'[a] = mgr[a]
         /\ mgr'[b] \in {next, "crashed"}
         /\ \/ result = "running" /\ stream'[b] = Append(stream[b], m) /\ mgr'[b] = next
            \/ result # "running" /\ stream'[b] = stream[b]
  <1>1. AgentTypes /\ stream[b] \in Seq(Answer)
    BY AgentFacts DEF Types
  <1>2. next \in States /\ "crashed" \in States
    BY DEF States
  <1>3. CASE result = "running"
    <2>1. /\ stream' = [stream EXCEPT ![b] = Append(stream[b], m)]
          /\ mgr' = [mgr EXCEPT ![b] = next]
      BY <1>3 DEF Send
    <2>2. /\ Append(stream[b], m) \in Seq(Answer)
          /\ \A i \in 1..Len(Append(stream[b], m)) : Append(stream[b], m)[i].left > 0
      <3>1. Append(stream[b], m) \in Seq(Answer) /\ Len(Append(stream[b], m)) = Len(stream[b]) + 1
            /\ Append(stream[b], m)[Len(stream[b]) + 1] = m
            /\ \A i \in 1..Len(stream[b]) : Append(stream[b], m)[i] = stream[b][i]
        BY <1>1
      <3>2. \A i \in 1..Len(stream[b]) + 1 : i \in 1..Len(stream[b]) \/ i = Len(stream[b]) + 1
        BY <1>1
      <3>. QED BY <3>1, <3>2, AgentFacts
    <2>3. /\ stream' \in [Agents -> Seq(Answer)] /\ mgr' \in [Agents -> States]
          /\ stream'[b] = Append(stream[b], m) /\ mgr'[b] = next
          /\ \A a \in Agents \ {b} : stream'[a] = stream[a] /\ mgr'[a] = mgr[a]
      BY <1>1, <1>2, <2>1, <2>2 DEF AgentTypes
    <2>. QED BY <1>1, <1>3, <2>2, <2>3 DEF AgentTypes
  <1>4. CASE result # "running"
    <2>1. /\ stream' = stream
          /\ mgr' = [mgr EXCEPT ![b] = next] \/ mgr' = [mgr EXCEPT ![b] = "crashed"]
      BY <1>4 DEF Send
    <2>. QED BY <1>1, <1>2, <1>4, <2>1 DEF AgentTypes
  <1>. QED BY <1>3, <1>4

\* A reply has the bytes of its kind.
LEMMA ReplyFacts ==
  ASSUME NEW kind \in Kinds, NEW req \in Nat, NEW epoch \in Nat
  PROVE  LET m == Reply(kind, req, epoch)
         IN  /\ m \in Answer /\ m.kind = kind /\ m.req = req /\ m.epoch = epoch
             /\ m.left = Size(kind) /\ m.left > 0 /\ m.left <= 258
             /\ kind \notin {"thr", "lat"} => m.left <= 64
  <1>1. Size(kind) \in Nat /\ Size(kind) > 0 /\ Size(kind) <= 258
        /\ (kind \notin {"thr", "lat"} => Size(kind) <= 64)
    BY DEF Size, Kinds
  <1>. QED BY <1>1 DEF Reply, Answer

Reports == {"REPORT_THROUGHPUT", "REPORT_LATENCY"}

LEMMA ReceiveStep ==
  ASSUME Types, NEW b \in Agents, Receive(b)
  PROVE  LET m == inbox[b][1]
         IN  /\ UNCHANGED <<coordVars, reset, agentVars>>
             /\ mgr[b] = "idle" /\ Len(inbox[b]) > 0 /\ m \in Message
             /\ inbox' = [inbox EXCEPT ![b] = Tail(@)] /\ cur' = [cur EXCEPT ![b] = m]
             /\ stream' \in [Agents -> Seq(Answer)] /\ mgr' \in [Agents -> States]
             /\ \A a \in Agents : \A i \in 1..Len(stream'[a]) : stream'[a][i].left > 0
             /\ \A a \in Agents \ {b} : stream'[a] = stream[a] /\ mgr'[a] = mgr[a]
             /\ mgr'[b] \in {"apply", "crashed"} \/ (m.kind = "CONN_OPEN" /\ mgr'[b] = "idle")
             /\ \/ m.kind \in Reports /\ stream'[b] = stream[b] /\ mgr'[b] = "apply"
                \/ /\ m.kind \notin Reports /\ result = "running"
                   /\ \E kind \in {"ack", "value0", "value1"} :
                        stream'[b] = Append(stream[b], Reply(kind, m.req, 0))
                \/ m.kind \notin Reports /\ result # "running" /\ stream'[b] = stream[b]
  <1>. DEFINE m == inbox[b][1]
  <1>1. /\ UNCHANGED <<coordVars, reset, agentVars>> /\ mgr[b] = "idle" /\ inbox[b] # <<>>
        /\ inbox' = [inbox EXCEPT ![b] = Tail(@)]
    BY DEF Receive
  <1>2. inbox[b] \in Seq(Message) /\ AgentTypes
    BY AgentFacts DEF Types
  <1>3. Len(inbox[b]) > 0 /\ m \in Message /\ Head(inbox[b]) = m
    BY <1>1, <1>2
  <1>4. m.kind \in Requests /\ m.req \in Nat
    BY <1>3 DEF Message
  <1>5. m.kind \in {"CONN_OPEN", "START_LOAD", "START_MEASURE"} \cup Reports
    BY <1>4 DEF Requests, Request, Rounds, Reports
  <1>6. cur' = [cur EXCEPT ![b] = m]
    BY <1>3 DEF Receive
  <1>. HIDE DEF m
  <1>7. CASE m.kind \in Reports
    <2>1. mgr' = [mgr EXCEPT ![b] = "apply"] /\ stream' = stream
      BY <1>3, <1>7 DEF Receive, Reports
    <2>2. "apply" \in States
      BY DEF States
    <2>. QED BY <1>1, <1>2, <1>3, <1>6, <1>7, <2>1, <2>2 DEF AgentTypes, m
  <1>8. CASE m.kind \in {"START_LOAD", "START_MEASURE"}
    <2>1. Send(b, Reply("ack", m.req, 0), "apply") /\ m.kind \notin Reports
      BY <1>3, <1>8 DEF Receive, Reports
    <2>2. Reply("ack", m.req, 0) \in Answer /\ Reply("ack", m.req, 0).left > 0
      BY <1>4, ReplyFacts DEF Kinds
    <2>. QED BY <1>1, <1>3, <1>6, <2>1, <2>2, SendStep DEF m
  <1>9. CASE m.kind = "CONN_OPEN"
    <2>1. PICK kind \in {"value0", "value1"} : Send(b, Reply(kind, m.req, 0), "idle")
      BY <1>3, <1>9 DEF Receive
    <2>2. Reply(kind, m.req, 0) \in Answer /\ Reply(kind, m.req, 0).left > 0
      BY <1>4, ReplyFacts DEF Kinds
    <2>3. m.kind \notin Reports
      BY <1>9 DEF Reports
    <2>. QED BY <1>1, <1>3, <1>6, <1>9, <2>1, <2>2, <2>3, SendStep DEF m
  <1>. QED BY <1>5, <1>7, <1>8, <1>9

LEMMA OneAtMost ==
  ASSUME NEW n \in Nat, n > 0, n <= 1
  PROVE  n = 1
  OBVIOUS

LEMMA ReceiveInv ==
  ASSUME IInv, NEW b \in Agents, Receive(b)
  PROVE  IInv'
  <1>. DEFINE m == inbox[b][1]
  <1>1. /\ UNCHANGED <<coordVars, reset, alive, connOpen, loading, measuring, mEpoch, samples>>
        /\ mgr[b] = "idle" /\ Len(inbox[b]) > 0 /\ m \in Message
        /\ mgr'[b] \in {"apply", "crashed"} \/ (m.kind = "CONN_OPEN" /\ mgr'[b] = "idle")
    BY Before, ReceiveStep DEF agentVars
  <1>2. AgentTypes /\ inbox[b] \in Seq(Message) /\ Len(inbox[b]) \in Nat
    BY Before
  <1>15. Len(inbox[b]) \in Nat /\ Len(inbox[b]) > 0
    BY <1>1, <1>2
  <1>3. /\ inbox' \in [Agents -> Seq(Message)] /\ inbox'[b] = Tail(inbox[b])
        /\ cur' \in [Agents -> Message] /\ cur'[b] = m
        /\ \A a \in Agents \ {b} : inbox'[a] = inbox[a] /\ cur'[a] = cur[a]
    <2>1. inbox' = [inbox EXCEPT ![b] = Tail(@)] /\ cur' = [cur EXCEPT ![b] = m]
      BY Before, ReceiveStep
    <2>2. Tail(inbox[b]) \in Seq(Message)
      BY <1>1, <1>2
    <2>. HIDE DEF m
    <2>. QED BY <1>1, <1>2, <2>1, <2>2 DEF AgentTypes
  <1>4. /\ Len(inbox'[b]) = Len(inbox[b]) - 1
        /\ \A i \in 1..Len(inbox'[b]) : i + 1 \in 1..Len(inbox[b]) /\ inbox'[b][i] = inbox[b][i + 1]
    BY <1>1, <1>2, <1>3
  <1>5. AgentTypes'
    BY <1>1, <1>2, <1>3, Before, ReceiveStep DEF AgentTypes
  <1>6. OthersSame(b)
    BY <1>1, <1>3, Before, ReceiveStep DEF OthersSame
  <1>7. EpochInv(b)'
    <2>1. measureNo' = measureNo /\ EpochInv(b) /\ 1 \in 1..Len(inbox[b])
      BY <1>1, <1>2, Before DEF coordVars
    <2>. HIDE DEF m
    <2>. QED BY <1>1, <1>3, <1>4, <2>1 DEF EpochInv, m
  <1>8. Told(b) = loading[b]
    BY <1>1, Before DEF Told, Gone
  <1>9. loading[b] => Told(b)'
    BY <1>1 DEF Told
  <1>10. m.kind = "START_LOAD" => Told(b)'
    BY <1>1, <1>3 DEF Told, Gone
  <1>11. QueueInv(b)'
    <2>1. QueueInv(b) /\ 1 \in 1..Len(inbox[b])
      BY <1>1, <1>2, Before
    <2>2. m.kind = "START_MEASURE" => loading[b]
      <3>1. ~ \E j \in 1..1 - 1 : TRUE
        OBVIOUS
      <3>. QED BY <1>8, <2>1, <3>1 DEF QueueInv
    <2>3. ASSUME NEW i \in 1..Len(inbox'[b]), inbox'[b][i].kind = "START_MEASURE"
          PROVE  Told(b)' \/ \E j \in 1..i - 1 : inbox'[b][j].kind = "START_LOAD"
      <3>1. i + 1 \in 1..Len(inbox[b]) /\ inbox[b][i + 1].kind = "START_MEASURE"
        BY <1>4, <2>3
      <3>2. CASE Told(b)
        BY <1>8, <1>9, <3>2
      <3>3. CASE ~Told(b)
        <4>1. PICK j \in 1..(i + 1) - 1 : inbox[b][j].kind = "START_LOAD"
          BY <2>1, <3>1, <3>3 DEF QueueInv
        <4>2. CASE j = 1
          BY <1>10, <4>1, <4>2
        <4>3. CASE j # 1
          <5>1. j - 1 \in 1..i - 1 /\ j - 1 \in 1..Len(inbox'[b]) /\ (j - 1) + 1 = j
            BY <4>3
          <5>2. inbox'[b][j - 1] = inbox[b][j]
            BY <1>4, <5>1
          <5>. QED BY <4>1, <5>1, <5>2
        <4>. QED BY <4>2, <4>3
      <3>. QED BY <3>2, <3>3
    <2>. HIDE DEF m
    <2>. QED BY <1>1, <1>3, <2>1, <2>2, <2>3 DEF QueueInv
  <1>12. Sent(b) => Sent(b)'
    <2>1. CASE Told(b)
      BY <1>8, <1>9, <2>1 DEF Sent
    <2>2. ASSUME NEW j \in 1..Len(inbox[b]), inbox[b][j].kind = "START_LOAD" PROVE Sent(b)'
      <3>1. CASE j = 1
        BY <1>10, <2>2, <3>1 DEF Sent
      <3>2. CASE j # 1
        <4>1. j - 1 \in 1..Len(inbox'[b]) /\ (j - 1) + 1 = j
          BY <1>2, <1>4, <3>2
        <4>2. inbox'[b][j - 1] = inbox[b][j]
          BY <1>4, <4>1
        <4>. QED BY <2>2, <4>1, <4>2 DEF Sent
      <3>. QED BY <3>1, <3>2
    <2>. QED BY <2>1, <2>2 DEF Sent
  <1>13. ASSUME clean PROVE OneMessage(b)' /\ (b \in ToSet(All) => Fresh(b)')
    <2>1. OneMessage(b) /\ (b \in ToSet(All) => Fresh(b))
      BY <1>13 DEF IInv, CleanInv
    <2>2. inbox[b] # <<>>
      BY <1>1, <1>2
    <2>3. Waiting(b) /\ Asked(b)
      BY <2>1, <2>2 DEF OneMessage, Quiet, Computing, Answered
    <2>4. /\ result = "running" /\ stream[b] = <<>> /\ Len(inbox[b]) = 1
          /\ m.req = reqNo /\ m.kind = Request(Round)
      <3>1. result = "running" /\ stream[b] = <<>> /\ Len(inbox[b]) <= 1
        BY <2>3 DEF Waiting, Asked
      <3>2. m.req = reqNo /\ m.kind = Request(Round)
        BY <2>2, <2>3 DEF Asked
      <3>4. Len(inbox[b]) = 1
        BY <1>15, <3>1, OneAtMost
      <3>. QED BY <3>1, <3>2, <3>4
    <2>5. inbox'[b] = <<>>
      BY <1>1, <1>3, <2>4, <1>2
    <2>6. /\ Waiting(b)' /\ Request(Round)' = Request(Round)
          /\ reqNo' = reqNo /\ measureNo' = measureNo
      BY <1>1, <2>3, SameCoord
    <2>. HIDE DEF m
    <2>7. Fresh(b) => Fresh(b)'
      <3>1. Latest(b) = IF m.kind = "START_MEASURE" THEN m.req ELSE mEpoch[b]
        BY <1>1, <2>2 DEF Latest, m
      <3>2. mgr'[b] = "apply" => Latest(b)' = Latest(b)
        BY <1>1, <1>3, <2>5, <3>1 DEF Latest
      <3>3. mgr'[b] = "idle" => Latest(b)' = Latest(b)
        BY <1>1, <1>3, <2>5, <3>1 DEF Latest
      <3>. QED BY <1>1, <2>6, <3>2, <3>3 DEF Fresh, Gone
    <2>8. OneMessage(b)'
      <3>1. CASE m.kind \in Reports
        <4>1. stream'[b] = <<>> /\ mgr'[b] = "apply"
          BY <2>4, <3>1, Before, ReceiveStep DEF m
        <4>2. Computing(b)'
          BY <1>3, <2>4, <2>5, <2>6, <3>1, <4>1 DEF Computing, Working, Reports
        <4>. QED BY <2>6, <4>2 DEF OneMessage
      <3>2. CASE m.kind \notin Reports
        <4>1. PICK rep : /\ stream'[b] = Append(<<>>, rep)
                         /\ rep.req = reqNo /\ rep.left = Size(rep.kind)
                         /\ rep.kind \in {"ack", "value0", "value1"}
          <5>1. PICK kind \in {"ack", "value0", "value1"} :
                  stream'[b] = Append(<<>>, Reply(kind, m.req, 0))
            BY <2>4, <3>2, Before, ReceiveStep DEF m
          <5>2. /\ Reply(kind, m.req, 0).req = m.req /\ Reply(kind, m.req, 0).kind = kind
                /\ Reply(kind, m.req, 0).left = Size(kind)
            BY DEF Reply
          <5>. QED BY <2>4, <5>1, <5>2
        <4>3. Len(stream'[b]) = 1 /\ stream'[b][1] = rep
          BY <4>1
        <4>4. ~Working(b)'
          BY <1>3, <3>2 DEF Working, Reports
        <4>5. RightKind(rep)'
          <5>1. Request(Round) # "REPORT_THROUGHPUT" /\ Request(Round) # "REPORT_LATENCY"
            BY <2>4, <3>2 DEF Reports
          <5>. QED BY <2>6, <4>1, <5>1 DEF RightKind
        <4>6. Answered(b)'
          BY <2>4, <2>5, <2>6, <4>1, <4>3, <4>4, <4>5 DEF Answered, Size, RightKind
        <4>. QED BY <2>6, <4>6 DEF OneMessage
      <3>. QED BY <3>1, <3>2
    <2>. QED BY <2>1, <2>7, <2>8
  <1>14. loading[b] => loading'[b]
    BY <1>1
  <1>. QED BY <1>5, <1>6, <1>7, <1>11, <1>12, <1>13, <1>14, LocalInv

\* The report of b: of the throughput since START_MEASURE, or of the samples.
ReportOf(b) ==
  Reply(IF cur[b].kind = "REPORT_THROUGHPUT" THEN "thr" ELSE "lat", cur[b].req, mEpoch[b])

LEMMA ReportStep ==
  ASSUME Types, NEW b \in Agents, ReportThroughput(b) \/ ReportLatency(b)
  PROVE  /\ UNCHANGED <<coordVars, inbox, reset, cur, connOpen, loading, mEpoch, samples>>
         /\ mgr[b] = "apply" /\ cur[b].kind \in Reports
         /\ alive' \in [Agents -> BOOLEAN] /\ measuring' \in [Agents -> BOOLEAN]
         /\ measuring'[b] = FALSE /\ \A a \in Agents \ {b} : measuring'[a] = measuring[a]
         /\ stream' \in [Agents -> Seq(Answer)] /\ mgr' \in [Agents -> States]
         /\ \A a \in Agents : \A i \in 1..Len(stream'[a]) : stream'[a][i].left > 0
         /\ \A a \in Agents \ {b} : stream'[a] = stream[a] /\ mgr'[a] = mgr[a]
         /\ mgr'[b] \in {"idle", "crashed", "exited"}
         /\ \/ stream'[b] = stream[b] /\ (mgr'[b] \in Gone \/ result # "running")
            \/ mEpoch[b] # 0 /\ stream'[b] = Append(stream[b], ReportOf(b))
  <1>1. /\ AgentTypes /\ cur[b] \in Message /\ mEpoch[b] \in Nat
        /\ samples[b] \in {0, mEpoch[b]}
    BY AgentFacts DEF Types, EpochInv
  <1>2. cur[b].req \in Nat
    BY <1>1 DEF Message
  <1>3. /\ UNCHANGED <<coordVars, inbox, reset, cur, connOpen, loading, mEpoch, samples>>
        /\ mgr[b] = "apply" /\ cur[b].kind \in Reports
        /\ measuring' = [measuring EXCEPT ![b] = FALSE]
        /\ alive' = alive \/ alive' = [alive EXCEPT ![b] = FALSE]
    BY DEF ReportThroughput, ReportLatency, Terminate, Reports
  <1>4. /\ alive' \in [Agents -> BOOLEAN] /\ measuring' \in [Agents -> BOOLEAN]
        /\ measuring'[b] = FALSE /\ \A a \in Agents \ {b} : measuring'[a] = measuring[a]
    BY <1>1, <1>3 DEF AgentTypes
  <1>5. \/ Send(b, ReportOf(b), "idle") /\ mEpoch[b] # 0
        \/ stream' = stream /\ \E next \in Gone : mgr' = [mgr EXCEPT ![b] = next]
    <2>1. CASE ReportThroughput(b)
      BY <2>1 DEF ReportThroughput, ReportOf, Gone
    <2>2. CASE ReportLatency(b)
      BY <1>1, <2>2 DEF ReportLatency, ReportOf, Gone
    <2>. QED BY <2>1, <2>2
  <1>6. ReportOf(b) \in Answer /\ ReportOf(b).left > 0
    <2>1. CASE cur[b].kind = "REPORT_THROUGHPUT"
      BY <1>1, <1>2, <2>1, ReplyFacts DEF ReportOf, Kinds
    <2>2. CASE cur[b].kind # "REPORT_THROUGHPUT"
      BY <1>1, <1>2, <2>2, ReplyFacts DEF ReportOf, Kinds
    <2>. QED BY <2>1, <2>2
  <1>7. CASE Send(b, ReportOf(b), "idle") /\ mEpoch[b] # 0
    <2>. HIDE DEF ReportOf
    <2>. QED BY <1>3, <1>4, <1>6, <1>7, SendStep
  <1>8. CASE stream' = stream /\ \E next \in Gone : mgr' = [mgr EXCEPT ![b] = next]
    <2>1. PICK next \in Gone : mgr' = [mgr EXCEPT ![b] = next]
      BY <1>8
    <2>2. next \in States /\ next \in {"exited", "crashed"}
      BY DEF Gone, States
    <2>3. /\ mgr' \in [Agents -> States] /\ mgr'[b] = next
          /\ \A a \in Agents \ {b} : mgr'[a] = mgr[a]
      BY <1>1, <2>1, <2>2 DEF AgentTypes
    <2>. QED BY <1>1, <1>3, <1>4, <1>8, <2>2, <2>3 DEF AgentTypes
  <1>. QED BY <1>5, <1>7, <1>8

LEMMA ReportInv ==
  ASSUME IInv, NEW b \in Agents, ReportThroughput(b) \/ ReportLatency(b)
  PROVE  IInv'
  <1>1. /\ UNCHANGED <<coordVars, inbox, reset, cur, connOpen, loading, mEpoch, samples>>
        /\ mgr[b] = "apply" /\ cur[b].kind \in Reports /\ measuring'[b] = FALSE
        /\ mgr'[b] \in {"idle", "crashed", "exited"}
    BY Before, ReportStep
  <1>2. AgentTypes /\ Types
    BY Before
  <1>3. AgentTypes'
    BY <1>1, <1>2, ReportStep DEF AgentTypes
  <1>4. OthersSame(b)
    BY <1>1, <1>2, ReportStep DEF OthersSame
  <1>5. EpochInv(b)'
    BY <1>1, Before DEF EpochInv, coordVars
  <1>6. Told(b) => Told(b)'
    BY <1>1 DEF Told, Gone, Reports
  <1>7. QueueInv(b)'
    BY <1>1, <1>6, Before DEF QueueInv
  <1>8. Sent(b) => Sent(b)'
    BY <1>1, <1>6 DEF Sent
  <1>9. ASSUME clean PROVE OneMessage(b)' /\ (b \in ToSet(All) => Fresh(b)')
    <2>1. OneMessage(b) /\ (b \in ToSet(All) => Fresh(b))
      BY <1>9 DEF IInv, CleanInv
    <2>2. Working(b) /\ ~Working(b)'
      BY <1>1 DEF Working, Reports
    <2>3. Waiting(b) /\ Computing(b)
      BY <2>1, <2>2 DEF OneMessage, Quiet, Asked, Answered
    <2>4. /\ result = "running" /\ stream[b] = <<>> /\ inbox[b] = <<>>
          /\ cur[b].req = reqNo /\ cur[b].kind = Request(Round)
      BY <2>3 DEF Waiting, Computing
    <2>5. /\ Waiting(b)' /\ Request(Round)' = Request(Round)
          /\ reqNo' = reqNo /\ measureNo' = measureNo
      BY <1>1, <2>3, SameCoord
    <2>6. b \in ToSet(All)
      <3>1. \E j \in 1..Len(Group(Round)) : Group(Round)[j] = b
        BY <1>2, <2>3, CoordFacts DEF Waiting
      <3>2. DOMAIN Group(Round) = 1..Len(Group(Round))
        BY <1>2, CoordFacts
      <3>. QED BY <1>2, <3>1, <3>2, CoordFacts DEF ToSet
    <2>7. mEpoch[b] = measureNo
      BY <1>1, <2>1, <2>4, <2>6 DEF Fresh, Latest, Gone, Reports
    <2>8. Fresh(b)'
      BY <1>1, <2>4, <2>5, <2>7 DEF Fresh, Latest
    <2>9. CASE stream'[b] = stream[b]
      <3>1. Asked(b)'
        BY <1>1, <2>2, <2>4, <2>9 DEF Asked
      <3>. QED BY <2>5, <2>8, <3>1 DEF OneMessage
    <2>10. CASE stream'[b] # stream[b]
      <3>1. PICK rep : rep = ReportOf(b)
        OBVIOUS
      <3>2. mEpoch[b] # 0 /\ stream'[b] = Append(<<>>, rep)
        BY <1>2, <2>4, <2>10, <3>1, ReportStep
      <3>3. Len(stream'[b]) = 1 /\ stream'[b][1] = rep
        BY <3>2
      <3>4. /\ rep.kind = (IF cur[b].kind = "REPORT_THROUGHPUT" THEN "thr" ELSE "lat")
            /\ rep.req = reqNo /\ rep.epoch = measureNo /\ rep.left = Size(rep.kind)
        BY <2>4, <2>7, <3>1 DEF ReportOf, Reply
      <3>5. RightKind(rep)'
        BY <1>1, <2>4, <2>5, <3>4 DEF RightKind, Reports
      <3>6. loading'[b]
        BY <1>1, <3>2, Before DEF QueueInv
      <3>7. FreshReport(rep, b)'
        BY <2>5, <3>4, <3>6 DEF FreshReport
      <3>8. Answered(b)'
        <4>1. Size(rep.kind)' = Size(rep.kind)
          BY DEF Size
        <4>. QED BY <1>1, <2>2, <2>4, <2>5, <3>3, <3>4, <3>5, <3>7, <4>1 DEF Answered, RightKind, FreshReport
      <3>. QED BY <2>5, <2>8, <3>8 DEF OneMessage
    <2>. QED BY <2>9, <2>10
  <1>10. loading[b] => loading'[b]
    BY <1>1
  <1>. QED BY <1>3, <1>4, <1>5, <1>7, <1>8, <1>9, <1>10, LocalInv

-----------------------------------------------------------------------------
(* The rounds of the coordinator before the first error.                   *)

\* Only a measuring round asks for a measurement, of all agents.
LEMMA MeasureRounds ==
  ASSUME Types, Request(Round) = "START_MEASURE"
  PROVE  Group(Round) = All /\ at <= Index("measure")
  <1>1. Round \in {"probe", "measure"}
    BY CoordFacts DEF Request, Rounds
  <1>2. ~(at > IF Qual THEN 6 ELSE 4)
    BY <1>1, CoordFacts, Plans DEF Round
  <1>3. Group(Round) = All
    BY <1>1 DEF Group
  <1>. QED BY <1>2, <1>3, CoordFacts, Indexes

LEMMA BroadcastClean ==
  ASSUME IInv, Broadcast
  PROVE  CleanInv'
  <1>1. Types /\ CleanInv
    BY DEF IInv
  <1>2. CASE ~clean'
    BY <1>2 DEF CleanInv
  <1>3. CASE clean'
    <2>1. /\ NextAgent /\ result = "running" /\ idx = 0 /\ exp' = exp
          /\ \A a \in ToSet(Group(Round)) : mgr[a] \in Gone \/ inbox'[a] = Append(inbox[a], Msg)
      BY <1>1, <1>3, BroadcastStep
    <2>2. UNCHANGED <<got, stream, mgr, cur, loading, mEpoch>>
      BY <1>1, BroadcastStep DEF agentVars
    <2>3. at' = at /\ idx' = 1 /\ result' = "running" /\ clean
      BY <1>3, <2>1 DEF NextAgent
    <2>4. /\ Round' = Round /\ Group(Round)' = Group(Round) /\ All' = All /\ Plan' = Plan
          /\ \A r : Group(r)' = Group(r) /\ Index(r)' = Index(r)
      BY <2>1, <2>3, SamePlan DEF Round
    <2>5. Request(Round)' = Request(Round)
      BY <2>4 DEF Request
    <2>6. Msg.req = reqNo' /\ Msg.kind = Request(Round)
      BY <1>1, BroadcastStep
    <2>7. DOMAIN Group(Round) = 1..Len(Group(Round))
      BY <1>1, CoordFacts
    <2>8. ASSUME NEW a \in Agents
          PROVE  /\ Quiet(a) /\ (inbox'[a] = <<>> \/ inbox'[a] = <<Msg>>)
                 /\ a \notin ToSet(Group(Round)) => inbox'[a] = <<>>
      <3>1. OneMessage(a) /\ ~Waiting(a)
        BY <1>1, <2>1, <2>3 DEF CleanInv, Waiting
      <3>2. Quiet(a) /\ inbox[a] = <<>>
        BY <3>1 DEF OneMessage, Quiet
      <3>. QED BY <1>1, <3>2, BroadcastStep
    <2>. HIDE DEF Msg
    <2>9. ASSUME NEW a \in Agents PROVE OneMessage(a)'
      <3>1. ~Working(a)' /\ stream'[a] = <<>>
        BY <2>2, <2>8 DEF Quiet, Working
      <3>2. CASE a \in ToSet(Group(Round))
        <4>1. Len(inbox'[a]) <= 1 /\ (inbox'[a] # <<>> => inbox'[a][1] = Msg)
          <5>1. /\ Len(<<>>) <= 1
                /\ Len(<<Msg>>) <= 1 /\ <<Msg>>[1] = Msg
            OBVIOUS
          <5>. QED BY <2>8, <5>1
        <4>2. Asked(a)'
          BY <2>5, <2>6, <3>1, <4>1 DEF Asked
        <4>3. \E j \in 1..Len(Group(Round)) : Group(Round)[j] = a
          BY <2>7, <3>2 DEF ToSet
        <4>4. Waiting(a)'
          BY <2>3, <2>4, <4>3 DEF Waiting
        <4>. QED BY <4>2, <4>4 DEF OneMessage
      <3>3. CASE a \notin ToSet(Group(Round))
        <4>1. Quiet(a)'
          BY <2>8, <3>1, <3>3 DEF Quiet
        <4>2. ~Waiting(a)'
          BY <2>3, <2>4, <2>7, <3>3 DEF Waiting, ToSet
        <4>. QED BY <4>1, <4>2 DEF OneMessage
      <3>. QED BY <3>2, <3>3
    <2>10. ASSUME NEW a \in Agents, a \in ToSet(All) PROVE Fresh(a)'
      <3>1. Fresh(a) /\ inbox[a] = <<>>
        BY <1>1, <2>3, <2>8, <2>10 DEF CleanInv, Quiet
      <3>2. CASE Request(Round) = "START_MEASURE"
        <4>1. a \in ToSet(Group(Round)) /\ measureNo' = reqNo'
          BY <1>1, <2>10, <3>2, MeasureRounds, BroadcastStep
        <4>2. CASE inbox'[a] = Append(inbox[a], Msg)
          <5>1. inbox'[a] # <<>> /\ inbox'[a][1] = Msg
            BY <3>1, <4>2
          <5>. QED BY <2>6, <3>2, <4>1, <5>1 DEF Fresh, Latest
        <4>. QED BY <2>1, <2>2, <4>1, <4>2 DEF Fresh
      <3>3. CASE Request(Round) # "START_MEASURE"
        <4>1. measureNo' = measureNo
          BY <1>1, <3>3, BroadcastStep
        <4>2. inbox'[a] # <<>> => inbox'[a][1].kind # "START_MEASURE"
          BY <2>6, <2>8, <3>3
        <4>3. Latest(a)' = Latest(a)
          BY <2>2, <3>1, <4>2 DEF Latest
        <4>. QED BY <2>2, <3>1, <4>1, <4>3 DEF Fresh
      <3>. QED BY <3>2, <3>3
    <2>11. ASSUME NEW r \in {"thr", "lat"}, NEW a \in Agents, WasRead(Index(r), a)'
           PROVE  Collected(r, a)'
      <3>1. Index(r) < at /\ WasRead(Index(r), a)
        <4>1. PICK j \in 1..Len(Group(Plan[Index(r)])) :
                Group(Plan[Index(r)])[j] = a /\ (Index(r) < at \/ (Index(r) = at /\ j < 1))
          BY <2>3, <2>4, <2>11 DEF WasRead
        <4>. QED BY <4>1 DEF WasRead
      <3>2. measureNo' = measureNo
        <4>1. Index("measure") < Index(r) /\ Index("measure") \in Nat /\ Index(r) \in Nat
              /\ at \in Nat
          <5>1. at \in Nat
            BY <1>1, CoordFacts
          <5>2. Index(r) = Index("thr") \/ Index(r) = Index("lat")
            BY <2>11
          <5>3. CASE Qual
            BY <5>1, <5>2, <5>3, Indexes
          <5>4. CASE ~Qual
            BY <5>1, <5>2, <5>4, Indexes
          <5>. QED BY <5>3, <5>4
        <4>2. Request(Round) # "START_MEASURE"
          BY <1>1, <3>1, <4>1, MeasureRounds
        <4>. QED BY <1>1, <4>2, BroadcastStep
      <3>. QED BY <1>1, <2>1, <2>2, <2>3, <3>1, <3>2 DEF CleanInv, Collected, FreshReport
    <2>. QED BY <2>3, <2>4, <2>9, <2>10, <2>11 DEF CleanInv
  <1>. QED BY <1>2, <1>3

\* Before the first error the reply read is the one to the round, and is read whole.
LEMMA ReadAnswer ==
  ASSUME IInv, ReadReply, clean
  PROVE  LET a == Group(Round)[idx]
         IN  Answered(a) /\ stream'[a] = <<>>
  <1>. DEFINE a == Group(Round)[idx]
  <1>1. Types /\ CleanInv
    BY DEF IInv
  <1>2. /\ result = "running" /\ idx \in 1..Len(Group(Round)) /\ a \in Agents
        /\ stream[a] # <<>>
        /\ stream' = [stream EXCEPT ![a] = AfterRead(@, ReadSize(Round))]
    BY <1>1, ReadReplyStep
  <1>. HIDE DEF a
  <1>3. Answered(a)
    <2>1. OneMessage(a)
      BY <1>1, <1>2 DEF CleanInv
    <2>. QED BY <1>2, <2>1 DEF OneMessage, Quiet, Asked, Computing
  <1>4. PICK m \in Answer : m = stream[a][1]
    <2>1. stream[a] \in Seq(Answer) /\ 1 \in 1..Len(stream[a])
      BY <1>1, <1>2, <1>3, AgentFacts DEF Answered
    <2>. QED BY <2>1
  <1>5. m.left = Size(m.kind) /\ RightKind(m) /\ m.kind \in Kinds
    BY <1>3, <1>4 DEF Answered, Answer
  <1>6. m.left <= ReadSize(Round)
    <2>1. CASE m.kind \in {"thr", "lat"}
      <3>1. Round \in {"probeThr", "thr", "lat"}
        BY <1>1, <1>5, <2>1, CoordFacts DEF RightKind, Request, Rounds
      <3>. QED BY <1>5, <2>1, <3>1 DEF Size, ReadSize
    <2>2. CASE m.kind \notin {"thr", "lat"}
      BY <1>5, <2>2 DEF Size, ReadSize, Kinds
    <2>. QED BY <2>1, <2>2
  <1>7. ReadSize(Round) \in Nat
    BY DEF ReadSize
  <1>8. AfterRead(stream[a], ReadSize(Round)) = <<>>
    BY <1>1, <1>2, <1>3, <1>4, <1>6, <1>7, AgentFacts, AfterReadAnswers DEF Answered
  <1>9. stream'[a] = <<>>
    BY <1>1, <1>2, <1>8 DEF Types, AgentTypes
  <1>. QED BY <1>3, <1>9 DEF a

\* The reports read so far, this one among them, are of the last measurement.
LEMMA ReadCollected ==
  ASSUME IInv, ReadReply, clean,
         got' = [got EXCEPT ![Group(Round)[idx]] = stream[Group(Round)[idx]][1]],
         NEW r \in {"thr", "lat"}, NEW c \in Agents,
         NEW j \in 1..Len(Group(Plan[Index(r)])), Group(Plan[Index(r)])[j] = c,
         Index(r) < at \/ (Index(r) = at /\ j <= idx)
  PROVE  Collected(r, c)'
  <1>. DEFINE a == Group(Round)[idx]
              i == Index(r)
  <1>1. Types /\ CleanInv
    BY DEF IInv
  <1>2. /\ UNCHANGED <<exp, measureNo, loading>> /\ result = "running"
        /\ idx \in 1..Len(Group(Round)) /\ a \in Agents /\ got \in [Agents -> Answer]
        /\ Len(Group(Round)) \in Nat /\ at \in Nat
    BY <1>1, ReadReplyStep, CoordFacts DEF agentVars
  <1>3. Answered(a) /\ got'[a] = stream[a][1] /\ \A b \in Agents \ {a} : got'[b] = got[b]
    BY <1>2, ReadAnswer
  <1>4. /\ i \in Nat /\ i \in 1..Len(Plan) /\ Plan[i] = r /\ i > Index("measure")
        /\ Index("measure") \in Nat
    BY Plans, Indexes
  <1>. HIDE DEF i, a
  <1>5. ToSet(Group("thr")) \cap ToSet(Group("lat")) = {} /\ exp \in Experiments
    BY <1>1, CoordFacts, Groups
  <1>6. c \in ToSet(Group(r)) /\ a \in ToSet(Group(Round))
    <2>1. Group(r) \in Seq(Agents) /\ Group(Round) \in Seq(Agents)
      BY <1>1, <1>5, CoordFacts, Groups DEF Rounds
    <2>2. DOMAIN Group(r) = 1..Len(Group(r)) /\ DOMAIN Group(Round) = 1..Len(Group(Round))
      BY <2>1
    <2>. QED BY <1>2, <1>4, <2>2 DEF ToSet, i, a
  <1>7. CASE i = at /\ c = a
    <2>1. Round = r
      BY <1>4, <1>7 DEF Round
    <2>2. stream[a][1].kind = r /\ FreshReport(stream[a][1], a)
      BY <1>3, <2>1 DEF Answered, RightKind, Request
    <2>. QED BY <1>2, <1>3, <1>7, <2>2 DEF Collected, FreshReport
  <1>8. CASE ~(i = at /\ c = a)
    <2>1. WasRead(i, c)
      <3>1. CASE i < at
        BY <3>1 DEF WasRead, i
      <3>2. CASE i = at
        <4>1. j # idx
          BY <1>8, <3>2 DEF Round, i, a
        <4>2. j \in 1..Len(Group(Round))
          BY <3>2 DEF Round, i
        <4>3. j \in Nat /\ idx \in Nat /\ ~(i < at)
          BY <1>2, <3>2, <4>2
        <4>4. j < idx
          BY <4>1, <4>3 DEF i
        <4>. QED BY <3>2, <4>4 DEF WasRead, i
      <3>. QED BY <3>1, <3>2 DEF i
    <2>2. Collected(r, c)
      BY <1>1, <1>2, <2>1 DEF CleanInv, i
    <2>3. c # a
      <3>1. CASE i = at
        BY <1>8, <3>1
      <3>2. CASE i < at
        <4>1. at > Index("measure") /\ at \in 1..Len(Plan)
          BY <1>1, <1>4, <3>2, CoordFacts
        <4>2. Round \in {"thr", "lat"}
          BY <4>1, Plans, Indexes DEF Round
        <4>3. Round # r
          BY <1>4, <3>2, <4>1, Plans DEF Round
        <4>. QED BY <1>5, <1>6, <4>2, <4>3
      <3>. QED BY <3>1, <3>2 DEF i
    <2>. QED BY <1>2, <1>3, <2>2, <2>3 DEF Collected, FreshReport
  <1>. QED BY <1>7, <1>8

LEMMA ReadReplyClean ==
  ASSUME IInv, ReadReply
  PROVE  CleanInv'
  <1>1. Types /\ CleanInv
    BY DEF IInv
  <1>5. PICK a \in Agents : a = Group(Round)[idx]
    BY <1>1, ReadReplyStep
  <1>2. /\ UNCHANGED <<exp, reqNo, measureNo, inbox, mgr, cur, loading, mEpoch>>
        /\ result = "running" /\ idx \in 1..Len(Group(Round))
        /\ \A c \in Agents \ {a} : stream'[c] = stream[c]
        /\ \/ RoundEnds /\ ~clean'
           \/ /\ got' = [got EXCEPT ![a] = stream[a][1]]
              /\ NextAgent \/ (idx = Len(Group(Round)) /\ RoundEnds)
    BY <1>1, <1>5, ReadReplyStep DEF agentVars, Types, AgentTypes
  <1>3. CASE ~clean'
    BY <1>3 DEF CleanInv
  <1>4. CASE clean'
    <2>1. clean
      BY <1>2, <1>4 DEF NextAgent, RoundEnds
    <2>2. /\ got' = [got EXCEPT ![a] = stream[a][1]]
          /\ NextAgent \/ (idx = Len(Group(Round)) /\ RoundEnds)
      BY <1>2, <1>4
    <2>3. Answered(a) /\ stream'[a] = <<>>
      BY <1>5, <2>1, ReadAnswer
    <2>4. \A r \in {"thr", "lat"}, c \in Agents :
            \A j \in 1..Len(Group(Plan[Index(r)])) :
              /\ Group(Plan[Index(r)])[j] = c
              /\ Index(r) < at \/ (Index(r) = at /\ j <= idx)
              => Collected(r, c)'
      BY <1>5, <2>1, <2>2, ReadCollected
    <2>5. /\ Once(Group(Round)) /\ Len(Group(Round)) \in Nat /\ exp \in Experiments
          /\ at \in 1..Len(Plan) /\ Len(Plan) \in Nat
      BY <1>1, CoordFacts, Plans
    <2>6. /\ All' = All /\ Th' = Th /\ Lt' = Lt /\ Sym' = Sym /\ Plan' = Plan
          /\ Round' = Plan[at'] /\ Group(Round)' = Group(Plan[at'])
          /\ \A r : Group(r)' = Group(r) /\ Index(r)' = Index(r)
      BY <1>2, SamePlan
    <2>7. \A c \in Agents : Fresh(c)' = Fresh(c)
      BY <1>2 DEF Fresh, Latest
    <2>8. \A c \in Agents : c # a /\ Quiet(c) => Quiet(c)'
      BY <1>2 DEF Quiet, Working
    <2>9. Quiet(a)'
      BY <1>2, <2>3 DEF Quiet, Working, Answered
    <2>10. CASE NextAgent
      <3>1. /\ at' = at /\ idx' = idx + 1 /\ result' = "running" /\ Round' = Round
            /\ Group(Round)' = Group(Round)
        BY <1>2, <2>6, <2>10 DEF NextAgent, Round
      <3>2. Request(Round)' = Request(Round)
        BY <3>1 DEF Request
      <3>3. \A c \in Agents : Waiting(c)' <=> Waiting(c) /\ c # a
        <4>1. \A j \in idx..Len(Group(Round)) : j \in 1..Len(Group(Round))
                /\ (j = idx \/ j \in idx + 1 .. Len(Group(Round)))
          BY <1>2, <2>5
        <4>2. \A j \in idx + 1 .. Len(Group(Round)) :
                j \in idx..Len(Group(Round)) /\ j # idx
          BY <1>2, <2>5
        <4>3. \A c \in Agents : (\E j \in idx + 1 .. Len(Group(Round)) : Group(Round)[j] = c)
                <=> (\E j \in idx..Len(Group(Round)) : Group(Round)[j] = c) /\ c # a
          BY <1>2, <1>5, <2>5, <4>1, <4>2 DEF Once
        <4>4. idx > 0 /\ idx + 1 > 0
          BY <1>2
        <4>. QED BY <1>2, <3>1, <4>3, <4>4 DEF Waiting
      <3>4. ASSUME NEW c \in Agents PROVE OneMessage(c)'
        <4>1. CASE c = a
          BY <2>9, <3>3, <4>1 DEF OneMessage
        <4>2. CASE c # a
          <5>1. stream'[c] = stream[c] /\ OneMessage(c)
            BY <1>1, <1>2, <2>1, <4>2 DEF CleanInv
          <5>2. Working(c)' = Working(c)
            BY <1>2 DEF Working
          <5>3. (Asked(c) => Asked(c)') /\ (Computing(c) => Computing(c)')
            BY <1>2, <3>2, <5>1, <5>2 DEF Asked, Computing
          <5>4. Answered(c) => Answered(c)'
            BY <1>2, <3>2, <5>1, <5>2 DEF Answered, RightKind, FreshReport, Size
          <5>. QED BY <2>8, <3>3, <4>2, <5>1, <5>3, <5>4 DEF OneMessage
        <4>. QED BY <4>1, <4>2
      <3>5. ASSUME NEW r \in {"thr", "lat"}, NEW c \in Agents, WasRead(Index(r), c)'
            PROVE  Collected(r, c)'
        <4>1. PICK j \in 1..Len(Group(Plan[Index(r)])) :
                /\ Group(Plan[Index(r)])[j] = c
                /\ Index(r) < at \/ (Index(r) = at /\ j < idx + 1)
          BY <2>6, <3>1, <3>5 DEF WasRead
        <4>2. Index(r) = at => j \in 1..Len(Group(Round))
          BY DEF Round
        <4>3. Index(r) < at \/ (Index(r) = at /\ j <= idx)
          BY <1>2, <2>5, <4>1, <4>2
        <4>. QED BY <2>4, <4>1, <4>3
      <3>. QED BY <1>1, <2>1, <2>6, <2>7, <3>1, <3>4, <3>5 DEF CleanInv
    <2>11. CASE idx = Len(Group(Round)) /\ RoundEnds
      <3>1. \A c \in Agents : ~Waiting(c)'
        BY <2>11, <2>6 DEF RoundEnds, Waiting
      <3>2. \A c \in Agents : c # a => ~Waiting(c)
        <4>1. \A j \in idx..Len(Group(Round)) : j = idx
          BY <1>2, <2>5, <2>11
        <4>. QED BY <1>5, <4>1 DEF Waiting
      <3>3. \A c \in Agents : OneMessage(c)'
        BY <1>1, <2>1, <2>8, <2>9, <3>1, <3>2 DEF OneMessage, CleanInv
      \* What has been read once this round is over.
      <3>4. ASSUME NEW r \in {"thr", "lat"}, NEW c \in Agents,
                   NEW j \in 1..Len(Group(Plan[Index(r)])), Group(Plan[Index(r)])[j] = c,
                   Index(r) <= at
            PROVE  Collected(r, c)'
        <4>1. Index(r) = at => j <= idx
          BY <2>5, <2>11 DEF Round
        <4>2. Index(r) < at \/ Index(r) = at
          BY <2>5, <3>4, Indexes
        <4>. QED BY <2>4, <3>4, <4>1, <4>2
      <3>5. ASSUME NEW r \in {"thr", "lat"}, NEW c \in Agents, WasRead(Index(r), c)',
                   result' = "running"
            PROVE  Collected(r, c)'
        <4>1. PICK n \in 1..Len(Plan) :
                /\ at' = n /\ idx' = 0 /\ (n <= Index("measure") \/ n = After(at))
          BY <2>11, <3>5 DEF RoundEnds
        <4>2. PICK j \in 1..Len(Group(Plan[Index(r)])) :
                Group(Plan[Index(r)])[j] = c /\ (Index(r) < n \/ (Index(r) = n /\ j < 0))
          BY <2>6, <3>5, <4>1 DEF WasRead
        <4>3. Index(r) < n
          <5>1. Group(Plan[Index(r)]) \in Seq(Agents)
            <6>1. Plan[Index(r)] \in Rounds
              BY Plans, Indexes
            <6>. QED BY <2>5, <6>1, Groups
          <5>2. j \in Nat /\ ~(j < 0)
            BY <5>1
          <5>. QED BY <4>2, <5>2
        <4>4. Index(r) > Index("measure") /\ Index(r) \in 1..Len(Plan) /\ Index("measure") \in Nat
          BY Plans, Indexes
        <4>5. n = After(at)
          BY <4>1, <4>3, <4>4
        <4>6. Index(r) <= at
          <5>1. ~(at < Index(r))
            <6>1. SUFFICES ASSUME at < Index(r) PROVE FALSE
              OBVIOUS
            <6>2. Group(Plan[Index(r)]) = <<>>
              BY <2>5, <4>3, <4>4, <4>5, <6>1, NextRound
            <6>. QED BY <6>2
          <5>. QED BY <2>5, <4>4, <5>1
        <4>. QED BY <3>4, <4>2, <4>6
      <3>6. ASSUME NEW r \in {"thr", "lat"}, NEW c \in ToSet(Group(r)), result' = "ok"
            PROVE  Collected(r, c)'
        <4>1. After(at) > Len(Plan)
          BY <1>4, <2>11, <3>6 DEF RoundEnds
        <4>2. Index(r) \in 1..Len(Plan) /\ Plan[Index(r)] = r
          BY Plans, Indexes
        <4>3. Group(r) \in Seq(Agents)
          BY <2>5, Groups DEF Rounds
        <4>4. PICK j \in 1..Len(Group(r)) : Group(r)[j] = c
          BY <4>3 DEF ToSet
        <4>5. Index(r) <= at
          <5>1. ~(at < Index(r))
            <6>1. SUFFICES ASSUME at < Index(r) PROVE FALSE
              OBVIOUS
            <6>2. Index(r) < After(at)
              <7>1. After(at) \in Nat
                BY <2>5, NextRound
              <7>. QED BY <2>5, <4>1, <4>2, <7>1
            <6>3. Group(r) = <<>>
              BY <2>5, <4>2, <6>1, <6>2, NextRound
            <6>. QED BY <4>4, <6>3
          <5>. QED BY <2>5, <4>2, <5>1
        <4>6. c \in Agents
          BY <4>3, <4>4
        <4>. QED BY <3>4, <4>2, <4>4, <4>5, <4>6
      <3>7. /\ result' = "ok" => /\ \A c \in ToSet(Th) : Collected("thr", c)'
                                 /\ \A c \in ToSet(Lt) \cup ToSet(Sym) : Collected("lat", c)'
        BY <2>5, <3>6, Groups
      <3>8. result' \in {"running", "ok"}
        BY <1>4, <2>11 DEF RoundEnds
      <3>. QED BY <1>1, <2>1, <2>6, <2>7, <3>3, <3>5, <3>7, <3>8 DEF CleanInv
    <2>. QED BY <2>2, <2>10, <2>11
  <1>. QED BY <1>3, <1>4

-----------------------------------------------------------------------------
LEMMA InitInv ==
  ASSUME Init
  PROVE  IInv
  <1>1. /\ exp \in Experiments /\ at = FirstRound /\ idx = 0 /\ allOpen = TRUE
        /\ polls = 0 /\ tries = 0 /\ step = 1 /\ result = "running" /\ clean = TRUE
        /\ reqNo = 0 /\ measureNo = 0 /\ timeouts = 0 /\ reset = {}
        /\ got = [a \in Agents |-> NoReply]
    BY DEF Init
  <1>2. \A a \in Agents :
          /\ inbox[a] = <<>> /\ stream[a] = <<>> /\ cur[a] = NoRequest
          /\ loading[a] = FALSE /\ measuring[a] = FALSE /\ mEpoch[a] = 0 /\ samples[a] = 0
          /\ mgr[a] \in {"launching", "exited"}
    BY DEF Init
  <1>3. /\ FirstRound \in 1..Len(Plan) /\ Group(Plan[FirstRound]) # <<>>
        /\ FirstRound <= Index("measure")
        /\ \A i \in 1..FirstRound - 1 : Group(Plan[i]) = <<>>
    BY <1>1, FirstRoundFacts
  <1>4. CoordTypes
    <2>1. Group(Round) \in Seq(Agents)
      <3>1. Round \in Rounds
        BY <1>1, <1>3, Plans DEF Round
      <3>. QED BY <1>1, <3>1, Groups
    <2>2. 0 \in 0..Len(Group(Round))
      BY <2>1
    <2>3. NoReply \in Answer
      BY DEF NoReply, Answer, Kinds
    <2>4. got \in [Agents -> Answer]
      BY <1>1, <2>3
    <2>5. 1 \in 1..exp.steps /\ 0 < exp.polls /\ 0 < exp.tries
      BY <1>1, Parameters
    <2>6. 0 \in 0..MaxTimeouts
      BY CoordinationAssumption
    <2>. QED BY <1>1, <1>3, <2>2, <2>4, <2>5, <2>6 DEF CoordTypes, Round
  <1>5. AgentTypes
    <2>1. NoRequest \in Message
      BY DEF NoRequest, Message, Requests, Request, Rounds
    <2>2. cur \in [Agents -> Message]
      BY <2>1 DEF Init
    <2>3. <<>> \in Seq(Message) /\ <<>> \in Seq(Answer)
      OBVIOUS
    <2>4. inbox \in [Agents -> Seq(Message)] /\ stream \in [Agents -> Seq(Answer)]
      BY <2>3 DEF Init
    <2>5. mgr \in [Agents -> States]
      BY DEF Init, States
    <2>6. /\ alive \in [Agents -> BOOLEAN] /\ connOpen \in [Agents -> BOOLEAN]
          /\ loading \in [Agents -> BOOLEAN] /\ measuring \in [Agents -> BOOLEAN]
          /\ mEpoch \in [Agents -> Nat] /\ samples \in [Agents -> Nat]
          /\ reset \in SUBSET Agents
      BY DEF Init
    <2>7. \A a \in Agents : \A i \in 1..Len(stream[a]) : stream[a][i].left > 0
      BY <1>2
    <2>. QED BY <2>2, <2>4, <2>5, <2>6, <2>7 DEF AgentTypes
  <1>6. \A a \in Agents : EpochInv(a)
    BY <1>1, <1>2 DEF EpochInv, NoRequest
  <1>7. LoadInv
    <2>1. Past(2) => Main = <<>>
      BY <1>1, <1>3, Plans DEF Past, Group
    <2>2. Past(3) => Lt = <<>>
      BY <1>1, <1>3, Plans DEF Past, Group
    <2>3. LoadSent
      BY <2>1, <2>2 DEF LoadSent, ToSet
    <2>4. \A a \in Agents : QueueInv(a)
      BY <1>2 DEF QueueInv, NoRequest
    <2>. QED BY <2>3, <2>4 DEF LoadInv
  <1>8. CleanInv
    <2>1. \A a \in Agents : OneMessage(a) /\ Fresh(a)
      BY <1>1, <1>2 DEF OneMessage, Waiting, Quiet, Working, Fresh, Latest
    <2>2. \A r \in {"thr", "lat"} : \A a \in Agents : ~WasRead(Index(r), a)
      BY <1>1, <1>3, Indexes DEF WasRead
    <2>. QED BY <1>1, <2>1, <2>2 DEF CleanInv
  <1>. QED BY <1>4, <1>5, <1>6, <1>7, <1>8 DEF IInv, Types

LEMMA StepInv ==
  ASSUME IInv, [Next]_vars
  PROVE  IInv'
  <1>1. Types /\ LoadInv
    BY DEF IInv
  <1>2. CASE Broadcast
    BY <1>1, <1>2, BroadcastTypes, BroadcastLoad, BroadcastClean DEF IInv
  <1>3. CASE ReadReply
    <2>1. LoadInv'
      <3>1. /\ UNCHANGED <<exp, inbox, mgr, cur, agentVars>> /\ result = "running"
            /\ idx > 0 /\ (RoundEnds \/ NextAgent)
        BY <1>1, <1>3, ReadReplyStep
      <3>. QED BY <1>1, <3>1, ReadLoad
    <2>. QED BY <1>1, <1>3, <2>1, ReadReplyTypes, ReadReplyClean DEF IInv
  <1>4. CASE ReadFails
    <2>1. LoadInv'
      BY <1>1, <1>4, ReadFailsStep, ReadLoad
    <2>2. CleanInv'
      BY <1>1, <1>4, ReadFailsStep DEF CleanInv
    <2>. QED BY <1>1, <1>4, <2>1, <2>2, ReadFailsTypes DEF IInv
  <1>5. ASSUME NEW b \in Agents, Manager(b) \/ Agent(b)
        PROVE  IInv'
    BY <1>5, LaunchInv, ReceiveInv, StartLoadInv, StartMeasureInv, ReportInv,
       CoordinatorGoneInv, AgentInv DEF Manager
  <1>6. CASE UNCHANGED vars
    <2>1. UNCHANGED <<coordVars, inbox, stream, reset, mgr, cur, alive, connOpen, loading,
                      measuring, mEpoch, samples>>
      BY <1>6 DEF vars, agentVars
    <2>2. CoordTypes' /\ AgentTypes'
      BY <1>1, <2>1, SameCoord DEF Types, CoordTypes, AgentTypes
    <2>3. /\ \A a \in Agents : EpochInv(a)' /\ QueueInv(a)' /\ (Sent(a)' <=> Sent(a))
          /\ \A a \in Agents : Fresh(a)' <=> Fresh(a)
      BY <1>1, <2>1 DEF coordVars, Types, LoadInv, EpochInv, QueueInv, Sent, Told, Fresh, Latest
    <2>4. LoadInv'
      <3>1. /\ exp' = exp /\ result' = result /\ (Past(2)' <=> Past(2)) /\ (Past(3)' <=> Past(3))
        BY <2>1 DEF coordVars, Past
      <3>2. Main' = Main /\ Lt' = Lt /\ ToSet(Main) \subseteq Agents /\ ToSet(Lt) \subseteq Agents
        <4>1. Main \in Seq(Agents) /\ Lt \in Seq(Agents)
          BY <1>1, CoordFacts, Groups, Parameters
        <4>. QED BY <3>1, <4>1, SamePlan DEF ToSet
      <3>. QED BY <1>1, <2>3, <3>1, <3>2 DEF LoadInv, LoadSent
    <2>5. CleanInv'
      <3>1. \A a \in Agents : OneMessage(a)' <=> OneMessage(a)
        <4>. SUFFICES ASSUME NEW a \in Agents PROVE OneMessage(a)' <=> OneMessage(a)
          OBVIOUS
        <4>1. (Working(a)' <=> Working(a)) /\ (Waiting(a)' <=> Waiting(a))
          BY <2>1, SameCoord DEF Working
        <4>2. (Quiet(a)' <=> Quiet(a)) /\ (Asked(a)' <=> Asked(a)) /\ (Computing(a)' <=> Computing(a))
          BY <2>1, <4>1, SameCoord DEF Quiet, Asked, Computing
        <4>3. Answered(a)' <=> Answered(a)
          BY <2>1, <4>1, SameCoord DEF Answered, RightKind, FreshReport, Size
        <4>. QED BY <4>1, <4>2, <4>3 DEF OneMessage
      <3>2. \A r : \A a \in Agents : Collected(r, a)' <=> Collected(r, a)
        BY <2>1, SameCoord DEF Collected, FreshReport
      <3>3. ToSet(Th) \subseteq Agents /\ ToSet(Lt) \cup ToSet(Sym) \subseteq Agents
        BY <1>1, GroupSets
      <3>. QED BY <2>1, <2>3, <3>1, <3>2, <3>3, SameCoord, ZenonT(60) DEF IInv, CleanInv
    <2>. QED BY <2>2, <2>3, <2>4, <2>5 DEF IInv, Types
  <1>. QED BY <1>2, <1>3, <1>4, <1>5, <1>6 DEF Next, Coordinator, Finished

THEOREM Correct == Spec => []IInv
  <1>1. Init => IInv
    BY InitInv
  <1>2. IInv /\ [Next]_vars => IInv'
    BY StepInv
  <1>. QED BY <1>1, <1>2, PTL DEF Spec

\* A group names no more agents than there are roles.
LEMMA GroupLength ==
  ASSUME exp \in Experiments, NEW r \in Rounds
  PROVE  Len(Group(r)) <= Len(All)
  <1>1. Th \in Seq(Agents) /\ Lt \in Seq(Agents) /\ Sym \in Seq(Agents)
    BY Parameters
  <1>2. /\ Len(Th) \in Nat /\ Len(Lt) \in Nat /\ Len(Sym) \in Nat
        /\ Th \o Lt \in Seq(Agents) /\ Len(Th \o Lt) = Len(Th) + Len(Lt)
        /\ Len(Sym \o Th) = Len(Sym) + Len(Th) /\ Len(Sym \o Lt) = Len(Sym) + Len(Lt)
        /\ Len(Lt \o Sym) = Len(Lt) + Len(Sym)
    BY <1>1, Concatenation
  <1>3. Len(All) = Len(Th) + Len(Lt) + Len(Sym)
    <2>. DEFINE tl == Th \o Lt
    <2>1. All = tl \o Sym
      BY DEF All
    <2>2. tl \in Seq(Agents) /\ Len(tl) = Len(Th) + Len(Lt)
      BY <1>2
    <2>. HIDE DEF tl
    <2>3. Len(tl \o Sym) = Len(tl) + Len(Sym)
      BY <1>1, <2>2, Concatenation
    <2>. QED BY <1>2, <2>1, <2>2, <2>3
  <1>4. Group(r) \in {<<>>, Th, Lt, All, Sym \o Th, Sym \o Lt, Lt \o Sym}
    BY DEF Group, Rounds, Main
  <1>5. Len(<<>>) = 0
    OBVIOUS
  <1>. QED BY <1>2, <1>3, <1>4, <1>5

\* Every variable keeps its type: the polls of load and the attempts of
\* fixedQualPattern stay below their limits, and no agent measures for a
\* START_MEASURE the coordinator has not sent.
THEOREM TypeCorrect == Spec => []TypeOK
  <1>1. ASSUME IInv PROVE TypeOK
    <2>1. Types /\ AgentTypes
      BY <1>1 DEF IInv, Types
    <2>2. /\ at \in 1..Len(Plan) + 1 /\ allOpen \in BOOLEAN /\ clean \in BOOLEAN
          /\ polls < exp.polls /\ tries < exp.tries /\ step \in 1..exp.steps
          /\ result \in {"running", "ok", "err"} /\ timeouts \in 0..MaxTimeouts
          /\ reset \subseteq Agents /\ reqNo \in Nat /\ measureNo \in Nat
      BY <2>1, CoordFacts, Plans
    <2>3. idx \in 0..Len(All)
      <3>1. Len(Group(Round)) <= Len(All) /\ Len(All) \in Nat
        BY <2>1, CoordFacts, Groups, GroupLength
      <3>. QED BY <2>1, <3>1, CoordFacts
    <2>4. ASSUME NEW a \in Agents
          PROVE  /\ inbox[a] \in Seq(Message) /\ cur[a] \in Message
                 /\ \A i \in 1..Len(stream[a]) :
                      stream[a][i].kind \in Kinds /\ stream[a][i].left > 0
                 /\ mgr[a] \in Gone \cup {"launching", "idle", "apply"}
                 /\ mEpoch[a] \in 0..measureNo /\ samples[a] \in 0..measureNo
      <3>1. \A i \in 1..Len(stream[a]) : stream[a][i] \in Answer
        BY <2>1, AgentFacts
      <3>2. mEpoch[a] \in 0..measureNo /\ samples[a] \in 0..measureNo
        BY <2>1, <2>2, AgentFacts DEF EpochInv
      <3>. QED BY <2>1, <3>1, <3>2, AgentFacts DEF Answer, States, Gone
    <2>5. /\ alive \in [Agents -> BOOLEAN] /\ connOpen \in [Agents -> BOOLEAN]
          /\ loading \in [Agents -> BOOLEAN] /\ measuring \in [Agents -> BOOLEAN]
      BY <2>1 DEF AgentTypes
    <2>. QED BY <2>2, <2>3, <2>4, <2>5 DEF TypeOK
  <1>. QED BY <1>1, Correct, PTL

\* A manager raises should_measure only in an agent that has been told to load,
\* whatever write, manager or deadline has failed before (start_measure): the
\* START_LOAD precedes the START_MEASURE on the same connection.
THEOREM MeasuringCorrect == Spec => []MeasuringImpliesLoading
  <1>1. IInv => MeasuringImpliesLoading
    BY DEF IInv, LoadInv, QueueInv, MeasuringImpliesLoading
  <1>. QED BY <1>1, Correct, PTL

\* When a pattern ends without an error, the coordinator has a report of the
\* last measurement from every agent, each has been given load and no message is
\* left on any connection (runExp, collectThroughputResults, collectLatencyResults).
THEOREM CleanCorrect == Spec => []CleanResult
  <1>1. ASSUME IInv PROVE CleanResult
    <2>1. SUFFICES ASSUME result = "ok", clean, NEW a \in ToSet(All)
                   PROVE  /\ got[a].epoch = measureNo /\ loading[a]
                          /\ got[a].kind = (IF a \in ToSet(Th) THEN "thr" ELSE "lat")
                          /\ stream[a] = <<>> /\ inbox[a] = <<>>
      BY DEF CleanResult
    <2>2. Types /\ CleanInv /\ exp \in Experiments
      BY <1>1, CoordFacts DEF IInv
    <2>3. a \in Agents /\ (a \in ToSet(Th) \/ a \in ToSet(Lt) \cup ToSet(Sym))
      BY <2>1, <2>2, Groups DEF ToSet
    <2>4. OneMessage(a) /\ ~Waiting(a)
      BY <2>1, <2>2, <2>3 DEF CleanInv, Waiting
    <2>5. IF a \in ToSet(Th) THEN Collected("thr", a) ELSE Collected("lat", a)
      BY <2>1, <2>2, <2>3 DEF CleanInv
    <2>. QED BY <2>4, <2>5 DEF OneMessage, Quiet, Collected, FreshReport
  <1>. QED BY <1>1, Correct, PTL

\* A Read that the coordinator accepts before the first error takes a whole
\* reply, from the agent it waits for, to the request of its round.
LEMMA Accepted ==
  ASSUME IInv, [Next]_vars, clean, NEW a \in Agents, got'[a] # got[a]
  PROVE  /\ got'[a].req = reqNo /\ got'[a].left = Size(got'[a].kind)
         /\ RightKind(got'[a])
         /\ got'[a].kind \in {"thr", "lat"} => got'[a].epoch = measureNo
  <1>1. Types
    BY DEF IInv
  <1>2. ~(UNCHANGED got)
    OBVIOUS
  <1>3. ReadReply
    <2>1. ~Broadcast /\ ~ReadFails
      BY <1>1, <1>2, BroadcastStep, ReadFailsStep
    <2>2. ASSUME NEW b \in Agents, Manager(b) \/ Agent(b) PROVE FALSE
      <3>1. UNCHANGED coordVars
        BY <2>2 DEF Manager, Agent, Launch, LaunchFails, Receive, StartLoad, StartMeasure,
                    ReportThroughput, ReportLatency, CoordinatorGone, OpenConnections,
                    AddSample, AgentDies
      <3>. QED BY <1>2, <3>1 DEF coordVars
    <2>3. ~UNCHANGED vars
      BY <1>2 DEF vars, coordVars
    <2>. QED BY <2>1, <2>2, <2>3 DEF Next, Coordinator, Finished
  <1>4. PICK b \in Agents : b = Group(Round)[idx]
    BY <1>1, <1>3, ReadReplyStep
  <1>5. got' = [got EXCEPT ![b] = stream[b][1]]
    BY <1>1, <1>2, <1>3, <1>4, ReadReplyStep
  <1>6. a = b /\ got'[a] = stream[a][1]
    BY <1>1, <1>5, CoordFacts
  <1>7. Answered(a)
    BY <1>3, <1>4, <1>6, ReadAnswer
  <1>. QED BY <1>6, <1>7 DEF Answered, FreshReport

\* Until the first error a reply is taken for the answer to the request it does
\* answer, although it carries no request number (collectAcks, collectValues).
THEOREM AnswersCorrect == Spec => AnswersTheRequest
  <1>1. ASSUME IInv, [Next]_vars
        PROVE  [\A a \in Agents : clean /\ got'[a] # got[a] =>
                  /\ got'[a].req = reqNo
                  /\ got'[a].left = Size(got'[a].kind)]_got
    BY <1>1, Accepted
  <1>. QED BY <1>1, Correct, PTL DEF Spec, AnswersTheRequest

\* Until the first error a report is of the last START_MEASURE round, never of an
\* earlier load level or attempt (collectThroughputResults, collectLatencyResults).
THEOREM ReportsCorrect == Spec => FreshReports
  <1>1. ASSUME IInv, [Next]_vars
        PROVE  [\A a \in Agents :
                  (clean /\ got'[a] # got[a] /\ Round \in {"probeThr", "thr", "lat"}) =>
                    /\ got'[a].kind = (IF Round = "lat" THEN "lat" ELSE "thr")
                    /\ got'[a].epoch = measureNo]_got
    <2>1. SUFFICES ASSUME NEW a \in Agents, clean, got'[a] # got[a],
                          Round \in {"probeThr", "thr", "lat"}
                   PROVE  /\ got'[a].kind = (IF Round = "lat" THEN "lat" ELSE "thr")
                          /\ got'[a].epoch = measureNo
      OBVIOUS
    <2>2. RightKind(got'[a]) /\ (got'[a].kind \in {"thr", "lat"} => got'[a].epoch = measureNo)
      BY <1>1, <2>1, Accepted
    <2>. QED BY <2>1, <2>2 DEF RightKind, Request
  <1>. QED BY <1>1, Correct, PTL DEF Spec, FreshReports

=============================================================================
