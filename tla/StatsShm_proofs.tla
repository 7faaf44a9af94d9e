--------------------------- MODULE StatsShm_proofs ---------------------------
(***************************************************************************)
(* Theorems about StatsShm, for any number of slots, samples wanted,       *)
(* measurements and adds that do not make a word wrap.                     *)
(*                                                                         *)
(* The thread is the only one to count.  So once a word has been cleared,  *)
(* and the clear has not been undone, it is exact but for one add the      *)
(* thread had begun before (CountInv); from that follow the number of      *)
(* requests (RequestsInv) and what the slots below the word hold           *)
(* (SamplesInv), then what a report made of it says.                       *)
(***************************************************************************)
EXTENDS StatsShm, FiniteSetTheorems, TLAPS

\* A word that has been cleared in this measurement, or in none so far.
IsCleared(w) ==
  CASE w = "reqs" -> clearing # Cleared
    [] w = "tx"   -> clearing \notin {Cleared, <<"tx", "lat">>}
    [] w = "lat"  -> clearing = <<>>

\* It can be relied on.
Live(w) == IsCleared(w) /\ ~Undone(w)

\* The thread is adding to w and has not counted yet, or has; it began before
\* this measurement.
Counting(w) == op = w /\ stage \in {"checked", "loaded"}
Counted(w) == op = w /\ stage \in {"stored", "undo", "undoLoaded"}
Old(w) == op = w /\ tag # no

Sampled == {"tx", "lat"}

\* The thread: latencies are not taken back, and every add has been begun.
ThreadInv ==
  /\ op = "reqs" => stage \in {"checked", "loaded"}
  /\ op = "lat" => stage \in {"checked", "loaded", "stored"}
  /\ op # "none" => adds > 0
  /\ counted + One(op = "reqs") <= adds

\* The manager: the words it still clears, and what it has not read yet.
PhaseInv ==
  /\ clearing \in {Cleared, <<"tx", "lat">>, <<"lat">>, <<>>}
  /\ mpc # "clear" => clearing = <<>>
  /\ mpc \in {"clear", "reqs"} => rep = NoReport
  /\ mpc = "tx" => rep.stale["tx"] = 0
  /\ mpc \in {"tx", "txSamples", "lat"} => rep.stale["lat"] = 0
  /\ mpc \notin {"clear", "idle"} => ~measure /\ rep.again = 0

\* A live word, what the thread has loaded of it, and an add begun before this
\* measurement.
CountInv(w) ==
  Live(w) =>
    /\ word[w] + One(Counting(w)) <= adds
    /\ op = w /\ stage = "loaded" => reg = word[w]
    /\ op = w /\ stage = "stored" =>
         reg + 1 = word[w] \/ (late[w] = "stored" /\ word[w] = 0)
    /\ op = w /\ stage = "undo" => reg + 1 = word[w]
    /\ op = w /\ stage = "undoLoaded" => reg = word[w] /\ word[w] > 0
    /\ Old(w) => \/ late[w] = "checked" /\ word[w] = One(Counted(w))
                 \/ late[w] = "stored" /\ stage = "stored" /\ word[w] = 0

\* A live word of requests is ahead of them by one add at most.
RequestsInv ==
  Live("reqs") =>
    /\ counted <= word["reqs"]
    /\ word["reqs"] + One(Old("reqs")) <= counted + One(late["reqs"] = "checked")

\* A slot below a live word holds a sample of this measurement, or the first
\* add was begun before it, or it is about to be written.
SamplesInv(w) ==
  Live(w) => \A i \in Index : i < word[w] =>
    \/ sample[w][i] = no
    \/ i = 0 /\ late[w] = "checked"
    \/ Counted(w) /\ i = word[w] - 1

\* So it was when the word was read, and so it is now.
ReportInv(w) ==
  Live(w) =>
    /\ \A i \in Index : i < rep.value[w] =>
         \/ sample[w][i] = no
         \/ i = 0 /\ late[w] = "checked"
         \/ /\ rep.during[w] \in {"stored", "undo", "undoLoaded"}
            /\ i = rep.value[w] - 1
    /\ Old(w) /\ late[w] = "stored" => rep.value[w] = 0

\* Nothing is begun while a report is read: one add may be counted at most.
SettledInv ==
  Live("lat") /\ mpc \in {"latSamples", "iid"} =>
    /\ rep.value["lat"] <= word["lat"]
    /\ word["lat"] + One(Counting("lat")) <= rep.value["lat"] + 1

-----------------------------------------------------------------------------
(* Constants, sequences of words, and types.                               *)

LEMMA Constants ==
  /\ Slots \in Nat /\ Slots > 0 /\ PerThread \in Nat /\ PerThread > 0
  /\ Wrap \in Nat /\ Slots < Wrap /\ MaxAdds < Wrap - 1
  /\ MaxMeasurements \in Nat /\ MaxAdds \in Nat
  BY StatsAssumption

LEMMA ClearingSteps ==
  ASSUME PhaseInv, clearing # <<>>
  PROVE  /\ Head(clearing) \in Words
         /\ Tail(clearing) \in {<<"tx", "lat">>, <<"lat">>, <<>>}
         /\ \A q \in Words :
              IsCleared(q) \/ q = Head(clearing) <=>
                CASE q = "reqs" -> Tail(clearing) # Cleared
                  [] q = "tx"   -> Tail(clearing) \notin {Cleared, <<"tx", "lat">>}
                  [] q = "lat"  -> Tail(clearing) = <<>>
  <1>1. CASE clearing = Cleared
    BY <1>1 DEF Cleared, IsCleared, Words
  <1>2. CASE clearing = <<"tx", "lat">>
    BY <1>2 DEF Cleared, IsCleared, Words
  <1>3. CASE clearing = <<"lat">>
    BY <1>3 DEF Cleared, IsCleared, Words
  <1>. QED BY <1>1, <1>2, <1>3 DEF PhaseInv

SharedTypes ==
  /\ word \in [Words -> 0..Wrap - 1] /\ sample \in [Words -> [Index -> 0..no]]
  /\ measure \in BOOLEAN /\ no \in 0..MaxMeasurements

ThreadTypes ==
  /\ reg \in 0..Wrap - 1 /\ tag \in 0..no /\ prevSet \in BOOLEAN
  /\ op \in Words \cup {"none"} /\ stage \in Stages
  /\ op = "none" <=> stage = "none"
  /\ adds \in 0..MaxAdds /\ counted \in 0..adds

ReportType ==
  [value : [Words -> 0..Wrap - 1], stale : [Words -> 0..Slots],
   during : [Words -> Stages], counted : Nat, again : 0..Wrap - 1]

ManagerTypes ==
  /\ clearing \in Seq(Words) /\ late \in [Words -> Stages]
  /\ mpc \in {"idle", "clear", "reqs", "tx", "txSamples", "lat", "latSamples", "iid"}
  /\ rep \in ReportType

LEMMA TypeParts ==
  /\ TypeOK <=> SharedTypes /\ ThreadTypes /\ ManagerTypes
  /\ TypeOK' <=> SharedTypes' /\ ThreadTypes' /\ ManagerTypes'
  BY Zenon DEF TypeOK, SharedTypes, ThreadTypes, ManagerTypes, ReportType

\* What a step leaves alone keeps its type.
LEMMA TypesKept ==
  /\ SharedTypes /\ UNCHANGED <<word, sample, measure, no>> => SharedTypes'
  /\ ThreadTypes /\ UNCHANGED <<thread, counted, no>> => ThreadTypes'
  /\ ManagerTypes /\ UNCHANGED manager => ManagerTypes'
  BY Zenon DEF SharedTypes, ThreadTypes, ManagerTypes, ReportType, thread, manager

LEMMA NoReportTyped == NoReport \in ReportType
  BY Constants DEF NoReport, ReportType, Stages

LEMMA TypeInit == Init => TypeOK
  <1>. SUFFICES ASSUME Init PROVE TypeOK
    OBVIOUS
  <1>0. 0 \in 0..Wrap - 1 /\ 0 \in 0..MaxMeasurements /\ 0 \in 0..MaxAdds /\ 0 \in 0..0
    BY Constants
  <1>1. SharedTypes
    BY <1>0 DEF Init, SharedTypes
  <1>2. ThreadTypes
    BY <1>0 DEF Init, ThreadTypes, Stages
  <1>3. ManagerTypes
    BY NoReportTyped DEF Init, ManagerTypes, Stages
  <1>. QED BY <1>1, <1>2, <1>3, TypeParts

LEMMA MinOfTwo ==
  ASSUME NEW a \in Nat, NEW b \in Nat
  PROVE  Min({a, b} \cup {}) \in Nat /\ Min({a, b} \cup {}) <= a /\ Min({a, b} \cup {}) <= b
  <1>. DEFINE S == {a, b} \cup {}
  <1>1. \E x \in S : \A y \in S : x <= y
    <2>1. CASE a <= b
      BY <2>1
    <2>2. CASE b <= a
      BY <2>2
    <2>. QED BY <2>1, <2>2
  <1>2. Min(S) \in S /\ \A y \in S : Min(S) <= y
    <2>. HIDE DEF S
    <2>. QED BY <1>1, Zenon DEF Min
  <1>. QED BY <1>2

LEMMA MinOfThree ==
  ASSUME NEW a \in Nat, NEW b \in Nat, NEW c \in Nat
  PROVE  /\ Min({a, b} \cup {c}) \in Nat
         /\ Min({a, b} \cup {c}) <= a /\ Min({a, b} \cup {c}) <= b
  <1>. DEFINE S == {a, b} \cup {c}
  <1>1. \E x \in S : \A y \in S : x <= y
    <2>1. CASE a <= b /\ a <= c
      BY <2>1
    <2>2. CASE b <= a /\ b <= c
      BY <2>2
    <2>3. CASE c <= a /\ c <= b
      BY <2>3
    <2>. QED BY <2>1, <2>2, <2>3
  <1>2. Min(S) \in S /\ \A y \in S : Min(S) <= y
    <2>. HIDE DEF S
    <2>. QED BY <1>1, Zenon DEF Min
  <1>. QED BY <1>2

\* The manager reads no more samples than a word counts and slots there are.
LEMMA WantedRange ==
  ASSUME TypeOK, NEW w \in Sampled
  PROVE  Wanted(w) \in Nat /\ Wanted(w) <= rep.value[w] /\ Wanted(w) <= Slots
  <1>1. rep.value[w] \in Nat
    BY TypeParts, Constants DEF ManagerTypes, ReportType, Words, Sampled
  <1>2. CASE w = "lat"
    <2>1. Wanted(w) = Min({rep.value[w], Slots} \cup {PerThread})
      BY <1>2 DEF Wanted
    <2>. QED BY <1>1, <2>1, MinOfThree, Constants
  <1>3. CASE w # "lat"
    <2>1. Wanted(w) = Min({rep.value[w], Slots} \cup {})
      BY <1>3 DEF Wanted
    <2>. QED BY <1>1, <2>1, MinOfTwo, Constants
  <1>. QED BY <1>2, <1>3

LEMMA StaleRange ==
  ASSUME TypeOK, NEW w \in Sampled
  PROVE  Cardinality({i \in 0..Wanted(w) - 1 : sample[w][i] # no}) \in 0..Slots
  <1>1. Wanted(w) \in Nat /\ Wanted(w) <= Slots /\ Slots \in Nat
    BY WantedRange, Constants
  <1>. DEFINE n == Wanted(w)
              S == {i \in 0..n - 1 : sample[w][i] # no}
  <1>. HIDE DEF n
  <1>2. n \in Nat /\ n <= Slots /\ n - 1 \in Int
    BY <1>1 DEF n
  <1>3. IsFiniteSet(0..n - 1) /\ Cardinality(0..n - 1) = IF 0 > n - 1 THEN 0 ELSE n - 1 - 0 + 1
    BY <1>2, FS_Interval, 0 \in Int
  <1>4. S \in SUBSET (0..n - 1)
    OBVIOUS
  <1>5. IsFiniteSet(S) /\ Cardinality(S) <= Cardinality(0..n - 1)
    BY <1>3, <1>4, FS_Subset
  <1>6. Cardinality(S) \in Nat
    BY <1>5, FS_CardinalityType
  <1>. QED BY <1>1, <1>2, <1>3, <1>5, <1>6 DEF n

-----------------------------------------------------------------------------
(* Types, and the phases of thread and manager, from step to step.         *)

Base == TypeOK /\ ThreadInv /\ PhaseInv

LEMMA ThreadKept ==
  /\ ThreadInv /\ UNCHANGED <<op, stage, adds, counted>> => ThreadInv'
  /\ PhaseInv /\ UNCHANGED <<clearing, mpc, rep, measure>> => PhaseInv'
  BY DEF ThreadInv, PhaseInv, One

LEMMA BaseParts ==
  ASSUME Base
  PROVE  /\ SharedTypes /\ ThreadTypes /\ ManagerTypes /\ ThreadInv /\ PhaseInv
         /\ adds \in Nat /\ adds <= MaxAdds /\ counted \in Nat /\ counted <= adds
         /\ no \in Nat /\ reg \in Nat
  BY TypeParts, Constants DEF Base, ThreadTypes, SharedTypes

LEMMA BaseInit == Init => Base
  <1>. SUFFICES ASSUME Init PROVE Base
    OBVIOUS
  <1>1. ThreadInv
    BY DEF Init, ThreadInv, One
  <1>2. PhaseInv
    BY DEF Init, PhaseInv, NoReport
  <1>. QED BY <1>1, <1>2, TypeInit DEF Base

LEMMA BeginBase ==
  ASSUME Base, NEW w \in Words, Begin(w)
  PROVE  Base'
  <1>. USE BaseParts, Constants
  <1>1. ThreadTypes' /\ ThreadInv'
    BY DEF Begin, ThreadTypes, ThreadInv, Stages, Words, One
  <1>2. SharedTypes' /\ ManagerTypes' /\ PhaseInv'
    BY TypesKept, ThreadKept DEF Begin, manager
  <1>. QED BY <1>1, <1>2, TypeParts DEF Base

LEMMA NotSampledBase ==
  ASSUME Base, NotSampled
  PROVE  Base'
  <1>. USE BaseParts, Constants
  <1>1. ThreadTypes'
    BY DEF NotSampled, ThreadTypes
  <1>2. SharedTypes' /\ ManagerTypes' /\ PhaseInv' /\ ThreadInv'
    BY TypesKept, ThreadKept DEF NotSampled, manager
  <1>. QED BY <1>1, <1>2, TypeParts DEF Base

LEMMA LoadBase ==
  ASSUME Base, Load
  PROVE  Base'
  <1>. USE BaseParts, Constants
  <1>1. op \in Words
    BY DEF Load, ThreadTypes
  <1>2. word[op] \in 0..Wrap - 1
    BY <1>1 DEF SharedTypes
  <1>3. ThreadTypes' /\ ThreadInv'
    BY <1>1, <1>2 DEF Load, ThreadTypes, ThreadInv, Stages, One
  <1>4. SharedTypes' /\ ManagerTypes' /\ PhaseInv'
    BY TypesKept, ThreadKept DEF Load, manager
  <1>. QED BY <1>3, <1>4, TypeParts DEF Base

LEMMA StoreBase ==
  ASSUME Base, Store
  PROVE  Base'
  <1>. USE BaseParts, Constants
  <1>1. op \in Words /\ stage = "loaded"
    BY DEF Store, ThreadTypes
  <1>2. (reg + 1) % Wrap \in 0..Wrap - 1
    OBVIOUS
  <1>3. SharedTypes'
    BY <1>1, <1>2 DEF Store, SharedTypes
  <1>6. ManagerTypes' /\ PhaseInv'
    BY TypesKept, ThreadKept DEF Store, manager
  <1>7. ThreadTypes' /\ ThreadInv'
    <2>1. CASE op = "reqs"
      <3>1. /\ op' = "none" /\ stage' = "none" /\ reg' = 0 /\ tag' = 0
            /\ adds' = adds /\ UNCHANGED <<prevSet, no>>
            /\ counted' \in {counted, counted + 1}
        BY <2>1 DEF Store, Idle
      <3>2. counted + 1 <= adds
        BY <2>1 DEF ThreadInv, One
      <3>3. ThreadTypes'
        BY <3>1, <3>2 DEF ThreadTypes, Stages
      <3>. QED BY <3>1, <3>2, <3>3 DEF ThreadInv, One
    <2>2. CASE op # "reqs"
      <3>1. counted' = counted /\ adds' = adds /\ UNCHANGED <<op, reg, tag, prevSet, no>>
        BY <2>2 DEF Store
      <3>2. stage' = IF op = "tx" /\ ~prevSet THEN "undo" ELSE "stored"
        BY <2>2 DEF Store
      <3>3. ThreadTypes'
        BY <1>1, <3>1, <3>2 DEF ThreadTypes, Stages
      <3>. QED BY <1>1, <2>2, <3>1, <3>2, <3>3 DEF ThreadInv, One, Words
    <2>. QED BY <2>1, <2>2
  <1>. QED BY <1>3, <1>6, <1>7, TypeParts DEF Base

LEMMA WriteSampleBase ==
  ASSUME Base, WriteSample
  PROVE  Base'
  <1>. USE BaseParts, Constants
  <1>1. op \in Words /\ reg % Slots \in Index /\ tag \in 0..no
    BY DEF WriteSample, ThreadTypes, Index
  <1>2. sample' \in [Words -> [Index -> 0..no]]
    <2>1. [sample[op] EXCEPT ![reg % Slots] = tag] \in [Index -> 0..no]
      BY <1>1 DEF SharedTypes
    <2>. QED BY <1>1, <2>1 DEF WriteSample, SharedTypes
  <1>3. SharedTypes'
    BY <1>2 DEF WriteSample, SharedTypes
  <1>4. ThreadTypes' /\ ThreadInv'
    BY DEF WriteSample, Idle, ThreadTypes, ThreadInv, Stages, One
  <1>5. ManagerTypes' /\ PhaseInv'
    BY TypesKept, ThreadKept DEF WriteSample, manager
  <1>. QED BY <1>3, <1>4, <1>5, TypeParts DEF Base

LEMMA StoreUndoBase ==
  ASSUME Base, StoreUndo
  PROVE  Base'
  <1>. USE BaseParts, Constants
  <1>1. op \in Words
    BY DEF StoreUndo, ThreadTypes
  <1>2. LessOne(reg) \in 0..Wrap - 1
    BY DEF LessOne
  <1>3. SharedTypes'
    BY <1>1, <1>2 DEF StoreUndo, SharedTypes
  <1>4. ThreadTypes' /\ ThreadInv'
    BY DEF StoreUndo, Idle, ThreadTypes, ThreadInv, Stages, One
  <1>5. ManagerTypes' /\ PhaseInv'
    BY TypesKept, ThreadKept DEF StoreUndo, manager
  <1>. QED BY <1>3, <1>4, <1>5, TypeParts DEF Base

LEMMA StartLoadBase ==
  ASSUME Base, StartLoad
  PROVE  Base'
  <1>. USE BaseParts
  <1>1. SharedTypes' /\ PhaseInv'
    BY DEF StartLoad, SharedTypes, PhaseInv, manager
  <1>2. ThreadTypes' /\ ManagerTypes' /\ ThreadInv'
    BY TypesKept, ThreadKept DEF StartLoad, thread
  <1>. QED BY <1>1, <1>2, TypeParts DEF Base

LEMMA StartMeasureBase ==
  ASSUME Base, StartMeasure
  PROVE  Base'
  <1>. USE BaseParts, Constants
  <1>1. no' = no + 1 /\ no' \in 0..MaxMeasurements
    BY DEF StartMeasure
  <1>2. [Index -> 0..no] \subseteq [Index -> 0..no']
    BY <1>1
  <1>3. SharedTypes'
    BY <1>1, <1>2 DEF StartMeasure, SharedTypes
  <1>4. ThreadTypes' /\ ThreadInv'
    BY <1>1 DEF StartMeasure, thread, ThreadTypes, ThreadInv, One
  <1>5. ManagerTypes'
    BY NoReportTyped DEF StartMeasure, ManagerTypes, Cleared, Words, Stages
  <1>6. PhaseInv'
    BY DEF StartMeasure, PhaseInv
  <1>. QED BY <1>3, <1>4, <1>5, <1>6, TypeParts DEF Base

LEMMA ClearWordBase ==
  ASSUME Base, ClearWord
  PROVE  Base'
  <1>. USE BaseParts, Constants
  <1>1. /\ Head(clearing) \in Words
        /\ clearing' \in {<<"tx", "lat">>, <<"lat">>, <<>>}
    BY ClearingSteps DEF ClearWord
  <1>2. SharedTypes'
    <2>1. word' = [word EXCEPT ![Head(clearing)] = 0] /\ 0 \in 0..Wrap - 1
      BY DEF ClearWord
    <2>. QED BY <1>1, <2>1 DEF ClearWord, SharedTypes
  <1>3. ThreadTypes' /\ ThreadInv'
    <2>1. counted' \in {0, counted} /\ UNCHANGED <<op, stage, reg, tag, prevSet, adds, no>>
      BY DEF ClearWord, thread
    <2>2. ThreadTypes'
      BY <2>1 DEF ThreadTypes
    <2>3. counted' + One(op' = "reqs") <= adds'
      BY <2>1 DEF ThreadInv, One
    <2>4. ThreadInv'
      BY <2>1, <2>3 DEF ThreadInv, One
    <2>. QED BY <2>2, <2>4
  <1>4. ManagerTypes'
    <2>1. clearing' \in Seq(Words)
      <3>1. clearing \in Seq(Words) /\ clearing # <<>> /\ clearing' = Tail(clearing)
        BY DEF ClearWord, ManagerTypes
      <3>. QED BY ONLY <3>1
    <2>2. late' = [late EXCEPT ![Head(clearing)] =
                     IF op = Head(clearing) THEN stage ELSE "none"]
      BY DEF ClearWord
    <2>3. late' \in [Words -> Stages]
      BY <1>1, <2>2 DEF ManagerTypes, ThreadTypes, Stages
    <2>. QED BY <2>1, <2>3 DEF ClearWord, ManagerTypes
  <1>5. PhaseInv'
    BY <1>1 DEF ClearWord, PhaseInv
  <1>. QED BY <1>2, <1>3, <1>4, <1>5, TypeParts DEF Base

LEMMA RaiseMeasureBase ==
  ASSUME Base, RaiseMeasure
  PROVE  Base'
  <1>. USE BaseParts
  <1>1. SharedTypes' /\ ManagerTypes'
    BY DEF RaiseMeasure, SharedTypes, ManagerTypes
  <1>2. PhaseInv'
    BY DEF RaiseMeasure, PhaseInv
  <1>3. ThreadTypes' /\ ThreadInv'
    BY TypesKept, ThreadKept DEF RaiseMeasure, thread
  <1>. QED BY <1>1, <1>2, <1>3, TypeParts DEF Base

LEMMA GetStatsBase ==
  ASSUME Base, GetStats
  PROVE  Base'
  <1>. USE BaseParts
  <1>1. SharedTypes' /\ ManagerTypes'
    BY NoReportTyped DEF GetStats, WhileReading, SharedTypes, ManagerTypes
  <1>2. PhaseInv'
    BY DEF GetStats, WhileReading, PhaseInv, NoReport
  <1>3. ThreadTypes' /\ ThreadInv'
    BY TypesKept, ThreadKept DEF GetStats, thread
  <1>. QED BY <1>1, <1>2, <1>3, TypeParts DEF Base

\* What reading a word does to the report.
LEMMA ReadWordReport ==
  ASSUME Base, NEW w \in Words, ReadWord(w)
  PROVE  /\ rep' \in ReportType /\ rep'.stale = rep.stale /\ rep'.again = rep.again
         /\ rep'.value = [rep.value EXCEPT ![w] = word[w]]
         /\ rep'.during = [rep.during EXCEPT ![w] = IF op = w THEN stage ELSE "none"]
         /\ rep'.counted = IF w = "reqs" THEN counted ELSE rep.counted
  <1>. USE BaseParts
  <1>1. rep \in ReportType /\ word[w] \in 0..Wrap - 1 /\ stage \in Stages /\ "none" \in Stages
    BY DEF ManagerTypes, SharedTypes, ThreadTypes, Stages
  <1>2. rep' = [rep EXCEPT !.value = [rep.value EXCEPT ![w] = word[w]],
                           !.counted = IF w = "reqs" THEN counted ELSE rep.counted,
                           !.during = [rep.during EXCEPT ![w] = IF op = w THEN stage
                                                                ELSE "none"]]
    BY DEF ReadWord
  <1>3. /\ [rep.value EXCEPT ![w] = word[w]] \in [Words -> 0..Wrap - 1]
        /\ [rep.during EXCEPT ![w] = IF op = w THEN stage ELSE "none"] \in [Words -> Stages]
    BY <1>1 DEF ReportType
  <1>. QED BY <1>1, <1>2, <1>3 DEF ReportType

LEMMA ReadWordBase ==
  ASSUME Base, NEW w \in Words, ReadWord(w)
  PROVE  Base'
  <1>. USE BaseParts
  <1>1. ManagerTypes'
    BY ReadWordReport DEF ReadWord, ManagerTypes, Words
  <1>2. PhaseInv'
    BY ReadWordReport DEF ReadWord, PhaseInv, Words, NoReport
  <1>3. SharedTypes' /\ ThreadTypes' /\ ThreadInv'
    BY TypesKept, ThreadKept DEF ReadWord, thread
  <1>. QED BY <1>1, <1>2, <1>3, TypeParts DEF Base

\* What reading its samples does.
LEMMA ReadSamplesReport ==
  ASSUME Base, NEW w \in Sampled, ReadSamples(w)
  PROVE  /\ rep' \in ReportType /\ rep'.value = rep.value /\ rep'.again = rep.again
         /\ rep'.during = rep.during /\ rep'.counted = rep.counted
         /\ rep'.stale = [rep.stale EXCEPT ![w] =
              Cardinality({i \in 0..Wanted(w) - 1 : sample[w][i] # no})]
  <1>. DEFINE n == Cardinality({i \in 0..Wanted(w) - 1 : sample[w][i] # no})
  <1>1. rep \in ReportType /\ n \in 0..Slots /\ w \in Words
    BY BaseParts, StaleRange DEF Base, ManagerTypes, Sampled, Words
  <1>2. rep' = [rep EXCEPT !.stale = [rep.stale EXCEPT ![w] = n]]
    BY DEF ReadSamples
  <1>. HIDE DEF n
  <1>3. [rep.stale EXCEPT ![w] = n] \in [Words -> 0..Slots]
    BY <1>1 DEF ReportType
  <1>4. /\ rep' \in ReportType /\ rep'.value = rep.value /\ rep'.again = rep.again
        /\ rep'.during = rep.during /\ rep'.counted = rep.counted
        /\ rep'.stale = [rep.stale EXCEPT ![w] = n]
    BY <1>1, <1>2, <1>3 DEF ReportType
  <1>. QED BY <1>4 DEF n

LEMMA ReadSamplesBase ==
  ASSUME Base, NEW w \in Sampled, ReadSamples(w)
  PROVE  Base'
  <1>. USE BaseParts
  <1>1. /\ rep' \in ReportType /\ rep'.again = rep.again /\ (w = "tx" => rep'.stale["lat"] = rep.stale["lat"])
    BY ReadSamplesReport DEF ManagerTypes, ReportType, Words
  <1>2. ManagerTypes'
    BY <1>1 DEF ReadSamples, ManagerTypes
  <1>3. PhaseInv'
    BY <1>1 DEF ReadSamples, PhaseInv, Sampled
  <1>4. SharedTypes' /\ ThreadTypes' /\ ThreadInv'
    BY TypesKept, ThreadKept DEF ReadSamples, thread
  <1>. QED BY <1>2, <1>3, <1>4, TypeParts DEF Base

LEMMA ReadAgainReport ==
  ASSUME Base, ReadAgain
  PROVE  /\ rep' \in ReportType /\ rep'.value = rep.value /\ rep'.stale = rep.stale
         /\ rep'.during = rep.during /\ rep'.counted = rep.counted
         /\ rep'.again = word["lat"]
  <1>1. rep \in ReportType /\ word["lat"] \in 0..Wrap - 1
    BY BaseParts DEF ManagerTypes, SharedTypes, Words
  <1>. QED BY <1>1 DEF ReadAgain, ReportType

LEMMA ReadAgainBase ==
  ASSUME Base, ReadAgain
  PROVE  Base'
  <1>. USE BaseParts
  <1>1. ManagerTypes' /\ PhaseInv'
    BY ReadAgainReport DEF ReadAgain, ManagerTypes, PhaseInv
  <1>2. SharedTypes' /\ ThreadTypes' /\ ThreadInv'
    BY TypesKept, ThreadKept DEF ReadAgain, thread
  <1>. QED BY <1>1, <1>2, TypeParts DEF Base

LEMMA BaseStep == Base /\ [Next]_vars => Base'
  <1>. SUFFICES ASSUME Base, [Next]_vars PROVE Base'
    OBVIOUS
  <1>1. CASE UNCHANGED vars
    BY <1>1, BaseParts, TypesKept, ThreadKept, TypeParts DEF vars, thread, manager, Base
  <1>2. CASE Thread
    BY <1>2, BeginBase, NotSampledBase, LoadBase, StoreBase, WriteSampleBase, StoreUndoBase
       DEF Thread
  <1>3. CASE Manager
    BY <1>3, StartLoadBase, StartMeasureBase, ClearWordBase, RaiseMeasureBase, GetStatsBase,
       ReadWordBase, ReadSamplesBase, ReadAgainBase DEF Manager, Sampled
  <1>. QED BY <1>1, <1>2, <1>3 DEF Next

LEMMA BaseCorrect == Spec => []Base
  BY BaseInit, BaseStep, PTL DEF Spec

\* Every variable keeps its type; no counter leaves its width (stats.c).
THEOREM TypeCorrect == Spec => []TypeOK
  <1>1. Base => TypeOK
    BY DEF Base
  <1>. QED BY <1>1, BaseCorrect, PTL

-----------------------------------------------------------------------------
(* A live word counts every add but one that was begun before.             *)

LEMMA LiveKept ==
  ASSUME UNCHANGED <<clearing, late>>
  PROVE  \A q \in Words : Live(q)' <=> Live(q)
  BY Zenon DEF Live, IsCleared, Undone

\* What can be read of a word.
LEMMA WordTypes ==
  ASSUME Base, NEW q \in Words
  PROVE  word[q] \in Nat /\ word[q] < Wrap /\ rep.value[q] \in Nat /\ rep.stale[q] \in Nat
  BY BaseParts, Constants DEF SharedTypes, ManagerTypes, ReportType

\* Clearing a word leaves the others as they were; it is live itself unless the
\* clear is undone.
LEMMA ClearedWord ==
  ASSUME Base, ClearWord, NEW q \in Words
  PROVE  /\ q # Head(clearing) =>
              /\ Live(q)' <=> Live(q)
              /\ word'[q] = word[q] /\ late'[q] = late[q]
              /\ q = "reqs" => counted' = counted
         /\ q = Head(clearing) =>
              /\ word'[q] = 0 /\ late'[q] = (IF op = q THEN stage ELSE "none")
              /\ Live(q)' => late'[q] \notin {"loaded", "undo", "undoLoaded"}
              /\ q = "reqs" => counted' = 0
         /\ mpc = "clear" /\ mpc' = "clear" /\ rep = NoReport /\ rep' = NoReport
         /\ UNCHANGED <<sample, op, stage, reg, tag, adds, no>>
  <1>. DEFINE w == Head(clearing)
  <1>1. w \in Words /\ clearing # <<>> /\ clearing' = Tail(clearing)
    BY BaseParts, ClearingSteps DEF ClearWord
  <1>2. IsCleared(q)' <=> IsCleared(q) \/ q = w
    BY <1>1, BaseParts, ClearingSteps DEF IsCleared, Cleared
  <1>3. /\ word' = [word EXCEPT ![w] = 0]
        /\ late' = [late EXCEPT ![w] = IF op = w THEN stage ELSE "none"]
        /\ counted' = IF w = "reqs" THEN 0 ELSE counted
        /\ UNCHANGED <<sample, op, stage, reg, tag, adds, no>>
    BY DEF ClearWord, thread
  <1>4. DOMAIN word = Words /\ DOMAIN late = Words
    BY BaseParts DEF SharedTypes, ManagerTypes
  <1>5. rep = NoReport /\ rep' = NoReport /\ mpc = "clear" /\ mpc' = "clear"
    BY BaseParts DEF ClearWord, PhaseInv
  <1>6. CASE q # w
    <2>1. word'[q] = word[q] /\ late'[q] = late[q] /\ (q = "reqs" => counted' = counted)
      BY <1>3, <1>4, <1>6
    <2>. QED BY <1>2, <1>3, <1>5, <1>6, <2>1 DEF Live, Undone
  <1>7. CASE q = w
    <2>1. word'[q] = 0 /\ late'[q] = IF op = q THEN stage ELSE "none"
      BY <1>3, <1>4, <1>7
    <2>. QED BY <1>2, <1>3, <1>5, <1>7, <2>1 DEF Live, Undone
  <1>. QED BY <1>6, <1>7

\* A step of the thread on another word leaves a word as it is.
LEMMA CountElsewhere ==
  ASSUME NEW q \in Words, CountInv(q), Base, UNCHANGED <<clearing, late>>,
         op # q, op' # q, word'[q] = word[q], adds' \in Nat, adds <= adds'
  PROVE  CountInv(q)'
  <1>1. Live(q)' <=> Live(q)
    BY LiveKept
  <1>2. CASE Live(q)
    <2>1. word[q] <= adds
      BY <1>2, WordTypes, BaseParts DEF CountInv, Counting, One
    <2>2. word'[q] + One(Counting(q)') <= adds'
      BY <2>1, WordTypes, BaseParts DEF Counting, One
    <2>. QED BY <2>2 DEF CountInv, Counting, Old, One
  <1>. QED BY <1>1, <1>2 DEF CountInv

LEMMA CountKept ==
  ASSUME NEW q \in Words, CountInv(q),
         UNCHANGED <<word, clearing, late, op, stage, reg, tag, no, adds>>
  PROVE  CountInv(q)'
  <1>1. Live(q)' <=> Live(q)
    BY LiveKept
  <1>. QED BY <1>1 DEF CountInv, Counting, Counted, Old, One

LEMMA BeginCount ==
  ASSUME Base, NEW q \in Words, CountInv(q), NEW w \in Words, Begin(w)
  PROVE  CountInv(q)'
  <1>1. /\ op = "none" /\ op' = w /\ stage' = "checked" /\ tag' = no /\ no' = no
        /\ adds' = adds + 1 /\ word' = word /\ UNCHANGED <<clearing, late>>
    BY DEF Begin, manager
  <1>2. Live(q)' <=> Live(q)
    BY <1>1, LiveKept
  <1>3. op # q
    BY <1>1 DEF Words
  <1>4. CASE Live(q)
    <2>1. word[q] <= adds
      BY <1>3, <1>4, WordTypes, BaseParts DEF CountInv, Counting, One
    <2>2. word'[q] + One(Counting(q)') <= adds'
      BY <1>1, <2>1, WordTypes, BaseParts DEF One
    <2>. QED BY <1>1, <2>2 DEF CountInv, Old
  <1>. QED BY <1>2, <1>4 DEF CountInv

LEMMA LoadCount ==
  ASSUME Base, NEW q \in Words, CountInv(q), Load
  PROVE  CountInv(q)'
  <1>1. /\ UNCHANGED <<word, no, op, tag, adds, clearing, late>>
        /\ reg' = word[op]
        /\ \/ stage = "checked" /\ stage' = "loaded"
           \/ stage = "undo" /\ stage' = "undoLoaded"
    BY DEF Load, manager
  <1>2. Live(q)' <=> Live(q)
    BY <1>1, LiveKept
  <1>3. CASE Live(q) /\ op = q
    <2>1. CASE stage = "checked"
      BY <1>1, <1>3, <2>1 DEF CountInv, Counting, Counted, Old, One
    <2>2. CASE stage = "undo"
      <3>1. word[q] > 0
        BY <1>3, <2>2, WordTypes, BaseParts DEF CountInv
      <3>. QED BY <1>1, <1>3, <2>2, <3>1 DEF CountInv, Counting, Counted, Old, One
    <2>. QED BY <1>1, <2>1, <2>2
  <1>4. CASE op # q
    BY <1>1, <1>4, CountElsewhere, BaseParts
  <1>. QED BY <1>2, <1>3, <1>4 DEF CountInv

\* Storing adds one to a live word.
LEMMA StoreLive ==
  ASSUME Base, NEW q \in Words, CountInv(q), Live(q), op = q, Store
  PROVE  reg = word[q] /\ word'[q] = word[q] + 1 /\ word'[q] <= adds /\ adds' = adds
  <1>1. stage = "loaded" /\ reg = word[q]
    BY DEF CountInv, Store
  <1>2. word[q] + 1 <= adds
    BY <1>1 DEF CountInv, Counting, One
  <1>3. word[q] + 1 < Wrap
    BY <1>2, WordTypes, BaseParts, Constants
  <1>4. (reg + 1) % Wrap = word[q] + 1
    BY <1>1, <1>3, WordTypes, Constants
  <1>5. word'[q] = (reg + 1) % Wrap
    BY BaseParts DEF Store, SharedTypes
  <1>. QED BY <1>1, <1>2, <1>4, <1>5 DEF Store

LEMMA StoreCount ==
  ASSUME Base, NEW q \in Words, CountInv(q), Store
  PROVE  CountInv(q)'
  <1>1. /\ stage = "loaded" /\ UNCHANGED <<no, adds, clearing, late>>
        /\ \/ op = "reqs" /\ op' = "none"
           \/ /\ op # "reqs" /\ UNCHANGED <<op, reg, tag>>
              /\ stage' \in {"undo", "stored"}
    BY DEF Store, Idle, manager
  <1>2. Live(q)' <=> Live(q)
    BY <1>1, LiveKept
  <1>3. CASE Live(q) /\ op = q
    <2>1. reg = word[q] /\ word'[q] = word[q] + 1 /\ word'[q] <= adds'
      BY <1>3, StoreLive
    <2>2. Old(q) => late[q] = "checked" /\ word[q] = 0
      BY <1>1, <1>3 DEF CountInv, Counted, One
    <2>3. CASE op = "reqs"
      BY <1>1, <1>3, <2>1, <2>3, WordTypes, BaseParts DEF CountInv, Counting, Counted, Old, One
    <2>4. CASE op # "reqs"
      BY <1>1, <1>3, <2>1, <2>2, <2>4, WordTypes, BaseParts
         DEF CountInv, Counting, Counted, Old, One
    <2>. QED BY <2>3, <2>4
  <1>4. CASE op # q
    <2>1. op' # q
      BY <1>1, <1>4 DEF Words
    <2>2. word'[q] = word[q]
      BY <1>4, BaseParts DEF Store, SharedTypes
    <2>. QED BY <1>1, <1>4, <2>1, <2>2, CountElsewhere, BaseParts
  <1>. QED BY <1>2, <1>3, <1>4 DEF CountInv

LEMMA WriteSampleCount ==
  ASSUME Base, NEW q \in Words, CountInv(q), WriteSample
  PROVE  CountInv(q)'
  <1>1. /\ stage = "stored" /\ op' = "none" /\ stage' = "none"
        /\ UNCHANGED <<word, no, adds, clearing, late>>
    BY DEF WriteSample, Idle, manager
  <1>2. Live(q)' <=> Live(q)
    BY <1>1, LiveKept
  <1>3. "none" # q
    BY DEF Words
  <1>4. CASE Live(q)
    <2>1. word[q] <= adds
      BY <1>1, <1>4, WordTypes, BaseParts DEF CountInv, Counting, One
    <2>. QED BY <1>1, <1>3, <2>1, WordTypes, BaseParts DEF CountInv, Counting, Old, One
  <1>. QED BY <1>2, <1>4 DEF CountInv

LEMMA StoreUndoLive ==
  ASSUME Base, NEW q \in Words, CountInv(q), Live(q), op = q, StoreUndo
  PROVE  word[q] > 0 /\ word'[q] = word[q] - 1 /\ word[q] <= adds
  <1>1. stage = "undoLoaded" /\ reg = word[q] /\ word[q] > 0 /\ word[q] <= adds
    BY WordTypes, BaseParts DEF CountInv, StoreUndo, Counting, One
  <1>2. (reg - 1) % Wrap = word[q] - 1
    BY <1>1, WordTypes, Constants
  <1>3. word'[q] = (reg - 1) % Wrap
    BY BaseParts DEF StoreUndo, LessOne, SharedTypes
  <1>. QED BY <1>1, <1>2, <1>3

LEMMA StoreUndoCount ==
  ASSUME Base, NEW q \in Words, CountInv(q), StoreUndo
  PROVE  CountInv(q)'
  <1>1. /\ stage = "undoLoaded" /\ op' = "none" /\ stage' = "none"
        /\ UNCHANGED <<no, adds, clearing, late>>
    BY DEF StoreUndo, Idle, manager
  <1>2. Live(q)' <=> Live(q)
    BY <1>1, LiveKept
  <1>3. "none" # q
    BY DEF Words
  <1>4. CASE Live(q) /\ op = q
    BY <1>1, <1>3, <1>4, StoreUndoLive, WordTypes, BaseParts DEF CountInv, Counting, Old, One
  <1>5. CASE op # q
    <2>1. word'[q] = word[q]
      BY <1>5, BaseParts DEF StoreUndo, SharedTypes
    <2>. QED BY <1>1, <1>3, <1>5, <2>1, CountElsewhere, BaseParts
  <1>. QED BY <1>2, <1>4, <1>5 DEF CountInv

LEMMA StartMeasureNotLive ==
  ASSUME StartMeasure, NEW q \in Words
  PROVE  ~Live(q)'
  BY DEF StartMeasure, Live, IsCleared, Cleared, Words

LEMMA ClearWordCount ==
  ASSUME Base, NEW q \in Words, CountInv(q), ClearWord
  PROVE  CountInv(q)'
  <1>1. CASE q # Head(clearing)
    <2>1. /\ Live(q)' <=> Live(q)
          /\ word'[q] = word[q] /\ late'[q] = late[q]
          /\ UNCHANGED <<op, stage, reg, tag, adds, no>>
      BY <1>1, ClearedWord
    <2>. QED BY <2>1 DEF CountInv, Counting, Counted, Old, One
  <1>2. CASE q = Head(clearing)
    <2>1. /\ word'[q] = 0 /\ late'[q] = (IF op = q THEN stage ELSE "none")
          /\ Live(q)' => late'[q] \notin {"loaded", "undo", "undoLoaded"}
          /\ UNCHANGED <<op, stage, reg, tag, adds, no>>
      BY <1>2, ClearedWord
    <2>2. op = q => adds > 0 /\ stage \in Stages \ {"none"}
      BY BaseParts DEF ThreadInv, ThreadTypes, Words
    <2>3. CASE Live(q)' /\ op = q
      <3>1. stage \in {"checked", "stored"}
        BY <2>1, <2>2, <2>3 DEF Stages
      <3>. QED BY <2>1, <2>2, <2>3, <3>1, BaseParts DEF CountInv, Counting, Counted, Old, One
    <2>4. CASE op # q
      BY <2>1, <2>4, BaseParts DEF CountInv, Counting, Old, One
    <2>. QED BY <2>3, <2>4 DEF CountInv
  <1>. QED BY <1>1, <1>2

\* Steps that only read, or change what the counting does not depend on.
Reads == \/ StartLoad \/ RaiseMeasure \/ GetStats \/ ReadAgain
         \/ (\E w \in Words : ReadWord(w)) \/ (\E w \in Sampled : ReadSamples(w))

LEMMA ReadsKeep ==
  ASSUME Reads \/ NotSampled \/ UNCHANGED vars
  PROVE  UNCHANGED <<word, sample, no, counted, op, stage, reg, tag, adds, clearing, late>>
  BY DEF Reads, NotSampled, StartLoad, RaiseMeasure, GetStats, ReadAgain, ReadWord,
         ReadSamples, vars, thread, manager

LEMMA CountStep ==
  ASSUME Base, [Next]_vars, NEW q \in Words, CountInv(q)
  PROVE  CountInv(q)'
  <1>1. CASE Thread
    BY <1>1, BeginCount, LoadCount, StoreCount, WriteSampleCount, StoreUndoCount,
       ReadsKeep, CountKept DEF Thread
  <1>2. CASE StartMeasure
    BY <1>2, StartMeasureNotLive DEF CountInv
  <1>3. CASE ClearWord
    BY <1>3, ClearWordCount
  <1>4. CASE Reads \/ UNCHANGED vars
    BY <1>4, ReadsKeep, CountKept
  <1>. QED BY <1>1, <1>2, <1>3, <1>4 DEF Next, Manager, Reads, Sampled

-----------------------------------------------------------------------------
(* Requests.                                                               *)

RequestsBase == Base /\ CountInv("reqs") /\ RequestsInv /\ RequestsCounted

LEMMA RequestsInit == Init => CountInv("reqs") /\ RequestsInv /\ RequestsCounted
  <1>. SUFFICES ASSUME Init PROVE CountInv("reqs") /\ RequestsInv /\ RequestsCounted
    OBVIOUS
  <1>1. /\ word["reqs"] = 0 /\ counted = 0 /\ op = "none" /\ adds = 0
        /\ rep.value["reqs"] = 0 /\ rep.counted = 0 /\ late["reqs"] = "none"
    BY DEF Init, Words, NoReport
  <1>. QED BY <1>1 DEF CountInv, RequestsInv, RequestsCounted, Counting, Old, One

\* An add that has been begun before this measurement is not counted.
LEMMA RequestsStep ==
  ASSUME RequestsBase, [Next]_vars
  PROVE  RequestsInv'
  <1>0. "reqs" \in Words /\ Base /\ CountInv("reqs")
    BY DEF Words, RequestsBase
  <1>. DEFINE q == "reqs"
  <1>1. CASE \E w \in Words : Begin(w)
    <2>1. /\ op = "none" /\ tag' = no' /\ UNCHANGED <<word, counted, clearing, late>>
      BY <1>1 DEF Begin, manager
    <2>2. Live(q)' <=> Live(q)
      BY <2>1, <1>0, LiveKept
    <2>. QED BY <2>1, <2>2 DEF RequestsBase, RequestsInv, Old, One
  <1>2. CASE Load
    <2>1. UNCHANGED <<op, tag, no, word, counted, clearing, late>>
      BY <1>2 DEF Load, manager
    <2>2. Live(q)' <=> Live(q)
      BY <2>1, <1>0, LiveKept
    <2>. QED BY <2>1, <2>2 DEF RequestsBase, RequestsInv, Old, One
  <1>3. CASE Store
    <2>1. UNCHANGED <<clearing, late>> /\ no' = no
      BY <1>3 DEF Store, manager
    <2>2. Live(q)' <=> Live(q)
      BY <2>1, <1>0, LiveKept
    <2>3. CASE Live(q) /\ op = q
      <3>1. word'[q] = word[q] + 1
        BY <1>0, <1>3, <2>3, StoreLive
      <3>2. op' = "none" /\ counted' = IF tag = no THEN counted + 1 ELSE counted
        BY <1>3, <2>3 DEF Store, Idle
      <3>. QED BY <1>0, <2>1, <2>2, <2>3, <3>1, <3>2, WordTypes, BaseParts
               DEF RequestsBase, RequestsInv, Old, One
    <2>4. CASE op # q
      <3>1. word'[q] = word[q] /\ counted' = counted /\ op' = op
        BY <1>0, <1>3, <2>4, BaseParts DEF Store, SharedTypes
      <3>. QED BY <2>1, <2>2, <2>4, <3>1 DEF RequestsBase, RequestsInv, Old, One
    <2>. QED BY <2>2, <2>3, <2>4 DEF RequestsInv
  <1>4. CASE WriteSample \/ StoreUndo
    <2>1. /\ UNCHANGED <<clearing, late, counted, no>> /\ op # q /\ op' = "none"
      BY <1>0, <1>4, BaseParts DEF WriteSample, StoreUndo, Idle, manager, ThreadInv
    <2>2. word'[q] = word[q]
      BY <1>0, <1>4, <2>1, BaseParts DEF WriteSample, StoreUndo, SharedTypes
    <2>3. Live(q)' <=> Live(q)
      BY <2>1, <1>0, LiveKept
    <2>. QED BY <2>1, <2>2, <2>3 DEF RequestsBase, RequestsInv, Old, One
  <1>5. CASE StartMeasure
    BY <1>0, <1>5, StartMeasureNotLive DEF RequestsInv
  <1>6. CASE ClearWord
    <2>1. CASE q # Head(clearing)
      <3>1. /\ Live(q)' <=> Live(q)
            /\ word'[q] = word[q] /\ late'[q] = late[q] /\ counted' = counted
            /\ UNCHANGED <<op, tag, no>>
        BY <1>0, <1>6, <2>1, ClearedWord
      <3>. QED BY <3>1 DEF RequestsBase, RequestsInv, Old, One
    <2>2. CASE q = Head(clearing)
      <3>1. /\ word'[q] = 0 /\ counted' = 0 /\ late'[q] = (IF op = q THEN stage ELSE "none")
            /\ Live(q)' => late'[q] \notin {"loaded", "undo", "undoLoaded"}
            /\ op' = op
        BY <1>0, <1>6, <2>2, ClearedWord
      <3>2. op = q => stage \in {"checked", "loaded"}
        BY <1>0, BaseParts DEF ThreadInv
      <3>. QED BY <3>1, <3>2 DEF RequestsInv, Old, One
    <2>. QED BY <2>1, <2>2
  <1>7. CASE Reads \/ NotSampled \/ UNCHANGED vars
    <2>1. UNCHANGED <<word, no, counted, op, tag, clearing, late>>
      BY <1>7, ReadsKeep
    <2>2. Live(q)' <=> Live(q)
      BY <2>1, <1>0, LiveKept
    <2>. QED BY <2>1, <2>2 DEF RequestsBase, RequestsInv, Old, One
  <1>. QED BY <1>1, <1>2, <1>3, <1>4, <1>5, <1>6, <1>7
           DEF Next, Thread, Manager, Reads, Sampled

LEMMA RequestsCountedStep ==
  ASSUME RequestsBase, [Next]_vars
  PROVE  RequestsCounted'
  <1>0. "reqs" \in Words /\ Base
    BY DEF Words, RequestsBase
  <1>1. CASE ReadWord("reqs")
    <2>1. rep'.value["reqs"] = word["reqs"] /\ rep'.counted = counted /\ late' = late
      BY <1>0, <1>1, ReadWordReport, BaseParts DEF ReadWord, ManagerTypes, ReportType
    <2>2. IsCleared("reqs")
      BY <1>0, <1>1, BaseParts DEF ReadWord, PhaseInv, IsCleared, Cleared
    <2>3. Undone("reqs")' <=> Undone("reqs")
      BY <2>1 DEF Undone
    <2>4. ~Undone("reqs") => word["reqs"] - counted \in 0..One(late["reqs"] = "checked")
      BY <1>0, <2>2, WordTypes, BaseParts DEF RequestsBase, RequestsInv, Live, Old, One
    <2>. QED BY <2>1, <2>3, <2>4 DEF RequestsCounted, One
  <1>2. CASE StartMeasure \/ ClearWord \/ GetStats
    <2>1. rep' = NoReport
      BY <1>0, <1>2, ClearedWord DEF StartMeasure, GetStats
    <2>2. rep'.value["reqs"] = 0 /\ rep'.counted = 0
      BY <1>0, <2>1 DEF NoReport
    <2>. QED BY <2>2 DEF RequestsCounted, One
  <1>3. CASE \/ ReadAgain \/ (\E w \in Words \ {"reqs"} : ReadWord(w))
             \/ (\E w \in Sampled : ReadSamples(w))
    <2>1. rep'.value["reqs"] = rep.value["reqs"] /\ rep'.counted = rep.counted
      <3>1. CASE ReadAgain
        BY <1>0, <3>1, ReadAgainReport
      <3>2. ASSUME NEW w \in Words, w # "reqs", ReadWord(w)
            PROVE  rep'.value["reqs"] = rep.value["reqs"] /\ rep'.counted = rep.counted
        <4>1. /\ rep'.value = [rep.value EXCEPT ![w] = word[w]] /\ rep'.counted = rep.counted
              /\ rep.value \in [Words -> 0..Wrap - 1]
          BY <1>0, <3>2, ReadWordReport, BaseParts DEF ManagerTypes, ReportType
        <4>. QED BY <1>0, <3>2, <4>1
      <3>3. ASSUME NEW w \in Sampled, ReadSamples(w)
            PROVE  rep'.value["reqs"] = rep.value["reqs"] /\ rep'.counted = rep.counted
        BY <1>0, <3>3, ReadSamplesReport
      <3>. QED BY <1>3, <3>1, <3>2, <3>3
    <2>2. late' = late
      BY <1>3 DEF ReadAgain, ReadWord, ReadSamples
    <2>. QED BY <2>1, <2>2 DEF RequestsBase, RequestsCounted, Undone, One
  <1>4. CASE Thread \/ StartLoad \/ RaiseMeasure \/ UNCHANGED vars
    <2>1. UNCHANGED <<rep, late>>
      BY <1>4 DEF Thread, Begin, NotSampled, Load, Store, WriteSample, StoreUndo, StartLoad,
                  RaiseMeasure, vars, manager
    <2>. QED BY <2>1 DEF RequestsBase, RequestsCounted, Undone, One
  <1>. QED BY <1>1, <1>2, <1>3, <1>4 DEF Next, Manager, Sampled

\* Unless the clear of RxReqs is undone, a report counts every request of its
\* measurement, and at most one more (add_throughput_rx_sample, clear_stats).
THEOREM RequestsCorrect == Spec => []RequestsCounted
  <1>1. Init => RequestsBase
    BY BaseInit, RequestsInit DEF RequestsBase
  <1>2. RequestsBase /\ [Next]_vars => RequestsBase'
    BY BaseStep, CountStep, RequestsStep, RequestsCountedStep DEF RequestsBase, Words
  <1>3. RequestsBase => RequestsCounted
    BY DEF RequestsBase
  <1>. QED BY <1>1, <1>2, <1>3, PTL DEF Spec

-----------------------------------------------------------------------------
(* Samples.                                                                *)

SamplesBase(q) == Base /\ CountInv(q) /\ SamplesInv(q) /\ ReportInv(q) /\ Fresh(q)

LEMMA SampledWords == Sampled \subseteq Words /\ "tx" \in Sampled /\ "lat" \in Sampled
  BY DEF Sampled, Words

LEMMA SamplesInit ==
  ASSUME Init, NEW q \in Sampled
  PROVE  CountInv(q) /\ SamplesInv(q) /\ ReportInv(q) /\ Fresh(q)
  <1>1. /\ word[q] = 0 /\ op = "none" /\ adds = 0 /\ "none" # q /\ late[q] = "none"
        /\ rep.value[q] = 0 /\ rep.stale[q] = 0 /\ rep.during[q] = "none"
    BY SampledWords DEF Init, NoReport, Sampled
  <1>. QED BY <1>1 DEF CountInv, SamplesInv, ReportInv, Fresh, Counting, Counted, Old, One, Index

\* The slot a sample is written to.
LEMMA WrittenSlot ==
  ASSUME Base, NEW q \in Sampled, CountInv(q), Live(q), op = q, WriteSample, NEW i \in Index
  PROVE  /\ i # reg % Slots => sample'[q][i] = sample[q][i]
         /\ i = reg % Slots =>
              \/ sample'[q][i] = no
              \/ i = 0 /\ late[q] = "checked"
              \/ Old(q) /\ late[q] = "stored" /\ word[q] = 0
         /\ i = word[q] - 1 => i = reg % Slots \/ (late[q] = "stored" /\ word[q] = 0)
  <1>1. /\ sample' = [sample EXCEPT ![q] = [sample[q] EXCEPT ![reg % Slots] = tag]]
        /\ stage = "stored"
    BY DEF WriteSample
  <1>a. q \in Words
    BY SampledWords
  <1>b. sample \in [Words -> [Index -> 0..no]]
    BY BaseParts DEF SharedTypes
  <1>c. /\ Slots \in Nat \ {0} /\ i \in Nat /\ i < Slots /\ reg \in Nat /\ word[q] \in Nat
    BY <1>a, BaseParts, WordTypes, Constants DEF Index
  <1>d. reg % Slots \in Index
    BY <1>c DEF Index
  <1>3. sample'[q][i] = IF i = reg % Slots THEN tag ELSE sample[q][i]
    <2>1. sample'[q] = [sample[q] EXCEPT ![reg % Slots] = tag]
      BY <1>1, <1>a, <1>b
    <2>2. sample[q] \in [Index -> 0..no]
      BY <1>a, <1>b
    <2>. QED BY <1>d, <2>1, <2>2
  <1>4. reg + 1 = word[q] \/ (late[q] = "stored" /\ word[q] = 0)
    BY <1>1 DEF CountInv
  <1>5. Old(q) => \/ late[q] = "checked" /\ word[q] = 1
                  \/ late[q] = "stored" /\ word[q] = 0
    BY <1>1 DEF CountInv, Counted, One
  <1>6. reg < Slots => reg % Slots = reg
    BY <1>c
  <1>7. i = word[q] - 1 => i = reg % Slots \/ (late[q] = "stored" /\ word[q] = 0)
    <2>1. CASE reg + 1 = word[q]
      BY <1>c, <1>6, <2>1
    <2>. QED BY <1>4, <2>1
  <1>8. Old(q) /\ late[q] = "checked" /\ word[q] = 1 => reg % Slots = 0
    BY <1>c, <1>4, <1>6
  <1>9. tag = no \/ Old(q)
    BY DEF Old
  <1>. QED BY <1>3, <1>5, <1>7, <1>8, <1>9

LEMMA SamplesStep ==
  ASSUME NEW q \in Sampled, SamplesBase(q), [Next]_vars
  PROVE  SamplesInv(q)'
  <1>0. /\ q \in Words /\ q # "none" /\ q # "reqs" /\ Base
        /\ CountInv(q) /\ SamplesInv(q) /\ word[q] \in Nat
    BY WordTypes DEF Sampled, Words, SamplesBase
  <1>1. CASE \E w \in Words : Begin(w)
    <2>1. /\ op = "none" /\ stage' = "checked"
          /\ UNCHANGED <<word, sample, no, clearing, late>>
      BY <1>1 DEF Begin, manager
    <2>2. Live(q)' <=> Live(q)
      BY <1>0, <2>1, LiveKept
    <2>. QED BY <1>0, <2>1, <2>2 DEF SamplesInv, Counted
  <1>2. CASE Load
    <2>1. UNCHANGED <<word, sample, no, clearing, late>> /\ (Counted(q)' <=> Counted(q))
      BY <1>2 DEF Load, manager, Counted
    <2>2. Live(q)' <=> Live(q)
      BY <1>0, <2>1, LiveKept
    <2>. QED BY <1>0, <2>1, <2>2 DEF SamplesInv
  <1>3. CASE Store
    <2>1. UNCHANGED <<sample, no, clearing, late>> /\ stage = "loaded" /\ ~Counted(q)
      BY <1>3 DEF Store, manager, Counted
    <2>2. Live(q)' <=> Live(q)
      BY <1>0, <2>1, LiveKept
    <2>3. CASE Live(q) /\ op = q
      <3>1. word'[q] = word[q] + 1
        BY <1>0, <1>3, <2>3, StoreLive
      <3>2. Counted(q)'
        BY <1>0, <1>3, <2>3 DEF Store, Counted
      <3>3. ASSUME NEW i \in Index, i < word'[q]
            PROVE  \/ sample'[q][i] = no'
                   \/ i = 0 /\ late'[q] = "checked"
                   \/ Counted(q)' /\ i = word'[q] - 1
        <4>1. i \in Nat
          BY DEF Index
        <4>. QED BY <1>0, <2>1, <2>3, <3>1, <3>2, <3>3, <4>1 DEF SamplesInv
      <3>. QED BY <3>3 DEF SamplesInv
    <2>4. CASE op # q
      <3>1. word'[q] = word[q] /\ ~Counted(q)'
        BY <1>0, <1>3, <2>4, BaseParts DEF Store, Idle, SharedTypes, Counted
      <3>. QED BY <1>0, <2>1, <2>2, <3>1 DEF SamplesInv
    <2>. QED BY <2>2, <2>3, <2>4 DEF SamplesInv
  <1>4. CASE WriteSample
    <2>1. UNCHANGED <<word, no, clearing, late>>
      BY <1>4 DEF WriteSample, manager
    <2>2. Live(q)' <=> Live(q)
      BY <1>0, <2>1, LiveKept
    <2>3. CASE Live(q) /\ op = q
      <3>1. ASSUME NEW i \in Index, i < word'[q]
            PROVE  sample'[q][i] = no \/ (i = 0 /\ late[q] = "checked")
        <4>1. i < word[q] /\ word[q] # 0
          BY <1>0, <2>1, <3>1 DEF Index
        <4>2. CASE i = reg % Slots
          BY <1>0, <1>4, <2>3, <4>1, <4>2, WrittenSlot
        <4>3. CASE i # reg % Slots
          <5>1. sample'[q][i] = sample[q][i] /\ i # word[q] - 1
            BY <1>0, <1>4, <2>3, <4>1, <4>3, WrittenSlot
          <5>. QED BY <1>0, <2>3, <4>1, <5>1 DEF SamplesInv
        <4>. QED BY <4>2, <4>3
      <3>. QED BY <2>1, <3>1 DEF SamplesInv
    <2>4. CASE op # q
      <3>1. sample'[q] = sample[q] /\ ~Counted(q)
        BY <1>0, <1>4, <2>4, BaseParts DEF WriteSample, SharedTypes, Counted
      <3>. QED BY <1>0, <2>1, <2>2, <3>1 DEF SamplesInv
    <2>. QED BY <2>2, <2>3, <2>4 DEF SamplesInv
  <1>5. CASE StoreUndo
    <2>1. UNCHANGED <<sample, no, clearing, late>>
      BY <1>5 DEF StoreUndo, manager
    <2>2. Live(q)' <=> Live(q)
      BY <1>0, <2>1, LiveKept
    <2>3. CASE Live(q) /\ op = q
      <3>1. word'[q] = word[q] - 1
        BY <1>0, <1>5, <2>3, StoreUndoLive
      <3>2. ASSUME NEW i \in Index, i < word'[q]
            PROVE  sample[q][i] = no \/ (i = 0 /\ late[q] = "checked")
        <4>1. i \in Nat
          BY DEF Index
        <4>. QED BY <1>0, <2>3, <3>1, <3>2, <4>1 DEF SamplesInv
      <3>. QED BY <2>1, <3>2 DEF SamplesInv
    <2>4. CASE op # q
      <3>1. word'[q] = word[q] /\ ~Counted(q)
        BY <1>0, <1>5, <2>4, BaseParts DEF StoreUndo, SharedTypes, Counted
      <3>. QED BY <1>0, <2>1, <2>2, <3>1 DEF SamplesInv
    <2>. QED BY <2>2, <2>3, <2>4 DEF SamplesInv
  <1>6. CASE StartMeasure
    BY <1>0, <1>6, StartMeasureNotLive DEF SamplesInv
  <1>7. CASE ClearWord
    <2>1. CASE q # Head(clearing)
      <3>1. /\ Live(q)' <=> Live(q)
            /\ word'[q] = word[q] /\ late'[q] = late[q]
            /\ UNCHANGED <<sample, op, stage, no>>
        BY <1>0, <1>7, <2>1, ClearedWord
      <3>. QED BY <1>0, <3>1 DEF SamplesInv, Counted
    <2>2. CASE q = Head(clearing)
      <3>1. word'[q] = 0
        BY <1>0, <1>7, <2>2, ClearedWord
      <3>. QED BY <3>1 DEF SamplesInv, Index
    <2>. QED BY <2>1, <2>2
  <1>8. CASE Reads \/ NotSampled \/ UNCHANGED vars
    <2>1. UNCHANGED <<word, sample, no, op, stage, clearing, late>>
      BY <1>8, ReadsKeep
    <2>2. Live(q)' <=> Live(q)
      BY <1>0, <2>1, LiveKept
    <2>. QED BY <1>0, <2>1, <2>2 DEF SamplesInv, Counted
  <1>. QED BY <1>1, <1>2, <1>3, <1>4, <1>5, <1>6, <1>7, <1>8
           DEF Next, Thread, Manager, Reads, Sampled

\* What reading does to the values of one word in the report.
LEMMA ReportElsewhere ==
  ASSUME Base, NEW q \in Sampled,
         \/ ReadAgain \/ (\E w \in Words \ {q} : ReadWord(w))
         \/ (\E w \in Sampled : ReadSamples(w))
  PROVE  rep'.value[q] = rep.value[q] /\ rep'.during[q] = rep.during[q]
  <1>1. CASE ReadAgain
    BY <1>1, ReadAgainReport
  <1>2. ASSUME NEW w \in Words, w # q, ReadWord(w)
        PROVE  rep'.value[q] = rep.value[q] /\ rep'.during[q] = rep.during[q]
    <2>1. /\ rep'.value = [rep.value EXCEPT ![w] = word[w]]
          /\ rep'.during = [rep.during EXCEPT ![w] = IF op = w THEN stage ELSE "none"]
          /\ rep.value \in [Words -> 0..Wrap - 1] /\ rep.during \in [Words -> Stages]
      BY <1>2, ReadWordReport, BaseParts DEF ManagerTypes, ReportType
    <2>. QED BY <1>2, <2>1, SampledWords
  <1>3. ASSUME NEW w \in Sampled, ReadSamples(w)
        PROVE  rep'.value[q] = rep.value[q] /\ rep'.during[q] = rep.during[q]
    BY <1>3, ReadSamplesReport
  <1>. QED BY <1>1, <1>2, <1>3

\* While a report is read, and when it is made anew, every word is cleared.
LEMMA ReportFresh ==
  ASSUME Base, StartMeasure \/ ClearWord \/ GetStats, NEW q \in Words
  PROVE  rep' = NoReport /\ rep'.value[q] = 0 /\ rep'.stale[q] = 0
  <1>1. rep' = NoReport
    BY ClearedWord DEF StartMeasure, GetStats
  <1>. QED BY <1>1 DEF NoReport

LEMMA ReportStep ==
  ASSUME NEW q \in Sampled, SamplesBase(q), [Next]_vars
  PROVE  ReportInv(q)'
  <1>0. /\ q \in Words /\ q # "none" /\ Base /\ CountInv(q) /\ SamplesInv(q) /\ ReportInv(q)
        /\ word[q] \in Nat
    BY WordTypes DEF Sampled, Words, SamplesBase
  <1>1. CASE (\E w \in Words : Begin(w)) \/ Load \/ Store \/ StoreUndo
    <2>1. UNCHANGED <<sample, rep, no, clearing, late>> /\ (Old(q)' => Old(q))
      BY <1>0, <1>1 DEF Begin, Load, Store, StoreUndo, Idle, manager, Old
    <2>2. Live(q)' <=> Live(q)
      BY <1>0, <2>1, LiveKept
    <2>. QED BY <1>0, <2>1, <2>2 DEF ReportInv
  <1>2. CASE WriteSample
    <2>1. UNCHANGED <<word, rep, no, clearing, late>> /\ ~Old(q)'
      BY <1>0, <1>2 DEF WriteSample, Idle, manager, Old
    <2>2. Live(q)' <=> Live(q)
      BY <1>0, <2>1, LiveKept
    <2>3. CASE Live(q) /\ op = q
      <3>1. ASSUME NEW i \in Index, i < rep.value[q]
            PROVE  \/ sample'[q][i] = no
                   \/ i = 0 /\ late[q] = "checked"
                   \/ /\ rep.during[q] \in {"stored", "undo", "undoLoaded"}
                      /\ i = rep.value[q] - 1
        <4>1. CASE i = reg % Slots
          <5>1. rep.value[q] # 0
            BY <1>0, <3>1 DEF Index
          <5>2. ~(Old(q) /\ late[q] = "stored")
            BY <1>0, <2>3, <5>1 DEF ReportInv
          <5>. QED BY <1>0, <1>2, <2>3, <4>1, <5>2, WrittenSlot
        <4>2. CASE i # reg % Slots
          <5>1. sample'[q][i] = sample[q][i]
            BY <1>0, <1>2, <2>3, <4>2, WrittenSlot
          <5>. QED BY <1>0, <2>3, <3>1, <5>1 DEF ReportInv
        <4>. QED BY <4>1, <4>2
      <3>. QED BY <2>1, <3>1 DEF ReportInv
    <2>4. CASE op # q
      <3>1. sample'[q] = sample[q]
        BY <1>0, <1>2, <2>4, BaseParts DEF WriteSample, SharedTypes
      <3>. QED BY <1>0, <2>1, <2>2, <3>1 DEF ReportInv
    <2>. QED BY <2>2, <2>3, <2>4 DEF ReportInv
  <1>3. CASE StartMeasure \/ ClearWord \/ GetStats
    <2>1. rep'.value[q] = 0
      BY <1>0, <1>3, ReportFresh
    <2>. QED BY <2>1 DEF ReportInv, Index
  <1>4. CASE ReadWord(q)
    <2>1. UNCHANGED <<word, sample, no, op, stage, tag, clearing, late>>
      BY <1>0, <1>4, ReadsKeep DEF Reads
    <2>2. Live(q)' <=> Live(q)
      BY <1>0, <2>1, LiveKept
    <2>3. /\ rep'.value[q] = word[q] /\ rep'.during[q] = IF op = q THEN stage ELSE "none"
      <3>1. rep.value \in [Words -> 0..Wrap - 1] /\ rep.during \in [Words -> Stages]
        BY <1>0, BaseParts DEF ManagerTypes, ReportType
      <3>2. /\ rep'.value = [rep.value EXCEPT ![q] = word[q]]
            /\ rep'.during = [rep.during EXCEPT ![q] = IF op = q THEN stage ELSE "none"]
        BY <1>0, <1>4, ReadWordReport
      <3>. QED BY <1>0, <3>1, <3>2
    <2>4. Counted(q) => rep'.during[q] \in {"stored", "undo", "undoLoaded"}
      BY <2>3 DEF Counted
    <2>5. Live(q) /\ Old(q) /\ late[q] = "stored" => word[q] = 0
      BY <1>0 DEF CountInv
    <2>6. Old(q)' => Old(q)
      BY <2>1 DEF Old
    <2>. QED BY <1>0, <2>1, <2>2, <2>3, <2>4, <2>5, <2>6 DEF SamplesInv, ReportInv
  <1>5. CASE \/ ReadAgain \/ (\E w \in Words \ {q} : ReadWord(w))
             \/ (\E w \in Sampled : ReadSamples(w))
    <2>1. UNCHANGED <<sample, no, op, tag, clearing, late>>
      BY <1>5, ReadsKeep DEF Reads
    <2>2. Live(q)' <=> Live(q)
      BY <1>0, <2>1, LiveKept
    <2>3. rep'.value[q] = rep.value[q] /\ rep'.during[q] = rep.during[q]
      BY <1>0, <1>5, ReportElsewhere
    <2>. QED BY <1>0, <2>1, <2>2, <2>3 DEF ReportInv, Old
  <1>6. CASE NotSampled \/ StartLoad \/ RaiseMeasure \/ UNCHANGED vars
    <2>1. UNCHANGED <<sample, rep, no, op, tag, clearing, late>>
      BY <1>6 DEF NotSampled, StartLoad, RaiseMeasure, vars, thread, manager
    <2>2. Live(q)' <=> Live(q)
      BY <1>0, <2>1, LiveKept
    <2>. QED BY <1>0, <2>1, <2>2 DEF ReportInv, Old
  <1>. QED BY <1>1, <1>2, <1>3, <1>4, <1>5, <1>6 DEF Next, Thread, Manager, Sampled

\* Of the slots that are read, two at most hold no sample of this measurement.
LEMMA StaleBound ==
  ASSUME Base, NEW q \in Sampled, ReportInv(q), Live(q)
  PROVE  Cardinality({i \in 0..Wanted(q) - 1 : sample[q][i] # no})
           <= One(late[q] = "checked")
              + One(rep.during[q] \in {"stored", "undo", "undoLoaded"})
  <1>. DEFINE n == Wanted(q)
              v == rep.value[q]
              S == {i \in 0..n - 1 : sample[q][i] # no}
              A == IF late[q] = "checked" THEN {0} ELSE {}
              B == IF rep.during[q] \in {"stored", "undo", "undoLoaded"} THEN {v - 1} ELSE {}
  <1>1. n \in Nat /\ n <= v /\ n <= Slots /\ v \in Nat /\ Slots \in Nat
    BY WantedRange, WordTypes, SampledWords, Constants DEF Base
  <1>. HIDE DEF n
  <1>2. S \in SUBSET (A \cup B)
    <2>. SUFFICES ASSUME NEW i \in 0..n - 1, sample[q][i] # no PROVE i \in A \cup B
      OBVIOUS
    <2>1. i \in Index /\ i < v
      BY <1>1 DEF Index
    <2>. QED BY <2>1 DEF ReportInv
  <1>3. /\ IsFiniteSet(A) /\ Cardinality(A) = One(late[q] = "checked")
        /\ IsFiniteSet(B)
        /\ Cardinality(B) = One(rep.during[q] \in {"stored", "undo", "undoLoaded"})
    BY FS_EmptySet, FS_Singleton DEF One
  <1>4. /\ IsFiniteSet(A \cup B)
        /\ Cardinality(A \cup B) = Cardinality(A) + Cardinality(B) - Cardinality(A \cap B)
    BY <1>3, FS_Union
  <1>5. IsFiniteSet(A \cap B) /\ Cardinality(A \cap B) \in Nat
    BY <1>3, FS_Intersection, FS_CardinalityType
  <1>. HIDE DEF A, B
  <1>6. IsFiniteSet(S) /\ Cardinality(S) <= Cardinality(A \cup B)
    BY <1>2, <1>4, FS_Subset
  <1>7. Cardinality(S) \in Nat
    BY <1>6, FS_CardinalityType
  <1>8. /\ One(late[q] = "checked") \in Nat
        /\ One(rep.during[q] \in {"stored", "undo", "undoLoaded"}) \in Nat
    BY DEF One
  <1>9. Cardinality(S) <= One(late[q] = "checked")
                          + One(rep.during[q] \in {"stored", "undo", "undoLoaded"})
    BY <1>3, <1>4, <1>5, <1>6, <1>7, <1>8
  <1>. QED BY <1>9 DEF n

LEMMA FreshStep ==
  ASSUME NEW q \in Sampled, SamplesBase(q), [Next]_vars
  PROVE  Fresh(q)'
  <1>0. q \in Words /\ Base /\ ReportInv(q) /\ Fresh(q) /\ rep.stale[q] \in Nat
    BY WordTypes DEF Sampled, Words, SamplesBase
  <1>1. CASE StartMeasure \/ ClearWord \/ GetStats
    <2>1. rep'.stale[q] = 0
      BY <1>0, <1>1, ReportFresh
    <2>. QED BY <2>1 DEF Fresh, One
  <1>2. CASE ReadWord(q)
    <2>1. rep'.stale[q] = rep.stale[q]
      BY <1>0, <1>2, ReadWordReport
    <2>2. rep.stale[q] = 0
      BY <1>0, <1>2, BaseParts DEF ReadWord, PhaseInv, Sampled
    <2>. QED BY <2>1, <2>2 DEF Fresh, One
  <1>3. CASE ReadSamples(q)
    <2>a. late' = late /\ mpc # "clear"
      BY <1>3 DEF ReadSamples
    <2>b. clearing = <<>>
      BY <1>0, <2>a, BaseParts DEF PhaseInv
    <2>1. late' = late /\ IsCleared(q)
      BY <1>0, <2>a, <2>b DEF IsCleared, Cleared, Words
    <2>2. /\ rep'.during[q] = rep.during[q]
          /\ rep'.stale[q] = Cardinality({i \in 0..Wanted(q) - 1 : sample[q][i] # no})
      BY <1>0, <1>3, ReadSamplesReport, BaseParts DEF ManagerTypes, ReportType
    <2>3. ~Undone(q) =>
            rep'.stale[q] <= One(late[q] = "checked")
                             + One(rep.during[q] \in {"stored", "undo", "undoLoaded"})
      BY <1>0, <2>1, <2>2, StaleBound DEF Live
    <2>. QED BY <2>1, <2>2, <2>3 DEF Fresh, Undone, One
  <1>4. CASE \/ ReadAgain \/ (\E w \in Words \ {q} : ReadWord(w))
             \/ (\E w \in Sampled \ {q} : ReadSamples(w))
    <2>1. rep'.during[q] = rep.during[q]
      BY <1>0, <1>4, ReportElsewhere
    <2>2. rep'.stale[q] = rep.stale[q]
      <3>1. CASE ReadAgain
        BY <1>0, <3>1, ReadAgainReport
      <3>2. ASSUME NEW w \in Words, ReadWord(w) PROVE rep'.stale[q] = rep.stale[q]
        BY <1>0, <3>2, ReadWordReport
      <3>3. ASSUME NEW w \in Sampled, w # q, ReadSamples(w)
            PROVE  rep'.stale[q] = rep.stale[q]
        <4>1. /\ rep.stale \in [Words -> 0..Slots]
              /\ rep'.stale = [rep.stale EXCEPT ![w] =
                   Cardinality({i \in 0..Wanted(w) - 1 : sample[w][i] # no})]
          BY <1>0, <3>3, ReadSamplesReport, BaseParts DEF ManagerTypes, ReportType
        <4>. QED BY <1>0, <3>3, <4>1
      <3>. QED BY <1>4, <3>1, <3>2, <3>3
    <2>3. late' = late
      BY <1>4 DEF ReadAgain, ReadWord, ReadSamples
    <2>. QED BY <1>0, <2>1, <2>2, <2>3 DEF Fresh, Undone, One
  <1>5. CASE Thread \/ StartLoad \/ RaiseMeasure \/ UNCHANGED vars
    <2>1. UNCHANGED <<rep, late>>
      BY <1>5 DEF Thread, Begin, NotSampled, Load, Store, WriteSample, StoreUndo, StartLoad,
                  RaiseMeasure, vars, manager
    <2>. QED BY <1>0, <2>1 DEF Fresh, Undone, One
  <1>. QED BY <1>1, <1>2, <1>3, <1>4, <1>5 DEF Next, Manager, Sampled

\* The latencies of a report are of its own measurement, but for one whose add
\* had begun before and one that is not written yet (add_latency_sample).
THEOREM LatenciesCorrect == Spec => []LatenciesFresh
  <1>1. Init => SamplesBase("lat")
    BY BaseInit, SamplesInit, SampledWords DEF SamplesBase
  <1>2. SamplesBase("lat") /\ [Next]_vars => SamplesBase("lat")'
    BY BaseStep, CountStep, SamplesStep, ReportStep, FreshStep, SampledWords DEF SamplesBase
  <1>3. SamplesBase("lat") => LatenciesFresh
    BY DEF SamplesBase, LatenciesFresh
  <1>. QED BY <1>1, <1>2, <1>3, PTL DEF Spec

\* So are its inter-arrival times, which are taken at all times (add_tx_timestamp).
THEOREM InterarrivalsCorrect == Spec => []InterarrivalsFresh
  <1>1. Init => SamplesBase("tx")
    BY BaseInit, SamplesInit, SampledWords DEF SamplesBase
  <1>2. SamplesBase("tx") /\ [Next]_vars => SamplesBase("tx")'
    BY BaseStep, CountStep, SamplesStep, ReportStep, FreshStep, SampledWords DEF SamplesBase
  <1>3. SamplesBase("tx") => InterarrivalsFresh
    BY DEF SamplesBase, InterarrivalsFresh
  <1>. QED BY <1>1, <1>2, <1>3, PTL DEF Spec

-----------------------------------------------------------------------------
(* The two readings of inc_idx.                                            *)

SettledBase == Base /\ CountInv("lat") /\ SettledInv /\ ReportSettled

LEMMA SettledInit == Init => SettledInv /\ ReportSettled
  BY DEF Init, SettledInv, ReportSettled, NoReport

LEMMA SettledFacts ==
  ASSUME SettledBase
  PROVE  /\ Base /\ CountInv("lat") /\ SettledInv /\ ReportSettled /\ "lat" \in Words
         /\ word["lat"] \in Nat /\ rep.value["lat"] \in Nat
  BY WordTypes DEF SettledBase, Words

\* A step that changes neither what is counted nor what is read.
LEMMA SettledKept ==
  ASSUME SettledBase, UNCHANGED <<clearing, late, rep>>,
         word'["lat"] = word["lat"], Counting("lat")' <=> Counting("lat"),
         mpc' = mpc \/ (mpc' = "idle" /\ mpc = "clear")
  PROVE  SettledInv' /\ ReportSettled'
  <1>1. Live("lat")' <=> Live("lat")
    BY LiveKept DEF Words
  <1>2. mpc = "clear" => rep.again = 0
    BY SettledFacts, BaseParts DEF PhaseInv, NoReport
  <1>3. SettledInv'
    BY <1>1, SettledFacts DEF SettledInv, One
  <1>4. ReportSettled'
    BY <1>2, SettledFacts DEF ReportSettled, Undone
  <1>. QED BY <1>3, <1>4

LEMMA SettledStep ==
  ASSUME SettledBase, [Next]_vars
  PROVE  SettledInv' /\ ReportSettled'
  <1>. USE SettledFacts
  <1>1. ASSUME NEW w \in Words, Begin(w)
        PROVE  SettledInv' /\ ReportSettled'
    <2>1. /\ UNCHANGED <<word, clearing, late, rep, mpc>>
          /\ op = "none" /\ op' = w
      BY <1>1 DEF Begin, manager
    <2>2. CASE w = "lat"
      <3>1. measure
        BY <1>1, <2>2 DEF Begin, Gated
      <3>2. mpc \notin {"latSamples", "iid"}
        BY <3>1, BaseParts DEF PhaseInv
      <3>3. SettledInv'
        BY <2>1, <3>2 DEF SettledInv
      <3>. QED BY <2>1, <3>3 DEF ReportSettled, Undone
    <2>3. CASE w # "lat"
      <3>1. Counting("lat")' <=> Counting("lat")
        BY <2>1, <2>3 DEF Counting
      <3>. QED BY <2>1, <3>1, SettledKept
    <2>. QED BY <2>2, <2>3
  <1>2. CASE Load
    <2>1. /\ UNCHANGED <<word, clearing, late, rep, mpc>>
          /\ Counting("lat")' <=> Counting("lat")
      BY <1>2 DEF Load, manager, Counting
    <2>. QED BY <2>1, SettledKept
  <1>3. CASE Store
    <2>1. UNCHANGED <<clearing, late, rep, mpc>> /\ stage = "loaded"
      BY <1>3 DEF Store, manager
    <2>2. Live("lat")' <=> Live("lat")
      BY <2>1, LiveKept
    <2>3. ReportSettled'
      BY <2>1 DEF ReportSettled, Undone
    <2>4. ~Counting("lat")'
      BY <1>3, <2>1 DEF Store, Idle, Counting
    <2>5. CASE op = "lat" /\ Live("lat")
      <3>1. word'["lat"] = word["lat"] + 1
        BY <1>3, <2>5, StoreLive
      <3>2. Counting("lat")
        BY <2>1, <2>5 DEF Counting
      <3>3. SettledInv'
        BY <2>1, <2>2, <2>4, <2>5, <3>1, <3>2 DEF SettledInv, One
      <3>. QED BY <2>3, <3>3
    <2>6. CASE op # "lat"
      <3>1. word'["lat"] = word["lat"]
        BY <1>3, <2>6, BaseParts DEF Store, SharedTypes
      <3>2. ~Counting("lat")
        BY <2>6 DEF Counting
      <3>. QED BY <2>1, <2>4, <3>1, <3>2, SettledKept
    <2>7. CASE ~Live("lat")
      BY <2>2, <2>3, <2>7 DEF SettledInv
    <2>. QED BY <2>5, <2>6, <2>7
  <1>4. CASE WriteSample
    <2>1. /\ UNCHANGED <<word, clearing, late, rep, mpc>>
          /\ Counting("lat")' <=> Counting("lat")
      BY <1>4 DEF WriteSample, Idle, manager, Counting
    <2>. QED BY <2>1, SettledKept
  <1>5. CASE StoreUndo
    <2>1. op # "lat"
      BY <1>5, BaseParts DEF StoreUndo, ThreadInv
    <2>2. /\ UNCHANGED <<clearing, late, rep, mpc>>
          /\ Counting("lat")' <=> Counting("lat")
      BY <1>5 DEF StoreUndo, Idle, manager, Counting
    <2>3. word'["lat"] = word["lat"]
      BY <1>5, <2>1, BaseParts DEF StoreUndo, SharedTypes
    <2>. QED BY <2>2, <2>3, SettledKept
  <1>6. CASE StartMeasure \/ ClearWord \/ GetStats
    <2>1. rep'.again = 0 /\ mpc' \in {"clear", "reqs"}
      <3>1. rep' = NoReport
        BY <1>6, ReportFresh
      <3>2. mpc' \in {"clear", "reqs"}
        BY <1>6, ClearedWord DEF StartMeasure, GetStats
      <3>. QED BY <3>1, <3>2 DEF NoReport
    <2>. QED BY <2>1 DEF SettledInv, ReportSettled
  <1>7. CASE StartLoad \/ RaiseMeasure \/ NotSampled \/ UNCHANGED vars
    <2>1. /\ UNCHANGED <<word, op, stage, clearing, late, rep>>
          /\ mpc' = mpc \/ (mpc' = "idle" /\ mpc = "clear")
      BY <1>7 DEF StartLoad, RaiseMeasure, NotSampled, vars, thread, manager
    <2>2. Counting("lat")' <=> Counting("lat")
      BY <2>1 DEF Counting
    <2>. QED BY <2>1, <2>2, SettledKept
  <1>8. ASSUME NEW w \in Words, ReadWord(w)
        PROVE  SettledInv' /\ ReportSettled'
    <2>1. /\ UNCHANGED <<word, op, stage, clearing, late>> /\ mpc' \in {"tx", "txSamples", "latSamples"}
          /\ mpc' = "latSamples" => w = "lat"
      BY <1>8 DEF ReadWord, thread, Words
    <2>2. w = "lat" => rep'.value["lat"] = word["lat"]
      <3>1. rep.value \in [Words -> 0..Wrap - 1]
        BY BaseParts DEF ManagerTypes, ReportType
      <3>. QED BY <1>8, <3>1, ReadWordReport
    <2>. QED BY <2>1, <2>2 DEF SettledInv, ReportSettled, One
  <1>9. ASSUME NEW w \in Sampled, ReadSamples(w)
        PROVE  SettledInv' /\ ReportSettled'
    <2>1. /\ UNCHANGED <<word, op, stage, clearing, late>>
          /\ mpc' = "lat" \/ (mpc' = "iid" /\ mpc = "latSamples")
      BY <1>9 DEF ReadSamples, thread
    <2>2. rep'.value = rep.value
      BY <1>9, ReadSamplesReport
    <2>3. (Live("lat")' <=> Live("lat")) /\ (Counting("lat")' <=> Counting("lat"))
      BY <2>1, LiveKept DEF Counting
    <2>. QED BY <2>1, <2>2, <2>3 DEF SettledInv, ReportSettled, One
  <1>10. CASE ReadAgain
    <2>1. /\ UNCHANGED <<word, op, stage, clearing, late>> /\ mpc' = "idle" /\ mpc = "iid"
      BY <1>10 DEF ReadAgain, thread
    <2>2. rep'.value = rep.value /\ rep'.again = word["lat"]
      BY <1>10, ReadAgainReport
    <2>3. clearing = <<>>
      BY <2>1, BaseParts DEF PhaseInv
    <2>4. ~Undone("lat") => Live("lat")
      BY <2>3 DEF Live, IsCleared
    <2>5. ~Undone("lat") => word["lat"] - rep.value["lat"] \in 0..1
      BY <2>1, <2>4 DEF SettledInv, One
    <2>. QED BY <2>1, <2>2, <2>5 DEF SettledInv, ReportSettled, Undone
  <1>. QED BY <1>1, <1>2, <1>3, <1>4, <1>5, <1>6, <1>7, <1>8, <1>9, <1>10
           DEF Next, Thread, Manager, Sampled

\* Unless the clear of inc_idx is undone, get_stats finds one latency more at
\* most when it reads inc_idx the second time (aggregate_latency, check_iid).
THEOREM SettledCorrect == Spec => []ReportSettled
  <1>1. Init => SettledBase
    <2>1. "lat" \in Sampled
      BY DEF Sampled
    <2>. QED BY <2>1, BaseInit, SamplesInit, SettledInit DEF SettledBase
  <1>2. SettledBase /\ [Next]_vars => SettledBase'
    BY BaseStep, CountStep, SettledStep, SettledFacts DEF SettledBase
  <1>3. SettledBase => ReportSettled
    BY DEF SettledBase
  <1>. QED BY <1>1, <1>2, <1>3, PTL DEF Spec

=============================================================================
