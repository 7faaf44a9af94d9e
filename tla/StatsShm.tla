------------------------------ MODULE StatsShm ------------------------------
(***************************************************************************)
(* The statistics one agent thread shares with its manager without a lock  *)
(* (agents/stats.c, agent-manager/manager/agentcontroller.py, stats.py):   *)
(* the thread adds to them while the manager clears and reads them.        *)
(*                                                                         *)
(* Three words stand for what is shared: "reqs" for the four request and   *)
(* byte counters, "tx" for TxTs.Count and "lat" for inc_idx, each with the *)
(* samples it counts.  An increment is a load and a store.  A sample is    *)
(* known by the measurement it was taken in.                               *)
(***************************************************************************)
EXTENDS Integers, Sequences, FiniteSets, FiniteSetsExt

CONSTANTS
  Slots,            \* MAX_PER_THREAD_SAMPLES, MAX_PER_THREAD_TX_SAMPLES
  PerThread,        \* acb->sample_count: latency samples wanted of the thread
  Wrap,             \* words are unsigned modulo Wrap: 2^32 in the code
  MaxMeasurements,  \* bound: START_MEASURE messages
  MaxAdds           \* bound: calls of the add functions that add something

ASSUME StatsAssumption ==
  /\ {Slots, PerThread, Wrap} \subseteq Nat \ {0}
  /\ Slots < Wrap /\ MaxAdds < Wrap - 1
  /\ {MaxMeasurements, MaxAdds} \subseteq Nat

Words == {"reqs", "tx", "lat"}
Index == 0..Slots - 1

VARIABLES
  word,     \* the shared words
  sample,   \* the shared samples of "tx" and "lat": measurement each is from
  measure,  \* acb->should_measure
  no,       \* ghost: the current measurement, counted from its first clear
  op,       \* the word the thread is adding to, or "none"
  stage,    \* how far it is: "checked" (should_measure was seen, or the sampling
            \* of add_tx_timestamp hit), "loaded", "stored" (counted, sample not
            \* written), "undo" and "undoLoaded" (the sample is taken back)
  reg,      \* the value it has loaded
  tag,      \* measurement in which it was begun
  prevSet,  \* prev_tx_timestamp has been set
  adds, counted, \* ghost: adds begun; requests of this measurement counted
  mpc,      \* the manager: "idle", or what it does next to clear or read
  clearing, \* words it has still to clear
  late,     \* ghost: per word, how far the thread was in adding to it when the
            \* manager cleared it: the clear may be undone
  rep       \* what the manager reads: per word its value, the samples that are
            \* not of this measurement, and how far the thread was in an add;
            \* the number of requests it should have read; the second reading
            \* of inc_idx

thread == <<op, stage, reg, tag, prevSet, adds>>
manager == <<mpc, clearing, late, rep>>
vars == <<word, sample, measure, no, counted, thread, manager>>

NoReport == [value |-> [w \in Words |-> 0], stale |-> [w \in Words |-> 0],
             during |-> [w \in Words |-> "none"], counted |-> 0, again |-> 0]

Init ==
  /\ word = [w \in Words |-> 0]
  /\ sample = [w \in Words |-> [i \in Index |-> 0]]
  /\ measure = FALSE /\ no = 0
  /\ op = "none" /\ stage = "none" /\ reg = 0 /\ tag = 0 /\ prevSet = FALSE
  /\ adds = 0 /\ counted = 0
  /\ mpc = "idle" /\ clearing = <<>> /\ late = [w \in Words |-> "none"]
  /\ rep = NoReport

-----------------------------------------------------------------------------
(* The thread.                                                             *)

\* Only the transmit times are kept at all times.
Gated(w) == w = "tx" \/ measure

Begin(w) ==
  /\ op = "none" /\ Gated(w) /\ adds < MaxAdds
  /\ op' = w /\ stage' = "checked" /\ tag' = no /\ adds' = adds + 1
  /\ UNCHANGED <<word, sample, measure, no, counted, reg, prevSet, manager>>

\* add_tx_timestamp for a request that is not sampled.
NotSampled ==
  /\ op = "none" /\ ~prevSet
  /\ prevSet' = TRUE
  /\ UNCHANGED <<word, sample, measure, no, counted, op, stage, reg, tag, adds,
                 manager>>

Load ==
  /\ stage \in {"checked", "undo"}
  /\ reg' = word[op]
  /\ stage' = IF stage = "checked" THEN "loaded" ELSE "undoLoaded"
  /\ UNCHANGED <<word, sample, measure, no, counted, op, tag, prevSet, adds,
                 manager>>

\* Fault: the words are signed.
LessOneSigned(n) == n - 1

LessOne(n) == (n - 1) % Wrap

Idle == op' = "none" /\ stage' = "none" /\ reg' = 0 /\ tag' = 0

\* The word is incremented.  The first transmit time has none to be told from:
\* its sample is not written, and its increment is taken back.
Store ==
  /\ stage = "loaded"
  /\ word' = [word EXCEPT ![op] = (reg + 1) % Wrap]
  /\ counted' = IF op = "reqs" /\ tag = no THEN counted + 1 ELSE counted
  /\ IF op = "reqs" THEN Idle
     ELSE /\ stage' = IF op = "tx" /\ ~prevSet THEN "undo" ELSE "stored"
          /\ UNCHANGED <<op, reg, tag>>
  /\ UNCHANGED <<sample, measure, no, prevSet, adds, manager>>

WriteSample ==
  /\ stage = "stored"
  /\ sample' = [sample EXCEPT ![op][reg % Slots] = tag]
  /\ Idle
  /\ UNCHANGED <<word, measure, no, counted, prevSet, adds, manager>>

StoreUndo ==
  /\ stage = "undoLoaded"
  /\ word' = [word EXCEPT ![op] = LessOne(reg)]
  /\ prevSet' = TRUE
  /\ Idle
  /\ UNCHANGED <<sample, measure, no, counted, adds, manager>>

-----------------------------------------------------------------------------
(* The manager.                                                            *)

\* start_load stops measuring.
StartLoad ==
  /\ mpc = "idle"
  /\ measure' = FALSE
  /\ UNCHANGED <<word, sample, no, counted, thread, manager>>

\* Faults: clear_stats forgets a word.
ClearedNotReqs == <<"tx", "lat">>
ClearedNotTx == <<"reqs", "lat">>
ClearedNotLat == <<"reqs", "tx">>

\* The order of clear_stats.
Cleared == <<"reqs", "tx", "lat">>

\* start_measure begins to clear.
StartMeasure ==
  /\ mpc = "idle" /\ no < MaxMeasurements
  /\ mpc' = "clear" /\ clearing' = Cleared
  /\ no' = no + 1 /\ counted' = 0 /\ rep' = NoReport
  /\ late' = [w \in Words |-> "none"]
  /\ UNCHANGED <<word, sample, measure, thread>>

\* One word is cleared, in its turn.
ClearWord ==
  /\ mpc = "clear" /\ clearing # <<>>
  /\ LET w == Head(clearing) IN
       /\ word' = [word EXCEPT ![w] = 0]
       /\ late' = [late EXCEPT ![w] = IF op = w THEN stage ELSE "none"]
       /\ counted' = IF w = "reqs" THEN 0 ELSE counted
  /\ clearing' = Tail(clearing)
  /\ UNCHANGED <<sample, measure, no, thread, mpc, rep>>

RaiseMeasure ==
  /\ mpc = "clear" /\ clearing = <<>>
  /\ measure' = TRUE /\ mpc' = "idle"
  /\ UNCHANGED <<word, sample, no, counted, thread, clearing, late, rep>>

\* Fault: get_stats does not stop the measurement.
WhileReadingOn == measure

\* should_measure while the statistics are read.
WhileReading == FALSE

\* get_stats, on a report message.
GetStats ==
  /\ mpc = "idle" /\ no > 0
  /\ measure' = WhileReading /\ mpc' = "reqs" /\ rep' = NoReport
  /\ UNCHANGED <<word, sample, no, counted, thread, clearing, late>>

\* aggregate_throughput and aggregate_latency read a word ...
ReadWord(w) ==
  /\ mpc = w
  /\ rep' = [rep EXCEPT !.value[w] = word[w], !.counted = IF w = "reqs"
                                                          THEN counted ELSE @,
                        !.during[w] = IF op = w THEN stage ELSE "none"]
  /\ mpc' = CASE w = "reqs" -> "tx" [] w = "tx" -> "txSamples"
              [] w = "lat" -> "latSamples"
  /\ UNCHANGED <<word, sample, measure, no, counted, thread, clearing, late>>

\* ... and the samples it counts, up to a limit.
Wanted(w) == Min({rep.value[w], Slots} \cup (IF w = "lat" THEN {PerThread} ELSE {}))
ReadSamples(w) ==
  /\ mpc = (IF w = "tx" THEN "txSamples" ELSE "latSamples")
  /\ rep' = [rep EXCEPT !.stale[w] =
               Cardinality({i \in 0..Wanted(w) - 1 : sample[w][i] # no})]
  /\ mpc' = IF w = "tx" THEN "lat" ELSE "iid"
  /\ UNCHANGED <<word, sample, measure, no, counted, thread, clearing, late>>

\* check_iid reads inc_idx again, for samples of its own.
ReadAgain ==
  /\ mpc = "iid"
  /\ rep' = [rep EXCEPT !.again = word["lat"]]
  /\ mpc' = "idle"
  /\ UNCHANGED <<word, sample, measure, no, counted, thread, clearing, late>>

-----------------------------------------------------------------------------
Thread == (\E w \in Words : Begin(w)) \/ NotSampled \/ Load \/ Store
          \/ WriteSample \/ StoreUndo
Manager == \/ StartLoad \/ StartMeasure \/ ClearWord \/ RaiseMeasure \/ GetStats
           \/ (\E w \in Words : ReadWord(w))
           \/ (\E w \in {"tx", "lat"} : ReadSamples(w))
           \/ ReadAgain

Next == Thread \/ Manager

Spec == Init /\ [][Next]_vars

-----------------------------------------------------------------------------
(* Properties.                                                             *)

Stages == {"none", "checked", "loaded", "stored", "undo", "undoLoaded"}

\* Every variable keeps its type.
TypeOK ==
  /\ word \in [Words -> 0..Wrap - 1] /\ reg \in 0..Wrap - 1
  /\ sample \in [Words -> [Index -> 0..no]] /\ tag \in 0..no
  /\ measure \in BOOLEAN /\ prevSet \in BOOLEAN
  /\ op \in Words \cup {"none"} /\ stage \in Stages
  /\ op = "none" <=> stage = "none"
  /\ no \in 0..MaxMeasurements /\ adds \in 0..MaxAdds /\ counted \in 0..adds
  /\ clearing \in Seq(Words) /\ late \in [Words -> Stages]
  /\ mpc \in {"idle", "clear", "reqs", "tx", "txSamples", "lat", "latSamples", "iid"}
  /\ rep \in [value : [Words -> 0..Wrap - 1], stale : [Words -> 0..Slots],
              during : [Words -> Stages], counted : Nat, again : 0..Wrap - 1]

\* The clear of w can be undone: the thread had loaded the old value of w, or
\* was about to take an increment of it back.
Undone(w) == late[w] \in {"loaded", "undo", "undoLoaded"}

One(b) == IF b THEN 1 ELSE 0

\* Unless the thread was between load and store when RxReqs was cleared, a
\* report counts every request of its measurement (add_throughput_rx_sample,
\* clear_stats): at most an add that had passed should_measure before the
\* clear comes on top.
RequestsCounted ==
  ~Undone("reqs") =>
    LET extra == rep.value["reqs"] - rep.counted
    IN  extra \in 0..One(late["reqs"] = "checked")

\* Of the samples of w in a report, those of an earlier measurement are at most
\* one that had been begun when the word was cleared and one that is counted
\* but not written, unless the clear was undone.
Fresh(w) ==
  ~Undone(w) =>
    rep.stale[w] <= One(late[w] = "checked")
                    + One(rep.during[w] \in {"stored", "undo", "undoLoaded"})

\* add_latency_sample writes where inc_idx said before it was incremented.
LatenciesFresh == Fresh("lat")

\* Inter-arrival samples are taken while nothing is measured, too.
InterarrivalsFresh == Fresh("tx")

\* Unless the clear was undone, the latencies of one report that percentiles are
\* taken of and those the independence test is made on differ by one at most:
\* get_stats has stopped measuring, and the thread has one add underway at most
\* (stats.py:154 and :88).
ReportSettled ==
  mpc = "idle" /\ rep.again # 0 /\ ~Undone("lat") =>
    rep.again - rep.value["lat"] \in 0..1
=============================================================================
