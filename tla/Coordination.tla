---------------------------- MODULE Coordination ----------------------------
(***************************************************************************)
(* The control plane of Lancet: the coordinator (coordinator/*.go), one    *)
(* agent manager per host (agent-manager/manager/*.py) and what the        *)
(* manager does to its agent process through the shared control block.     *)
(*                                                                         *)
(* The coordinator runs a load pattern as a plan of rounds.  A round       *)
(* writes one request to every agent of a group and then reads one reply   *)
(* from each of them, in order, with a deadline.  The first error ends the *)
(* round with the remaining replies unread.  Every agent has its own TCP   *)
(* byte stream and nothing in a reply names the request it answers.        *)
(***************************************************************************)
EXTENDS Naturals, Sequences, FiniteSets, SequencesExt, FiniteSetsExt

CONSTANTS
  Agents,       \* hosts that may be given a role
  Experiments,  \* the command lines and failures to check: see Experiment
  MaxTimeouts   \* bound: read deadlines that expire in a behaviour

Patterns == {"fixed", "fixedQual", "step", "stepQual"}

\* th, lt, sym: sequences of agents, c.thAgents and so on; waitConn: the
\* transport is TCP (c.shouldWaitConn); mainLoad, latLoad: the load of a th or
\* sym agent, and of an lt agent, 0 or 1 for any positive rate; steps: load
\* levels; polls, tries: the limits of load and fixedQualPattern, 60 and 10 in
\* the code; mayFail, mayDie: agents whose manager may fail to launch them, and
\* agents whose process may end on its own.
Experiment(e) ==
  LET all == e.th \o e.lt \o e.sym
  IN  /\ e.th \in Seq(Agents) /\ e.lt \in Seq(Agents) /\ e.sym \in Seq(Agents)
      /\ Len(all) > 0 /\ IsInjective(all)
      /\ e.pattern \in Patterns /\ e.waitConn \in BOOLEAN
      /\ {e.mainLoad, e.latLoad} \subseteq {0, 1}
      /\ {e.steps, e.polls, e.tries} \subseteq Nat \ {0}
      /\ e.pattern \in {"step", "stepQual"} \/ e.steps = 1
      \* computeStatsLatency divides by the number of latency agents.
      /\ e.pattern \in {"fixedQual", "stepQual"} => Len(e.lt \o e.sym) > 0
      /\ e.mayFail \cup e.mayDie \subseteq ToSet(all)

ASSUME CoordinationAssumption ==
  MaxTimeouts \in Nat /\ \A e \in Experiments : Experiment(e)

VARIABLES
  exp,        \* the experiment: what main has read from the command line
  at,         \* index in Plan of the current round; Len(Plan) + 1 at its end
  idx,        \* 0: about to write the request; i: reading the i-th agent
  allOpen,    \* every value read in this poll was non-zero
  polls,      \* check_conn_open calls that found a connection closed
  tries,      \* tryCount of fixedQualPattern
  step,       \* load level of a step pattern
  result,     \* "running", "ok", or "err": how the coordinator process ended
  clean,      \* ghost: no round has failed so far
  reqNo,      \* ghost: number of the current request
  measureNo,  \* ghost: number of the last START_MEASURE round
  timeouts,   \* read deadlines that have expired
  got,        \* ghost: per agent, the last reply the coordinator accepted
  inbox,      \* per agent, requests the manager has not received
  stream,     \* per agent, reply bytes the coordinator has not read
  reset,      \* agents whose connection the coordinator's exit has reset
  mgr,        \* per agent, what the manager process is doing
  cur,        \* per agent, the request the manager is working on
  alive,      \* the agent process is running
  connOpen, loading, measuring, \* conn_open, should_load, should_measure
  mEpoch,     \* ghost: START_MEASURE last applied (0: start_time not yet set)
  samples     \* START_MEASURE the samples in the stats belong to; 0: no samples

coordVars == <<exp, at, idx, allOpen, polls, tries, step, result, clean, reqNo,
               measureNo, timeouts, got>>
agentVars == <<alive, connOpen, loading, measuring, mEpoch, samples>>
vars == <<coordVars, inbox, stream, reset, mgr, cur, agentVars>>

Th == exp.th
Lt == exp.lt
Sym == exp.sym

\* Fault: load is given to the sym agents only.
MainForgetsTh == Sym

\* The agents that are given a share of the load.
Main == Sym \o Th
All == Th \o Lt \o Sym

Qual == exp.pattern \in {"fixedQual", "stepQual"}
Stepping == exp.pattern \in {"step", "stepQual"}

-----------------------------------------------------------------------------
(* Messages.                                                               *)

\* States of a manager process that has ended: orderly, killing its agent, or
\* of an uncaught exception, leaving it.
Gone == {"exited", "crashed"}

Rounds == {"conn", "mainLoad", "latLoad", "probe", "probeThr", "measure",
           "thr", "lat"}

\* The request a round sends (enum of coord_proto.h).
Request(r) == CASE r = "conn"                    -> "CONN_OPEN"
                [] r \in {"mainLoad", "latLoad"} -> "START_LOAD"
                [] r \in {"probe", "measure"}    -> "START_MEASURE"
                [] r \in {"probeThr", "thr"}     -> "REPORT_THROUGHPUT"
                [] r = "lat"                     -> "REPORT_LATENCY"

Requests == {Request(r) : r \in Rounds}

\* Bytes of a reply: 12 of header and type, then its payload.
Size(kind) == CASE kind \in {"ack", "value0", "value1"} -> 12
                [] kind = "thr" -> 52
                [] kind = "lat" -> 258

Kinds == {"ack", "value0", "value1", "thr", "lat"}

\* What the Info word of a Read may be: the type of its first reply, or the value
\* itself.  When the first bytes of that reply have been read before, the word is
\* some part of its payload, or of the reply behind it, and may be anything.
Infos(m) == IF m.left < Size(m.kind) THEN 0..2
            ELSE CASE m.kind \in {"ack", "value0"} -> {0}
                   [] m.kind \in {"value1", "thr"} -> {1}
                   [] m.kind = "lat"               -> {2}

Reply(kind, req, epoch) ==
  [kind |-> kind, req |-> req, epoch |-> epoch, left |-> Size(kind)]

NoReply == [kind |-> "ack", req |-> 0, epoch |-> 0, left |-> 0]

\* Bytes the Read of a round asks for, and the Info it insists on.
ReadSize(r) == IF r \in {"probeThr", "thr", "lat"} THEN 1024 ELSE 64

Accepts(r, info) == CASE r = "conn"                -> TRUE
                      [] r \in {"probeThr", "thr"} -> info = 1
                      [] r = "lat"                 -> info = 2
                      [] OTHER                     -> info = 0

\* Bytes of the first k messages, for every k.
BytesUpTo(s) ==
  LET sum[k \in 0..Len(s)] == IF k = 0 THEN 0 ELSE sum[k - 1] + s[k].left
  IN  sum

\* The stream once a Read has taken up to n bytes: every message that fits
\* goes, the next one loses its first bytes.
AfterRead(s, n) ==
  LET whole == Max({k \in 0..Len(s) : BytesUpTo(s)[k] <= n})
      rest  == SubSeq(s, whole + 1, Len(s))
      cut   == n - BytesUpTo(s)[whole]
  IN  IF rest = <<>> THEN <<>> ELSE [rest EXCEPT ![1].left = @ - cut]

-----------------------------------------------------------------------------
(* The coordinator's plan.                                                 *)

Plan == IF Qual
        THEN <<"conn", "mainLoad", "latLoad", "probe", "probeThr", "measure",
               "lat", "thr">>
        ELSE <<"conn", "mainLoad", "latLoad", "measure", "thr", "lat">>

\* The agents a round talks to, in the order of the code's append calls.
Group(r) == CASE r = "conn"     -> IF exp.waitConn THEN Main ELSE <<>>
              [] r = "mainLoad" -> Main
              [] r = "latLoad"  -> Lt
              [] r \in {"probe", "probeThr", "measure"} -> All
              [] r = "thr"      -> Th
              [] r = "lat"      -> IF Qual THEN Sym \o Lt ELSE Lt \o Sym

Round == Plan[at]
Index(r) == CHOOSE i \in 1..Len(Plan) : Plan[i] = r
After(i) == Min({j \in i + 1 .. Len(Plan) + 1 :
                   j = Len(Plan) + 1 \/ Group(Plan[j]) # <<>>})
FirstRound == After(0)

LoadOf(r) == IF r = "latLoad" THEN exp.latLoad ELSE exp.mainLoad

Begin(n) == at' = n /\ idx' = 0 /\ allOpen' = TRUE

\* runExp returns to main: deferred or not, the process ends and its sockets
\* are closed.  A socket closed with unread bytes is reset by the kernel.
Leave(res) == /\ result' = res
              /\ reset' = {a \in Agents : stream'[a] # <<>>}
              /\ UNCHANGED <<at, idx, allOpen, polls, tries, step>>

\* A pattern function has returned.  stepPattern prints an error and goes on
\* with the next load level on the same connections.
Finish(ok) ==
  /\ clean' = (clean /\ ok)
  /\ IF Stepping /\ step < exp.steps
     THEN /\ step' = step + 1
          /\ polls' = 0 /\ tries' = 0
          /\ Begin(FirstRound)
          /\ UNCHANGED <<result, reset>>
     ELSE Leave(IF ok \/ Stepping THEN "ok" ELSE "err")

Advance(n) == /\ IF n > Len(Plan) THEN Finish(TRUE)
                 ELSE /\ Begin(n)
                      /\ UNCHANGED <<polls, tries, step, result, clean, reset>>

\* fixedQualPattern counts a failed check and goes back to round r.
Retry(r) ==
  IF tries + 1 = exp.tries THEN Finish(FALSE)
  ELSE /\ tries' = tries + 1 /\ polls' = 0
       /\ Begin(r)
       /\ UNCHANGED <<step, result, clean, reset>>

\* Fault: the poll limit is compared before the poll is counted.
PolledOutOneMore == polls = exp.polls

\* No connection poll is left after this one.
PolledOut == polls + 1 = exp.polls

\* Every agent of the round has answered; open: all polled values non-zero.
RoundDone(open) ==
  IF Round = "conn" /\ ~open
  THEN IF PolledOut THEN Finish(FALSE)
       ELSE /\ polls' = polls + 1
            /\ Begin(at)
            /\ UNCHANGED <<tries, step, result, clean, reset>>
  ELSE \/ Advance(After(at))
       \* Needing more than maxDuration is an error once all is collected.
       \/ Qual /\ After(at) > Len(Plan) /\ Finish(FALSE)
       \* Throughput or inter-arrival wrong: load again.
       \/ Round = "probeThr" /\ Retry(FirstRound)
       \* Samples not IID: measure again at a lower sampling rate.
       \/ Qual /\ Round = "lat" /\ Retry(Index("measure"))

\* broadcastMessage: write to one agent after the other.  A write to a peer
\* that has closed may fail, which leaves the later agents without it.
Broadcast ==
  /\ result = "running" /\ idx = 0
  /\ LET grp == Group(Round)
         msg == [req |-> reqNo + 1, kind |-> Request(Round),
                 load |-> LoadOf(Round)]
     IN  \E k \in 0..Len(grp) :
           /\ k < Len(grp) => mgr[grp[k + 1]] \in Gone
           /\ inbox' = [a \in Agents |->
                          IF a \in ToSet(SubSeq(grp, 1, k))
                             /\ mgr[a] \notin Gone
                          THEN Append(inbox[a], msg) ELSE inbox[a]]
           /\ reqNo' = reqNo + 1
           /\ measureNo' = IF Request(Round) = "START_MEASURE"
                           THEN reqNo + 1 ELSE measureNo
           /\ UNCHANGED <<exp, timeouts, got, stream, mgr, cur, agentVars>>
           /\ IF k = Len(grp)
              THEN /\ idx' = 1
                   /\ UNCHANGED <<at, allOpen, polls, tries, step, result,
                                  clean, reset>>
              ELSE Finish(FALSE)

\* One iteration of a collect function: Read returns what the stream holds,
\* up to the buffer's size, and only the first message is looked at.
ReadReply ==
  /\ result = "running" /\ idx > 0
  /\ LET grp == Group(Round)
         a   == grp[idx]
         m   == Head(stream[a])
     IN  /\ stream[a] # <<>>
         /\ stream' = [stream EXCEPT ![a] = AfterRead(@, ReadSize(Round))]
         /\ UNCHANGED <<exp, reqNo, measureNo, timeouts, inbox, mgr, cur, agentVars>>
         /\ \E info \in Infos(m) :
              LET open == allOpen /\ info # 0
              IN  IF ~Accepts(Round, info)
                  THEN Finish(FALSE) /\ UNCHANGED got
                  ELSE /\ got' = [got EXCEPT ![a] = m]
                       /\ IF idx < Len(grp)
                          THEN /\ idx' = idx + 1 /\ allOpen' = open
                               /\ UNCHANGED <<at, polls, tries, step, result,
                                              clean, reset>>
                          ELSE RoundDone(open)

\* Fault: an agent that cannot be read is skipped.
ReadErrorSkipsAgent ==
  IF idx < Len(Group(Round))
  THEN /\ idx' = idx + 1
       /\ UNCHANGED <<at, allOpen, polls, tries, step, result, clean, reset>>
  ELSE RoundDone(allOpen)

\* Fault: a failed Read is tried again.
ReadErrorTriesAgain ==
  UNCHANGED <<at, idx, allOpen, polls, tries, step, result, clean, reset>>

\* The first agent that cannot be read ends the round, and the pattern.
ReadError == Finish(FALSE)

\* The Read fails: the peer has gone, or the deadline has passed.
ReadFails ==
  /\ result = "running" /\ idx > 0
  /\ LET a == Group(Round)[idx]
     IN  /\ stream[a] = <<>>
         /\ \/ mgr[a] \in Gone /\ UNCHANGED timeouts
            \/ timeouts < MaxTimeouts /\ timeouts' = timeouts + 1
  /\ UNCHANGED <<exp, reqNo, measureNo, got, inbox, stream, mgr, cur, agentVars>>
  /\ ReadError

-----------------------------------------------------------------------------
(* The agent manager.                                                      *)

\* conn.send: the bytes join the stream; once the coordinator has gone they
\* are dropped, or the send raises and the manager dies of the exception.
Send(a, m, next) ==
  IF result = "running"
  THEN stream' = [stream EXCEPT ![a] = Append(@, m)]
       /\ mgr' = [mgr EXCEPT ![a] = next]
  ELSE UNCHANGED stream /\ mgr' \in {[mgr EXCEPT ![a] = next],
                                     [mgr EXCEPT ![a] = "crashed"]}

\* launch_agent: start the agent, map the control block and the stats.  When
\* the shared memory does not appear the assertion ends the manager.
Launch(a) ==
  /\ mgr[a] = "launching"
  /\ mgr' = [mgr EXCEPT ![a] = "idle"]
  /\ UNCHANGED <<coordVars, inbox, stream, reset, cur, agentVars>>

LaunchFails(a) ==
  /\ mgr[a] = "launching" /\ a \in exp.mayFail
  /\ mgr' = [mgr EXCEPT ![a] = "crashed"]
  /\ UNCHANGED <<coordVars, inbox, stream, reset, cur, agentVars>>

\* recv_msg.  START_LOAD and START_MEASURE are acknowledged here, before
\* process_msg applies them; CONN_OPEN is answered from the control block.
Receive(a) ==
  /\ mgr[a] = "idle" /\ inbox[a] # <<>>
  /\ LET m == Head(inbox[a])
     IN  /\ inbox' = [inbox EXCEPT ![a] = Tail(@)]
         /\ cur' = [cur EXCEPT ![a] = m]
         /\ CASE m.kind \in {"START_LOAD", "START_MEASURE"} ->
                   Send(a, Reply("ack", m.req, 0), "apply")
              [] m.kind = "CONN_OPEN" ->
                   Send(a, Reply(IF connOpen[a] THEN "value1" ELSE "value0",
                                 m.req, 0), "idle")
              [] OTHER -> /\ mgr' = [mgr EXCEPT ![a] = "apply"]
                          /\ UNCHANGED stream
  /\ UNCHANGED <<coordVars, reset, agentVars>>

\* start_load: a zero load divides by zero after should_measure is cleared,
\* and the exception ends the manager without terminating the agent.
StartLoad(a) ==
  /\ mgr[a] = "apply" /\ cur[a].kind = "START_LOAD"
  /\ measuring' = [measuring EXCEPT ![a] = FALSE]
  /\ IF cur[a].load = 0
     THEN mgr' = [mgr EXCEPT ![a] = "crashed"] /\ UNCHANGED loading
     ELSE /\ mgr' = [mgr EXCEPT ![a] = "idle"]
          /\ loading' = [loading EXCEPT ![a] = TRUE]
  /\ UNCHANGED <<coordVars, inbox, stream, reset, cur, alive, connOpen, mEpoch,
                 samples>>

\* Fault: the stats are not cleared.
ClearStatsNot(a) == UNCHANGED samples

ClearStats(a) == samples' = [samples EXCEPT ![a] = 0]

\* start_measure: clear the stats and raise should_measure.
StartMeasure(a) ==
  /\ mgr[a] = "apply" /\ cur[a].kind = "START_MEASURE"
  /\ ClearStats(a)
  /\ measuring' = [measuring EXCEPT ![a] = TRUE]
  /\ mEpoch' = [mEpoch EXCEPT ![a] = cur[a].req]
  /\ mgr' = [mgr EXCEPT ![a] = "idle"]
  /\ UNCHANGED <<coordVars, inbox, stream, reset, cur, alive, connOpen, loading>>

\* REPORT_REQ for throughput.  Without a start_time the manager would die, which
\* no pattern meets: START_MEASURE always comes before on the same connection.
ReportThroughput(a) ==
  /\ mgr[a] = "apply" /\ cur[a].kind = "REPORT_THROUGHPUT"
  /\ measuring' = [measuring EXCEPT ![a] = FALSE]
  /\ IF mEpoch[a] = 0
     THEN mgr' = [mgr EXCEPT ![a] = "crashed"] /\ UNCHANGED stream
     ELSE Send(a, Reply("thr", cur[a].req, mEpoch[a]), "idle")
  /\ UNCHANGED <<coordVars, inbox, reset, cur, alive, connOpen, loading, mEpoch,
                 samples>>

\* Fault: the agent is not killed.
TerminateNot(a) == UNCHANGED alive

\* terminate: the manager kills its agent.
Terminate(a) == alive' = [alive EXCEPT ![a] = FALSE]

\* REPORT_REQ for latency.  Aggregating no samples raises ValueError, on
\* which run closes the connection and kills the agent.
ReportLatency(a) ==
  /\ mgr[a] = "apply" /\ cur[a].kind = "REPORT_LATENCY"
  /\ measuring' = [measuring EXCEPT ![a] = FALSE]
  /\ IF samples[a] = 0
     THEN /\ mgr' = [mgr EXCEPT ![a] = "exited"]
          /\ Terminate(a)
          /\ UNCHANGED stream
     ELSE Send(a, Reply("lat", cur[a].req, samples[a]), "idle") /\ UNCHANGED alive
  /\ UNCHANGED <<coordVars, inbox, reset, cur, connOpen, loading, mEpoch,
                 samples>>

\* Fault: the end of the stream goes unnoticed, only a reset is seen.
PeerGoneIfReset(a) == inbox[a] = <<>> /\ a \in reset

\* recv has no request left to return and the coordinator has gone.
PeerGone(a) == inbox[a] = <<>> /\ result # "running"

\* recv finds the coordinator gone: end of stream makes run kill the agent, a
\* reset connection raises instead and leaves the agent running.
CoordinatorGone(a) ==
  /\ mgr[a] = "idle" /\ PeerGone(a)
  /\ IF a \in reset
     THEN mgr' = [mgr EXCEPT ![a] = "crashed"] /\ UNCHANGED alive
     ELSE /\ mgr' = [mgr EXCEPT ![a] = "exited"]
          /\ Terminate(a)
  /\ UNCHANGED <<coordVars, inbox, stream, reset, cur, connOpen, loading,
                 measuring, mEpoch, samples>>

-----------------------------------------------------------------------------
(* The agent process, as far as the manager sees it.                       *)

\* All threads have opened their connections (the barrier, set_conn_open).
OpenConnections(a) ==
  /\ alive[a] /\ ~connOpen[a]
  /\ connOpen' = [connOpen EXCEPT ![a] = TRUE]
  /\ UNCHANGED <<coordVars, inbox, stream, reset, mgr, cur, alive, loading,
                 measuring, mEpoch, samples>>

\* add_latency_sample by some thread of the agent.
AddSample(a) ==
  /\ alive[a] /\ loading[a] /\ measuring[a] /\ samples[a] # mEpoch[a]
  /\ exp.waitConn /\ a \in ToSet(Main) => connOpen[a]
  /\ samples' = [samples EXCEPT ![a] = mEpoch[a]]
  /\ UNCHANGED <<coordVars, inbox, stream, reset, mgr, cur, alive, connOpen,
                 loading, measuring, mEpoch>>

\* Thread 0 returns on a connection error, which ends the process.
AgentDies(a) ==
  /\ a \in exp.mayDie /\ alive[a]
  /\ alive' = [alive EXCEPT ![a] = FALSE]
  /\ UNCHANGED <<coordVars, inbox, stream, reset, mgr, cur, connOpen, loading,
                 measuring, mEpoch, samples>>

-----------------------------------------------------------------------------
NoRequest == [req |-> 0, kind |-> "CONN_OPEN", load |-> 0]

\* main has deployed the agents and dialled every manager; the listening
\* socket accepts the connection before launch_agent has returned.
\* A host without a role runs nothing.
Init ==
  /\ exp \in Experiments
  /\ at = FirstRound /\ idx = 0 /\ allOpen = TRUE
  /\ polls = 0 /\ tries = 0 /\ step = 1 /\ result = "running" /\ clean = TRUE
  /\ reqNo = 0 /\ measureNo = 0 /\ timeouts = 0
  /\ got = [a \in Agents |-> NoReply]
  /\ inbox = [a \in Agents |-> <<>>] /\ stream = [a \in Agents |-> <<>>]
  /\ reset = {}
  /\ mgr = [a \in Agents |-> IF a \in ToSet(All) THEN "launching" ELSE "exited"]
  /\ cur = [a \in Agents |-> NoRequest]
  /\ alive = [a \in Agents |-> a \in ToSet(All)] /\ connOpen = [a \in Agents |-> FALSE]
  /\ loading = [a \in Agents |-> FALSE] /\ measuring = [a \in Agents |-> FALSE]
  /\ mEpoch = [a \in Agents |-> 0] /\ samples = [a \in Agents |-> 0]

Coordinator == Broadcast \/ ReadReply \/ ReadFails
Manager(a) == \/ Launch(a) \/ LaunchFails(a) \/ Receive(a) \/ StartLoad(a)
              \/ StartMeasure(a) \/ ReportThroughput(a) \/ ReportLatency(a)
              \/ CoordinatorGone(a)
Agent(a) == OpenConnections(a) \/ AddSample(a) \/ AgentDies(a)

\* The experiment is over and every manager process has ended.
Finished == /\ result # "running"
            /\ \A a \in Agents : mgr[a] \in Gone
            /\ UNCHANGED vars

Next == \/ Coordinator
        \/ \E a \in Agents : Manager(a) \/ Agent(a)
        \/ Finished

\* The coordinator and the managers are operating-system processes that keep
\* being scheduled; sleeps are finite and every read has a deadline.  Nothing
\* is assumed of the agent processes or of deadlines expiring.
Fairness == WF_vars(Coordinator) /\ \A a \in Agents : WF_vars(Manager(a))

Spec == Init /\ [][Next]_vars /\ Fairness

-----------------------------------------------------------------------------
(* Properties.                                                             *)

Message == [req : Nat, kind : Requests, load : {0, 1}]

\* Every variable keeps its type; polls and tries stay below the limits load
\* and fixedQualPattern give them.
TypeOK ==
  /\ at \in 1..Len(Plan) + 1 /\ idx \in 0..Len(All)
  /\ allOpen \in BOOLEAN /\ clean \in BOOLEAN
  /\ polls < exp.polls /\ tries < exp.tries /\ step \in 1..exp.steps
  /\ result \in {"running", "ok", "err"}
  /\ {reqNo, measureNo} \subseteq Nat /\ timeouts \in 0..MaxTimeouts
  /\ \A a \in Agents :
       /\ inbox[a] \in Seq(Message) /\ cur[a] \in Message
       /\ \A i \in 1..Len(stream[a]) :
            stream[a][i].kind \in Kinds /\ stream[a][i].left > 0
       /\ mgr[a] \in Gone \cup {"launching", "idle", "apply"}
       /\ {mEpoch[a], samples[a]} \subseteq 0..measureNo
  /\ reset \subseteq Agents
  /\ {alive, connOpen, loading, measuring} \subseteq [Agents -> BOOLEAN]

\* Until the first error, a reply the coordinator accepts from an agent is a
\* whole reply to the request of the current round, although replies carry no
\* request number: collectAcks, collectValues and the collect...Results functions.
AnswersTheRequest ==
  [][\A a \in Agents : clean /\ got'[a] # got[a] =>
       /\ got'[a].req = reqNo
       /\ got'[a].left = Size(got'[a].kind)]_got

\* Until the first error, a report the coordinator accepts was computed from what
\* its agent measured since the last START_MEASURE round, never from an earlier
\* load level or an earlier attempt (collectThroughputResults,
\* collectLatencyResults).  After three expired deadlines a step pattern can
\* accept the throughput of an earlier level.
FreshReports ==
  [][\A a \in Agents :
       (clean /\ got'[a] # got[a] /\ Round \in {"probeThr", "thr", "lat"}) =>
         /\ got'[a].kind = (IF Round = "lat" THEN "lat" ELSE "thr")
         /\ got'[a].epoch = measureNo]_got

\* The managers raise should_measure only in agents that have been told to
\* load, whatever was lost, late or failed before (start_load, start_measure).
MeasuringImpliesLoading == \A a \in Agents : measuring[a] => loading[a]

\* An experiment without an error has a report of the last measurement from
\* every agent, no unread reply, and every agent still under load.
CleanResult ==
  (result = "ok" /\ clean) =>
    \A a \in ToSet(All) :
      /\ got[a].epoch = measureNo /\ loading[a]
      /\ got[a].kind = (IF a \in ToSet(Th) THEN "thr" ELSE "lat")
      /\ stream[a] = <<>> /\ inbox[a] = <<>>

\* collectValues waits for values (proto.go:76): what check_conn_open takes for
\* the state of an agent's connections is one.
PolledValuesAreValues ==
  [][\A a \in Agents : (got'[a] # got[a] /\ Round = "conn") =>
       got'[a].kind \in {"value0", "value1"}]_got

\* The coordinator ends: polling, retrying and load levels are all limited and
\* it waits for nothing that cannot come (load, fixedQualPattern, stepPattern).
CoordinatorEnds == <>(result # "running")

\* Once the coordinator has gone every manager process ends too, whatever it
\* was doing (LancetServer.run).
ManagersEnd == (result # "running") ~> \A a \in Agents : mgr[a] \in Gone

\* After an experiment without an error no agent keeps loading the target:
\* every manager sees the end of its stream and kills its agent.
CleanRunStopsAgents ==
  (result = "ok" /\ clean) ~> \A a \in Agents : ~alive[a]
=============================================================================
