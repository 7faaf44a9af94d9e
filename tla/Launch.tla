------------------------------- MODULE Launch -------------------------------
(***************************************************************************)
(* How an agent and its manager find each other (agents/agent.c, the first *)
(* half of agents/stats.c, launch_agent of agentcontroller.py).            *)
(*                                                                         *)
(* The manager starts the agent and at once opens the shared memory the    *)
(* agent is about to create.  Nobody removes shared memory: the manager    *)
(* may find the control block and the statistics of an earlier experiment, *)
(* or a block the agent has truncated, sized or written in part.  Touching *)
(* a truncated block is a bus error.  The agent's threads open their       *)
(* connections, meet at a barrier and tell so in the control block.        *)
(***************************************************************************)
EXTENDS Naturals, Sequences, FiniteSets

CONSTANTS
  Types,     \* agent types of an experiment, in 0..3: enum agent_type
  Counts,    \* numbers of threads of an agent
  MaxTries   \* tries of retry_open_shmem: 10 in the code

ASSUME LaunchAssumption ==
  /\ Types \subseteq 0..3
  /\ Counts \subseteq Nat \ {0}
  /\ MaxTries \in Nat \ {0}

VARIABLES
  cfg,        \* the agent's arguments: type, count, whether its threads use the
              \* barrier, and whether the coordinator polls conn_open
  old,        \* what an earlier experiment has left behind
  block,      \* /lancetcontrol; own: a ghost, the agent has truncated it
  file,       \* per thread, /lancet-stats<i>
  agent,      \* what the main function of the agent does
  written,    \* words of the control block it has written
  thread,     \* per thread, what agent_main does
  connected,  \* ghost: threads that have opened all their connections
  mgr,        \* what the manager does
  view,       \* what it has read: agent_type and thread_count
  mapped,     \* statistics it has mapped
  tries,      \* tries of the current retry_open_shmem that found nothing
  polled      \* a poll has returned a non-zero conn_open

agentVars == <<agent, written, thread, connected>>
mgrVars == <<mgr, view, mapped, tries, polled>>
vars == <<cfg, old, block, file, agentVars, mgrVars>>

AllThreads == UNION {0..n - 1 : n \in Counts}
Threads == 0..cfg.count - 1

\* Of which structure the statistics of an agent type are, by size.
Structure(type) == IF type = 0 THEN "throughput" ELSE "latency"
Fits(type) == IF type = 0 THEN {"throughput", "latency"} ELSE {"latency"}

Zeroed == [state |-> "sized", type |-> 0, count |-> 0, rate |-> "none",
           load |-> FALSE, open |-> FALSE, own |-> TRUE]
Sized == block.state = "sized"

Configurations ==
  {c \in [type : Types, count : Counts, barrier : BOOLEAN, polls : BOOLEAN] :
     \* latency agents never use the barrier, and only TCP agents are polled
     (c.type = 1 => ~c.barrier) /\ (c.polls => c.barrier)}

Leftovers == [there : {TRUE}, type : Types, count : Counts, open : BOOLEAN]
             \cup {[there |-> FALSE, type |-> 0, count |-> 0, open |-> FALSE]}

Init ==
  /\ cfg \in Configurations /\ old \in Leftovers
  /\ block = IF old.there
             THEN [state |-> "sized", type |-> old.type, count |-> old.count,
                   rate |-> "asked", load |-> TRUE, open |-> old.open,
                   own |-> FALSE]
             ELSE [Zeroed EXCEPT !.state = "absent", !.own = FALSE]
  /\ file = [i \in AllThreads |-> IF i < old.count THEN Structure(old.type)
                                  ELSE "absent"]
  /\ agent = "start" /\ written = 0 /\ connected = {}
  /\ thread = [i \in AllThreads |-> "none"]
  /\ mgr = "open" /\ view = [type |-> 0, count |-> 0] /\ mapped = 0
  /\ tries = 0 /\ polled = FALSE

-----------------------------------------------------------------------------
(* The agent: main and configure_control_block.                            *)

\* Unusable arguments, or a failing system call: exit(-1).
AgentFails ==
  /\ agent \in {"start", "size", "threads"}
  /\ agent' = "ended"
  /\ UNCHANGED <<cfg, old, block, file, written, thread, connected, mgrVars>>

\* shm_open with O_CREAT and O_TRUNC.
CreateBlock ==
  /\ agent = "start"
  /\ agent' = "size"
  /\ block' = [Zeroed EXCEPT !.state = "empty"]
  /\ UNCHANGED <<cfg, old, file, written, thread, connected, mgrVars>>

\* ftruncate: from here on the block can be touched and reads as zero.
SizeBlock ==
  /\ agent = "size"
  /\ agent' = "write"
  /\ block' = [block EXCEPT !.state = "sized"]
  /\ UNCHANGED <<cfg, old, file, written, thread, connected, mgrVars>>

\* Fault: the number of threads is written last.
WritesTypeFirst == <<"zero", "idist", "agent_type", "thread_count">>

\* The order in which the block is written.
Writes == <<"zero", "thread_count", "idist", "agent_type">>

WriteBlock ==
  /\ agent = "write"
  /\ block' = CASE Writes[written + 1] = "zero" -> Zeroed
                [] Writes[written + 1] = "thread_count" ->
                     [block EXCEPT !.count = cfg.count]
                [] Writes[written + 1] = "idist" ->
                     [block EXCEPT !.rate = "arguments"]
                [] Writes[written + 1] = "agent_type" ->
                     [block EXCEPT !.type = cfg.type]
  /\ written' = written + 1
  /\ agent' = IF written' = Len(Writes) THEN "threads" ELSE "write"
  /\ UNCHANGED <<cfg, old, file, thread, connected, mgrVars>>

\* pthread_create for the threads from 1; the main thread is thread 0.
StartThreads ==
  /\ agent = "threads"
  /\ agent' = "running"
  /\ thread' = [i \in AllThreads |-> IF i \in Threads THEN "create" ELSE "none"]
  /\ UNCHANGED <<cfg, old, block, file, written, connected, mgrVars>>

-----------------------------------------------------------------------------
(* The agent's threads: agent_main and the start of a transport's main.    *)

\* configure_stats_shm: shm_open with O_TRUNC, then ftruncate.
CreateStats(i) ==
  /\ agent = "running" /\ thread[i] = "create"
  /\ file' = [file EXCEPT ![i] = "empty"]
  /\ thread' = [thread EXCEPT ![i] = "size"]
  /\ UNCHANGED <<cfg, old, block, agent, written, connected, mgrVars>>

SizeStats(i) ==
  /\ agent = "running" /\ thread[i] = "size"
  /\ file' = [file EXCEPT ![i] = Structure(cfg.type)]
  /\ thread' = [thread EXCEPT ![i] = "connect"]
  /\ UNCHANGED <<cfg, old, block, agent, written, connected, mgrVars>>

Connect(i) ==
  /\ agent = "running" /\ thread[i] = "connect"
  /\ thread' = [thread EXCEPT ![i] = IF cfg.barrier THEN "barrier" ELSE "main"]
  /\ connected' = connected \cup {i}
  /\ UNCHANGED <<cfg, old, block, file, agent, written, mgrVars>>

\* A connection fails, then or later: the thread returns.  Thread 0 ends the
\* process with it, and so does any latency agent's by exit.
ThreadFails(i) ==
  /\ agent = "running" /\ thread[i] \in {"connect", "main"}
  /\ thread' = [thread EXCEPT ![i] = "returned"]
  /\ agent' \in IF i = 0 THEN {"ended"}
                ELSE IF cfg.type = 1 THEN {"running", "ended"} ELSE {"running"}
  /\ UNCHANGED <<cfg, old, block, file, written, connected, mgrVars>>

Waiting == {i \in Threads : thread[i] = "barrier"}

\* Fault: the barrier is for the threads pthread_create starts.
BarrierOfOthers == cfg.count - 1

\* Fault: the barrier is for the threads and the main function.
BarrierOneMore == cfg.count + 1

\* Threads conn_open_barrier waits for.
BarrierCount == cfg.count

\* The last thread arrives and pthread_barrier_wait returns in all of them.
PassBarrier ==
  /\ agent = "running" /\ Cardinality(Waiting) = BarrierCount
  /\ thread' = [i \in AllThreads |-> IF i \in Waiting THEN "tell" ELSE thread[i]]
  /\ UNCHANGED <<cfg, old, block, file, agent, written, connected, mgrVars>>

SetConnOpen(i) ==
  /\ agent = "running" /\ thread[i] = "tell"
  /\ block' = [block EXCEPT !.open = TRUE]
  /\ thread' = [thread EXCEPT ![i] = "main"]
  /\ UNCHANGED <<cfg, old, file, agent, written, connected, mgrVars>>

-----------------------------------------------------------------------------
(* The manager: launch_agent, then the first requests of a coordinator.    *)

\* An assertion, an exception or a bus error.
ManagerDies == mgr' = "dead" /\ UNCHANGED <<view, mapped, tries, polled>>

\* Fault: the tries are one too many.
LastTryLate == tries = MaxTries

LastTry == tries + 1 = MaxTries

\* retry_open_shmem: found, or not yet, or not at all, which an assertion ends.
OpenShm(found, next) ==
  \/ found /\ mgr' = next /\ tries' = 0 /\ UNCHANGED <<view, mapped, polled>>
  \/ ~found /\ LastTry /\ ManagerDies
  \/ /\ ~found /\ ~LastTry
     /\ tries' = tries + 1
     /\ UNCHANGED <<mgr, view, mapped, polled>>

OpenControl == mgr = "open" /\ OpenShm(block.state # "absent", "map")

\* mmap raises ValueError for more bytes than the file has.
MapControl ==
  /\ mgr = "map"
  /\ \/ ~Sized /\ ManagerDies
     \/ Sized /\ mgr' = "type" /\ UNCHANGED <<view, mapped, tries, polled>>

\* agent_type == 0, == 1, == 2, == 3: every comparison reads the word again.
CompareType ==
  /\ mgr = "type"
  /\ \/ ~Sized /\ ManagerDies
     \/ /\ Sized /\ block.type = view.type
        /\ mgr' = "count" /\ UNCHANGED <<view, mapped, tries, polled>>
     \/ /\ Sized /\ block.type # view.type /\ view.type < 3
        /\ view' = [view EXCEPT !.type = @ + 1]
        /\ UNCHANGED <<mgr, mapped, tries, polled>>
     \/ Sized /\ block.type # view.type /\ view.type = 3 /\ ManagerDies

ReadCount ==
  /\ mgr = "count"
  /\ \/ ~Sized /\ ManagerDies
     \/ /\ Sized /\ mgr' = "stats" /\ view' = [view EXCEPT !.count = block.count]
        /\ UNCHANGED <<mapped, tries, polled>>

\* The loop over the threads: open and map their statistics.
OpenStats ==
  /\ mgr = "stats" /\ mapped < view.count
  /\ OpenShm(file[mapped] # "absent", "mapstats")

MapStats ==
  /\ mgr = "mapstats"
  /\ \/ file[mapped] \notin Fits(view.type) /\ ManagerDies
     \/ /\ file[mapped] \in Fits(view.type)
        /\ mgr' = "stats" /\ mapped' = mapped + 1
        /\ UNCHANGED <<view, tries, polled>>

Launched ==
  /\ mgr = "stats" /\ mapped = view.count
  /\ mgr' = "serving"
  /\ UNCHANGED <<view, mapped, tries, polled>>

\* get_conn_open, until the coordinator has seen it set.
PollConnections ==
  /\ mgr = "serving" /\ cfg.polls /\ ~polled
  /\ \/ ~Sized /\ ManagerDies
     \/ Sized /\ polled' = block.open /\ UNCHANGED <<mgr, view, mapped, tries>>

\* Fault: a block without threads is given the whole load.
DividesAnyway == TRUE

\* The load is divided by thread_count as it is now.
Divides == block.count > 0

\* start_load: the division, and set_avg_ext.
SetRate ==
  /\ mgr = "serving" /\ (cfg.polls => polled)
  /\ \/ ~(Sized /\ Divides) /\ ManagerDies /\ UNCHANGED block
     \/ /\ Sized /\ Divides
        /\ block' = [block EXCEPT !.rate = "asked"]
        /\ mgr' = "rate" /\ UNCHANGED <<view, mapped, tries, polled>>

RaiseLoad ==
  /\ mgr = "rate"
  /\ \/ ~Sized /\ ManagerDies /\ UNCHANGED block
     \/ /\ Sized /\ block' = [block EXCEPT !.load = TRUE]
        /\ mgr' = "loading" /\ UNCHANGED <<view, mapped, tries, polled>>

-----------------------------------------------------------------------------
Main == CreateBlock \/ SizeBlock \/ WriteBlock \/ StartThreads \/ AgentFails
Thread(i) == \/ CreateStats(i) \/ SizeStats(i) \/ Connect(i) \/ SetConnOpen(i)
Looks == \/ OpenControl \/ MapControl \/ CompareType \/ ReadCount \/ OpenStats
         \/ MapStats \/ Launched \/ PollConnections
Manager == \/ Looks /\ UNCHANGED <<cfg, old, block, file, agentVars>>
           \/ (SetRate \/ RaiseLoad) /\ UNCHANGED <<cfg, old, file, agentVars>>

Next == \/ Main \/ PassBarrier \/ Manager
        \/ \E i \in AllThreads : Thread(i) \/ ThreadFails(i)

\* Both are processes that keep being scheduled.  Connections may take any
\* time, and their failing is not excluded.
Spec == /\ Init /\ [][Next]_vars
        /\ WF_vars(Main) /\ WF_vars(PassBarrier) /\ WF_vars(Manager)
        /\ \A i \in AllThreads : WF_vars(Thread(i))

-----------------------------------------------------------------------------
(* Properties.                                                             *)

LaunchPhases == {"open", "map", "type", "count", "stats", "mapstats"}
Viewed == mgr \in {"stats", "mapstats", "serving", "rate", "loading"}

\* Every variable keeps its type, and a manager past mmap has a control block
\* the agent has at least truncated.
TypeOK ==
  /\ cfg \in Configurations /\ old \in Leftovers
  /\ block.state \in {"absent", "empty", "sized"} /\ block.count \in Counts \cup {0}
  /\ agent \in {"start", "size", "write", "threads", "running", "ended"}
  /\ written \in 0..Len(Writes) /\ connected \subseteq AllThreads
  /\ mgr \in LaunchPhases \cup {"serving", "rate", "loading", "dead"}
  /\ mapped \in 0..view.count /\ tries \in 0..MaxTries - 1
  /\ mgr \notin {"open", "dead"} => block.state # "absent"

\* When nothing was left behind, a manager that has read a type other than 0
\* has the type and the number of threads of its agent: agent_type is written
\* last (configure_control_block) and read first (launch_agent).
ViewOfThisAgent ==
  ~old.there /\ Viewed /\ view.type # 0 =>
    view = [type |-> cfg.type, count |-> cfg.count]

\* A load the manager has started stays on, at the rate it asked for: the agent
\* does not write over either.  That takes a poll of conn_open, or that nothing was
\* left behind; the rate then also takes a thread whose statistics were awaited.
LoadInForce ==
  mgr = "loading" =>
    /\ ~old.there \/ (cfg.polls /\ ~old.open) => block.load
    /\ (~old.there /\ view.count > 0) \/ (cfg.polls /\ ~old.open) =>
         block.rate = "asked"

\* conn_open tells that all threads have opened all their connections, in the
\* agent's own block and, unless one was left behind set, to whoever polls.
OpenMeansConnected ==
  (block.open /\ block.own) \/ (polled /\ ~old.open) =>
    connected = Threads

\* Once all connections are open conn_open is set, unless the agent ends.
ConnectionsAreTold ==
  (cfg.barrier /\ connected = Threads) ~> (block.open \/ agent = "ended")
=============================================================================
