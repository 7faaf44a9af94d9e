---------------------------- MODULE Launch_proofs ----------------------------
(***************************************************************************)
(* Theorems about Launch, for any agent types, numbers of threads and      *)
(* tries, and anything an earlier experiment may have left behind.         *)
(*                                                                         *)
(* The agent writes its control block in one order and never twice, so the *)
(* number of words written says what is in the block, unless something was *)
(* left in it (BlockInv), which threads there can be (ThreadInv) and what  *)
(* the manager can have seen (ManagerInv).                                 *)
(***************************************************************************)
EXTENDS Launch, FiniteSetTheorems, TLAPS

BlockType ==
  [state : {"absent", "empty", "sized"}, type : 0..3, count : Counts \cup {0},
   rate : {"none", "arguments", "asked"}, load : BOOLEAN, open : BOOLEAN, own : BOOLEAN]

LaunchTypes ==
  /\ cfg \in Configurations /\ old \in Leftovers
  /\ block \in BlockType /\ polled \in BOOLEAN

\* The main function: how far it is in its block.
AgentInv ==
  /\ agent \in {"start", "size", "write", "threads", "running", "ended"}
  /\ written \in 0..4
  /\ agent \in {"start", "size"} => written = 0
  /\ agent = "write" => written < 4
  /\ agent \in {"threads", "running"} => written = 4
  /\ agent \in {"size", "write"} \/ written > 0 => block.own

\* What the block holds, by the number of words written.
BlockInv ==
  /\ written >= 2 => block.count = cfg.count
  /\ written = 4 => block.type = cfg.type
  /\ ~old.there /\ written < 4 => block.type = 0
  /\ ~old.there /\ written < 2 => block.count = 0
  /\ block.open => IF block.own THEN written = 4 /\ connected = Threads ELSE old.open

\* The threads: what they have done before they are where they are.
ThreadInv ==
  /\ connected \in SUBSET Threads
  /\ thread \in [AllThreads -> {"none", "create", "size", "connect", "barrier", "tell",
                                "main", "returned"}]
  /\ \A i \in AllThreads :
       /\ thread[i] # "none" => i \in Threads /\ written = 4
       /\ thread[i] = "barrier" => i \in connected
       /\ thread[i] = "tell" => connected = Threads

FileInv ==
  /\ file \in [AllThreads -> {"absent", "empty", "throughput", "latency"}]
  /\ ~old.there => \A i \in AllThreads : file[i] # "absent" => written = 4

\* The manager: how far it is, and what it has seen.
ManagerTypes ==
  /\ mgr \in LaunchPhases \cup {"serving", "rate", "loading", "dead"}
  /\ view \in [type : 0..3, count : Counts \cup {0}]
  /\ mapped \in 0..view.count /\ tries \in 0..MaxTries - 1
  /\ mgr \notin {"open", "dead"} => block.state # "absent"
  /\ mgr \in {"open", "map", "type", "count"} => mapped = 0
  /\ mgr = "mapstats" => mapped < view.count
  /\ mgr \in {"serving", "rate", "loading"} => mapped = view.count
  /\ mgr \in {"rate", "loading"} /\ cfg.polls => polled

\* The poll has told of this agent's connections.
Polled == polled /\ ~old.open

ManagerInv ==
  /\ ~old.there /\ (mapped > 0 \/ mgr = "mapstats") => written = 4
  /\ ~old.there /\ (Viewed \/ mgr = "count") /\ view.type # 0 =>
       written = 4 /\ view.type = cfg.type
  /\ ~old.there /\ mgr \in {"rate", "loading"} => written >= 2
  /\ Polled => written = 4 /\ connected = Threads
  /\ mgr \in {"rate", "loading"} /\ ((~old.there /\ view.count > 0) \/ Polled) =>
       block.rate = "asked"
  /\ mgr = "loading" /\ (~old.there \/ Polled) => block.load

IInv ==
  /\ LaunchTypes /\ AgentInv /\ BlockInv /\ ThreadInv /\ FileInv
  /\ ManagerTypes /\ ManagerInv /\ ViewOfThisAgent


-----------------------------------------------------------------------------
(* Constants, and what a step leaves alone.                                *)

LEMMA Constants ==
  /\ \A t \in Types : t \in 0..3
  /\ \A n \in Counts : n \in Nat /\ n > 0
  /\ MaxTries \in Nat /\ MaxTries > 0 /\ Len(Writes) = 4
  BY LaunchAssumption DEF Writes

LEMMA Configured ==
  ASSUME LaunchTypes
  PROVE  /\ cfg.count \in Counts /\ cfg.count \in Nat /\ cfg.count > 0
         /\ cfg.type \in 0..3 /\ cfg.barrier \in BOOLEAN
         /\ old.open \in BOOLEAN /\ old.there \in BOOLEAN
         /\ ~old.there => ~old.open /\ old.count = 0
         /\ Threads \in SUBSET AllThreads
         /\ block.state \in {"absent", "empty", "sized"}
         /\ block.type \in 0..3 /\ block.count \in Counts \cup {0} /\ block.own \in BOOLEAN
         /\ block.open \in BOOLEAN /\ block.load \in BOOLEAN
  <1>1. /\ cfg.count \in Counts /\ cfg.type \in Types /\ cfg.barrier \in BOOLEAN
    BY DEF LaunchTypes, Configurations
  <1>2. /\ old.open \in BOOLEAN /\ old.there \in BOOLEAN
        /\ ~old.there => ~old.open /\ old.count = 0
    <2>1. CASE old \in [there : {TRUE}, type : Types, count : Counts, open : BOOLEAN]
      BY <2>1
    <2>2. CASE old = [there |-> FALSE, type |-> 0, count |-> 0, open |-> FALSE]
      BY <2>2
    <2>. QED BY <2>1, <2>2 DEF LaunchTypes, Leftovers
  <1>3. Threads \in SUBSET AllThreads
    BY <1>1, Constants DEF Threads, AllThreads
  <1>4. /\ block.state \in {"absent", "empty", "sized"}
        /\ block.type \in 0..3 /\ block.count \in Counts \cup {0} /\ block.own \in BOOLEAN
        /\ block.open \in BOOLEAN /\ block.load \in BOOLEAN
    BY DEF LaunchTypes, BlockType
  <1>. QED BY <1>1, <1>2, <1>3, <1>4, Constants

LEMMA ThreadsCounted ==
  ASSUME LaunchTypes
  PROVE  IsFiniteSet(Threads) /\ Cardinality(Threads) = cfg.count
  <1>1. cfg.count \in Nat /\ cfg.count > 0 /\ cfg.count - 1 \in Int /\ 0 \in Int
    BY Configured
  <1>2. /\ IsFiniteSet(0..cfg.count - 1)
        /\ Cardinality(0..cfg.count - 1) =
             IF 0 > cfg.count - 1 THEN 0 ELSE cfg.count - 1 - 0 + 1
    BY <1>1, FS_Interval
  <1>. QED BY <1>1, <1>2 DEF Threads

\* A step of the agent disturbs the manager by what it writes only.
LEMMA ManagerKept ==
  ASSUME IInv, UNCHANGED <<cfg, old, mgrVars>>,
         written' \in 0..4, written <= written',
         connected = Threads => connected' = Threads,
         block.state # "absent" => block'.state # "absent",
         written >= 2 => block'.load = block.load,
         written = 4 => block'.rate = block.rate
  PROVE  ManagerTypes' /\ ManagerInv' /\ ViewOfThisAgent'
  <1>. USE DEF IInv, mgrVars
  <1>1. ManagerTypes'
    <2>1. ManagerTypes /\ UNCHANGED <<cfg, mgr, view, mapped, tries, polled>>
      OBVIOUS
    <2>2. polled \in BOOLEAN
      BY DEF LaunchTypes
    <2>. QED BY <2>1, <2>2 DEF ManagerTypes
  <1>2. /\ written \in 0..4 /\ mapped \in Nat /\ view.count \in Nat
        /\ mgr \in {"rate", "loading"} => mapped = view.count
        /\ Threads' = Threads /\ (Polled' <=> Polled) /\ (Viewed' <=> Viewed)
    BY Constants DEF AgentInv, ManagerTypes, Threads, Polled, Viewed
  <1>3. written = 4 => written' = 4
    BY <1>2
  <1>4. /\ written >= 2 => written' >= 2
        /\ written = 4 => written >= 2
    BY <1>2
  <1>5. mgr \in {"rate", "loading"} /\ ((~old.there /\ view.count > 0) \/ Polled) =>
          written = 4
    BY <1>2 DEF ManagerInv
  <1>6. mgr = "loading" /\ (~old.there \/ Polled) => written >= 2
    BY <1>4 DEF ManagerInv
  <1>7. ManagerInv'
    BY <1>2, <1>3, <1>4, <1>5, <1>6 DEF ManagerInv
  <1>8. ViewOfThisAgent'
    BY <1>2 DEF ViewOfThisAgent
  <1>. QED BY <1>1, <1>7, <1>8

-----------------------------------------------------------------------------
(* The agent's main function.                                              *)

LEMMA ZeroedBlock ==
  /\ Zeroed \in BlockType /\ [Zeroed EXCEPT !.state = "empty"] \in BlockType
  /\ [Zeroed EXCEPT !.state = "empty"].own /\ ~[Zeroed EXCEPT !.state = "empty"].open
  /\ [Zeroed EXCEPT !.state = "empty"].state = "empty"
  /\ [Zeroed EXCEPT !.state = "empty"].type = 0 /\ [Zeroed EXCEPT !.state = "empty"].count = 0
  <1>1. Zeroed \in BlockType
    BY DEF Zeroed, BlockType
  <1>2. Zeroed.own /\ ~Zeroed.open /\ Zeroed.type = 0 /\ Zeroed.count = 0
    BY DEF Zeroed
  <1>. QED BY <1>1, <1>2 DEF BlockType

LEMMA AgentFailsInv ==
  ASSUME IInv, AgentFails
  PROVE  IInv'
  <1>. USE DEF IInv
  <1>1. /\ UNCHANGED <<cfg, old, block, file, written, thread, connected, mgrVars>>
        /\ agent' = "ended" /\ agent \in {"start", "size", "threads"}
    BY DEF AgentFails
  <1>2. AgentInv'
    BY <1>1 DEF AgentInv
  <1>3. LaunchTypes' /\ BlockInv' /\ ThreadInv' /\ FileInv'
    BY <1>1, Zenon DEF LaunchTypes, BlockInv, ThreadInv, FileInv, Threads, mgrVars
  <1>4. ManagerTypes' /\ ManagerInv' /\ ViewOfThisAgent'
    <2>1. written \in 0..4
      BY DEF AgentInv
    <2>. QED BY <1>1, <2>1, ManagerKept DEF Threads
  <1>. QED BY <1>2, <1>3, <1>4

LEMMA CreateBlockInv ==
  ASSUME IInv, CreateBlock
  PROVE  IInv'
  <1>. USE DEF IInv
  <1>1. /\ UNCHANGED <<cfg, old, file, written, thread, connected, mgrVars>>
        /\ agent' = "size" /\ agent = "start" /\ block' = [Zeroed EXCEPT !.state = "empty"]
    BY DEF CreateBlock
  <1>2. written = 0
    BY <1>1 DEF AgentInv
  <1>3. /\ block' \in BlockType /\ block'.own /\ ~block'.open /\ block'.state = "empty"
        /\ block'.type = 0 /\ block'.count = 0
    BY <1>1, ZeroedBlock
  <1>4. LaunchTypes' /\ AgentInv' /\ BlockInv'
    BY <1>1, <1>2, <1>3 DEF LaunchTypes, AgentInv, BlockInv, mgrVars
  <1>5. ThreadInv' /\ FileInv'
    BY <1>1, Zenon DEF ThreadInv, FileInv, Threads
  <1>6. ManagerTypes' /\ ManagerInv' /\ ViewOfThisAgent'
    BY <1>1, <1>2, <1>3, ManagerKept DEF Threads
  <1>. QED BY <1>4, <1>5, <1>6

LEMMA SizeBlockInv ==
  ASSUME IInv, SizeBlock
  PROVE  IInv'
  <1>. USE DEF IInv
  <1>1. /\ UNCHANGED <<cfg, old, file, written, thread, connected, mgrVars>>
        /\ agent' = "write" /\ agent = "size" /\ block' = [block EXCEPT !.state = "sized"]
    BY DEF SizeBlock
  <1>2. written = 0 /\ block.own
    BY <1>1 DEF AgentInv
  <1>3. /\ block' \in BlockType /\ block'.own = block.own /\ block'.open = block.open
        /\ block'.state = "sized" /\ block'.type = block.type /\ block'.count = block.count
    BY <1>1 DEF LaunchTypes, BlockType
  <1>4. LaunchTypes' /\ AgentInv'
    BY <1>1, <1>2, <1>3 DEF LaunchTypes, AgentInv, mgrVars
  <1>5. BlockInv'
    BY <1>1, <1>2, <1>3 DEF BlockInv, Threads
  <1>6. ThreadInv' /\ FileInv'
    BY <1>1, Zenon DEF ThreadInv, FileInv, Threads
  <1>7. ManagerTypes' /\ ManagerInv' /\ ViewOfThisAgent'
    BY <1>1, <1>2, <1>3, ManagerKept DEF Threads
  <1>. QED BY <1>4, <1>5, <1>6, <1>7

LEMMA WriteBlockInv ==
  ASSUME IInv, WriteBlock
  PROVE  IInv'
  <1>. USE DEF IInv
  <1>1. /\ UNCHANGED <<cfg, old, file, thread, connected, mgrVars>>
        /\ agent = "write" /\ written' = written + 1
        /\ agent' = IF written' = 4 THEN "threads" ELSE "write"
    BY Constants DEF WriteBlock
  <1>2. written \in 0..3 /\ block.own
    BY <1>1 DEF AgentInv
  <1>3. block' = CASE written = 0 -> Zeroed
                   [] written = 1 -> [block EXCEPT !.count = cfg.count]
                   [] written = 2 -> [block EXCEPT !.rate = "arguments"]
                   [] written = 3 -> [block EXCEPT !.type = cfg.type]
    <2>1. CASE written = 0
      BY <2>1 DEF WriteBlock, Writes
    <2>2. CASE written = 1
      BY <2>2 DEF WriteBlock, Writes
    <2>3. CASE written = 2
      BY <2>3 DEF WriteBlock, Writes
    <2>4. CASE written = 3
      BY <2>4 DEF WriteBlock, Writes
    <2>. QED BY <1>2, <2>1, <2>2, <2>3, <2>4
  <1>4. /\ block' \in BlockType /\ block'.own /\ (block.state # "absent" => block'.state # "absent")
        /\ ~block'.open
        /\ block'.count = CASE written = 0 -> 0 [] written = 1 -> cfg.count
                            [] OTHER -> block.count
        /\ block'.type = CASE written = 0 -> 0 [] written = 3 -> cfg.type
                           [] OTHER -> block.type
        /\ written >= 2 => block'.load = block.load
    <2>1. block \in BlockType /\ ~block.open /\ cfg.count \in Counts \cup {0} /\ cfg.type \in 0..3
      BY <1>2, Configured DEF BlockInv, LaunchTypes
    <2>2. CASE written = 0
      BY <1>3, <2>1, <2>2, ZeroedBlock DEF Zeroed
    <2>3. CASE written = 1
      BY <1>2, <1>3, <2>1, <2>3 DEF BlockType
    <2>4. CASE written = 2
      BY <1>2, <1>3, <2>1, <2>4 DEF BlockType
    <2>5. CASE written = 3
      BY <1>2, <1>3, <2>1, <2>5 DEF BlockType
    <2>. QED BY <1>2, <2>2, <2>3, <2>4, <2>5
  <1>5. LaunchTypes' /\ AgentInv'
    BY <1>1, <1>2, <1>4 DEF LaunchTypes, AgentInv, mgrVars
  <1>6. BlockInv'
    BY <1>1, <1>2, <1>4 DEF BlockInv
  <1>7. ThreadInv'
    BY <1>1, <1>2 DEF ThreadInv, Threads
  <1>8. FileInv'
    BY <1>1, <1>2 DEF FileInv
  <1>9. ManagerTypes' /\ ManagerInv' /\ ViewOfThisAgent'
    BY <1>1, <1>2, <1>4, ManagerKept DEF Threads
  <1>. QED BY <1>5, <1>6, <1>7, <1>8, <1>9

LEMMA StartThreadsInv ==
  ASSUME IInv, StartThreads
  PROVE  IInv'
  <1>. USE DEF IInv
  <1>1. /\ UNCHANGED <<cfg, old, block, file, written, connected, mgrVars>>
        /\ agent = "threads" /\ agent' = "running"
        /\ thread' = [i \in AllThreads |-> IF i \in Threads THEN "create" ELSE "none"]
    BY DEF StartThreads
  <1>2. written = 4
    BY <1>1 DEF AgentInv
  <1>3. AgentInv' /\ ThreadInv'
    BY <1>1, <1>2 DEF AgentInv, ThreadInv, Threads
  <1>4. LaunchTypes' /\ BlockInv' /\ FileInv'
    BY <1>1, Zenon DEF LaunchTypes, BlockInv, FileInv, Threads, mgrVars
  <1>5. ManagerTypes' /\ ManagerInv' /\ ViewOfThisAgent'
    BY <1>1, <1>2, ManagerKept DEF Threads
  <1>. QED BY <1>3, <1>4, <1>5


-----------------------------------------------------------------------------
(* The agent's threads.                                                    *)

\* A thread that is somewhere is one of the agent's, and the block is written.
LEMMA ThreadStarted ==
  ASSUME IInv, NEW i \in AllThreads, thread[i] # "none"
  PROVE  i \in Threads /\ written = 4
  BY DEF IInv, ThreadInv

\* A step of thread i that leaves the block and the connections alone.
LEMMA ThreadStepInv ==
  ASSUME IInv, NEW i \in AllThreads, thread[i] # "none",
         NEW to \in {"size", "connect", "barrier", "main", "returned"},
         thread' = [thread EXCEPT ![i] = to], to = "barrier" => i \in connected',
         connected' = connected \/ connected' = connected \cup {i},
         FileInv', AgentInv', UNCHANGED <<cfg, old, block, written, mgrVars>>
  PROVE  IInv'
  <1>. USE DEF IInv
  <1>1. i \in Threads /\ written = 4
    BY ThreadStarted
  <1>2. connected' \in SUBSET Threads /\ (connected = Threads => connected' = Threads)
        /\ connected \in SUBSET connected'
    BY <1>1 DEF ThreadInv
  <1>3. ThreadInv'
    <2>1. thread \in [AllThreads -> {"none", "create", "size", "connect", "barrier", "tell",
                                     "main", "returned"}]
      BY DEF ThreadInv
    <2>2. thread'[i] = to /\ \A j \in AllThreads : j # i => thread'[j] = thread[j]
      BY <2>1
    <2>3. thread' \in [AllThreads -> {"none", "create", "size", "connect", "barrier", "tell",
                                      "main", "returned"}]
      BY <2>1
    <2>4. ASSUME NEW j \in AllThreads
          PROVE  /\ thread'[j] # "none" => j \in Threads /\ written = 4
                 /\ thread'[j] = "barrier" => j \in connected'
                 /\ thread'[j] = "tell" => connected' = Threads
      <3>1. CASE j = i
        BY <1>1, <2>2, <3>1
      <3>2. CASE j # i
        BY <1>2, <2>2, <3>2 DEF ThreadInv
      <3>. QED BY <3>1, <3>2
    <2>. QED BY <1>2, <2>3, <2>4 DEF ThreadInv, Threads
  <1>4. LaunchTypes'
    BY Zenon DEF LaunchTypes, mgrVars
  <1>5. BlockInv'
    BY <1>1, <1>2 DEF BlockInv, Threads
  <1>6. ManagerTypes' /\ ManagerInv' /\ ViewOfThisAgent'
    BY <1>1, <1>2, ManagerKept DEF Threads
  <1>. QED BY <1>3, <1>4, <1>5, <1>6

LEMMA CreateStatsInv ==
  ASSUME IInv, NEW i \in AllThreads, CreateStats(i)
  PROVE  IInv'
  <1>1. thread[i] = "create" /\ file' = [file EXCEPT ![i] = "empty"]
        /\ thread' = [thread EXCEPT ![i] = "size"]
        /\ UNCHANGED <<cfg, old, block, agent, written, connected, mgrVars>>
    BY DEF CreateStats
  <1>2. written = 4
    BY <1>1, ThreadStarted
  <1>3. FileInv' /\ AgentInv'
    BY <1>1, <1>2 DEF IInv, FileInv, AgentInv
  <1>. QED BY <1>1, <1>3, ThreadStepInv

LEMMA SizeStatsInv ==
  ASSUME IInv, NEW i \in AllThreads, SizeStats(i)
  PROVE  IInv'
  <1>1. thread[i] = "size" /\ file' = [file EXCEPT ![i] = Structure(cfg.type)]
        /\ thread' = [thread EXCEPT ![i] = "connect"]
        /\ UNCHANGED <<cfg, old, block, agent, written, connected, mgrVars>>
    BY DEF SizeStats
  <1>2. written = 4
    BY <1>1, ThreadStarted
  <1>3. FileInv' /\ AgentInv'
    BY <1>1, <1>2 DEF IInv, FileInv, AgentInv, Structure
  <1>. QED BY <1>1, <1>3, ThreadStepInv

LEMMA ConnectInv ==
  ASSUME IInv, NEW i \in AllThreads, Connect(i)
  PROVE  IInv'
  <1>. DEFINE to == IF cfg.barrier THEN "barrier" ELSE "main"
  <1>1. thread[i] = "connect" /\ connected' = connected \cup {i}
        /\ thread' = [thread EXCEPT ![i] = to]
        /\ UNCHANGED <<cfg, old, block, file, agent, written, mgrVars>>
    BY DEF Connect
  <1>2. FileInv' /\ AgentInv'
    BY <1>1 DEF IInv, FileInv, AgentInv
  <1>3. to \in {"barrier", "main"} /\ i \in connected'
    BY <1>1
  <1>. HIDE DEF to
  <1>. QED BY <1>1, <1>2, <1>3, ThreadStepInv

LEMMA ThreadFailsInv ==
  ASSUME IInv, NEW i \in AllThreads, ThreadFails(i)
  PROVE  IInv'
  <1>1. thread[i] \in {"connect", "main"} /\ thread' = [thread EXCEPT ![i] = "returned"]
        /\ agent' \in {"running", "ended"} /\ agent = "running"
        /\ UNCHANGED <<cfg, old, block, file, written, connected, mgrVars>>
    BY DEF ThreadFails
  <1>2. FileInv' /\ AgentInv'
    BY <1>1 DEF IInv, FileInv, AgentInv
  <1>. QED BY <1>1, <1>2, ThreadStepInv

\* All of the agent's threads wait at the barrier when it opens.
LEMMA PassBarrierInv ==
  ASSUME IInv, PassBarrier
  PROVE  IInv'
  <1>. USE DEF IInv
  <1>1. /\ agent = "running" /\ Cardinality(Waiting) = cfg.count
        /\ thread' = [i \in AllThreads |-> IF i \in Waiting THEN "tell" ELSE thread[i]]
        /\ UNCHANGED <<cfg, old, block, file, agent, written, connected, mgrVars>>
    BY DEF PassBarrier, BarrierCount
  <1>2. Waiting = Threads
    <2>1. Waiting \in SUBSET Threads
      BY DEF Waiting
    <2>. QED BY <1>1, <2>1, ThreadsCounted, FS_Subset
  <1>3. connected = Threads
    <2>1. \A i \in Threads : i \in connected
      BY <1>2, Configured DEF ThreadInv, Waiting
    <2>. QED BY <2>1 DEF ThreadInv
  <1>4. written = 4
    BY <1>1 DEF AgentInv
  <1>5. ThreadInv'
    <2>1. \A i \in AllThreads : thread'[i] = IF i \in Waiting THEN "tell" ELSE thread[i]
      BY <1>1
    <2>. QED BY <1>1, <1>2, <1>3, <1>4, <2>1 DEF ThreadInv, Threads
  <1>6. LaunchTypes' /\ AgentInv' /\ BlockInv' /\ FileInv'
    BY <1>1, Zenon DEF LaunchTypes, AgentInv, BlockInv, FileInv, Threads, mgrVars
  <1>7. ManagerTypes' /\ ManagerInv' /\ ViewOfThisAgent'
    BY <1>1, <1>4, ManagerKept DEF Threads
  <1>. QED BY <1>5, <1>6, <1>7

LEMMA SetConnOpenInv ==
  ASSUME IInv, NEW i \in AllThreads, SetConnOpen(i)
  PROVE  IInv'
  <1>. USE DEF IInv
  <1>1. /\ agent = "running" /\ thread[i] = "tell" /\ block' = [block EXCEPT !.open = TRUE]
        /\ thread' = [thread EXCEPT ![i] = "main"]
        /\ UNCHANGED <<cfg, old, file, agent, written, connected, mgrVars>>
    BY DEF SetConnOpen
  <1>2. written = 4 /\ block.own /\ i \in Threads /\ connected = Threads
    BY <1>1, ThreadStarted DEF AgentInv, ThreadInv
  <1>3. /\ block' \in BlockType /\ block'.own /\ block'.state = block.state
        /\ block'.count = block.count /\ block'.type = block.type
        /\ block'.load = block.load /\ block'.rate = block.rate
    BY <1>1, <1>2 DEF LaunchTypes, BlockType
  <1>4. LaunchTypes' /\ AgentInv'
    BY <1>1, <1>3 DEF LaunchTypes, AgentInv, mgrVars
  <1>5. BlockInv'
    BY <1>1, <1>2, <1>3 DEF BlockInv, Threads
  <1>6. ThreadInv'
    <2>1. thread \in [AllThreads -> {"none", "create", "size", "connect", "barrier", "tell",
                                     "main", "returned"}]
      BY DEF ThreadInv
    <2>2. thread'[i] = "main" /\ \A j \in AllThreads : j # i => thread'[j] = thread[j]
      BY <1>1, <2>1
    <2>3. thread' \in [AllThreads -> {"none", "create", "size", "connect", "barrier", "tell",
                                      "main", "returned"}]
      BY <1>1, <2>1
    <2>. QED BY <1>1, <1>2, <2>2, <2>3 DEF ThreadInv, Threads
  <1>7. FileInv'
    BY <1>1, Zenon DEF FileInv
  <1>8. ManagerTypes' /\ ManagerInv' /\ ViewOfThisAgent'
    BY <1>1, <1>2, <1>3, ManagerKept DEF Threads
  <1>. QED BY <1>4, <1>5, <1>6, <1>7, <1>8

-----------------------------------------------------------------------------
(* The manager.                                                            *)

\* The manager looks: what it reads changes, or it dies.
LookedAt == UNCHANGED <<cfg, old, block, file, agentVars>>

LEMMA LooksKeep ==
  ASSUME IInv, LookedAt, polled' \in BOOLEAN
  PROVE  LaunchTypes' /\ AgentInv' /\ BlockInv' /\ ThreadInv' /\ FileInv' /\ Threads' = Threads
         /\ block' = block /\ cfg' = cfg /\ old' = old /\ written' = written
         /\ connected' = connected
  <1>1. UNCHANGED <<cfg, old, block, file, agent, written, thread, connected>>
    BY DEF LookedAt, agentVars
  <1>2. LaunchTypes'
    BY <1>1 DEF IInv, LaunchTypes
  <1>3. AgentInv' /\ BlockInv' /\ ThreadInv' /\ FileInv' /\ Threads' = Threads
    BY <1>1, ZenonT(60) DEF IInv, AgentInv, BlockInv, ThreadInv, FileInv, Threads
  <1>. QED BY <1>1, <1>2, <1>3

LEMMA DiesInv ==
  ASSUME IInv, LookedAt, ManagerDies
  PROVE  IInv'
  <1>. USE DEF IInv
  <1>1. mgr' = "dead" /\ UNCHANGED <<view, mapped, tries, polled>>
    BY DEF ManagerDies
  <1>2. /\ LaunchTypes' /\ AgentInv' /\ BlockInv' /\ ThreadInv' /\ FileInv' /\ Threads' = Threads
        /\ block' = block /\ cfg' = cfg /\ old' = old /\ written' = written
        /\ connected' = connected
    BY <1>1, LooksKeep DEF LaunchTypes
  <1>3. ManagerTypes'
    BY <1>1, <1>2 DEF ManagerTypes
  <1>4. ManagerInv' /\ ViewOfThisAgent'
    BY <1>1, <1>2 DEF ManagerInv, ViewOfThisAgent, Viewed, Polled
  <1>. QED BY <1>2, <1>3, <1>4

\* Some more tries of retry_open_shmem, or what it is called for was found.
LEMMA OpenControlInv ==
  ASSUME IInv, LookedAt, OpenControl
  PROVE  IInv'
  <1>. USE DEF IInv
  <1>1. CASE ManagerDies
    BY <1>1, DiesInv
  <1>2. CASE ~ManagerDies
    <2>1. /\ mgr = "open" /\ UNCHANGED <<view, mapped, polled>>
          /\ \/ block.state # "absent" /\ mgr' = "map" /\ tries' = 0
             \/ mgr' = "open" /\ tries' = tries + 1 /\ tries + 1 # MaxTries
      BY <1>2 DEF OpenControl, OpenShm, LastTry
    <2>2. /\ LaunchTypes' /\ AgentInv' /\ BlockInv' /\ ThreadInv' /\ FileInv' /\ Threads' = Threads
          /\ block' = block /\ cfg' = cfg /\ old' = old /\ written' = written
          /\ connected' = connected
      BY <2>1, LooksKeep DEF LaunchTypes
    <2>3. tries' \in 0..MaxTries - 1
      BY <2>1, Constants DEF ManagerTypes
    <2>4. ManagerTypes'
      BY <2>1, <2>2, <2>3 DEF ManagerTypes, LaunchPhases
    <2>5. ManagerInv' /\ ViewOfThisAgent'
      BY <2>1, <2>2 DEF ManagerInv, ManagerTypes, ViewOfThisAgent, Viewed, Polled
    <2>. QED BY <2>2, <2>4, <2>5
  <1>. QED BY <1>1, <1>2

LEMMA MapControlInv ==
  ASSUME IInv, LookedAt, MapControl
  PROVE  IInv'
  <1>. USE DEF IInv
  <1>1. CASE ManagerDies
    BY <1>1, DiesInv
  <1>2. CASE ~ManagerDies
    <2>1. mgr = "map" /\ mgr' = "type" /\ UNCHANGED <<view, mapped, tries, polled>>
      BY <1>2 DEF MapControl
    <2>2. /\ LaunchTypes' /\ AgentInv' /\ BlockInv' /\ ThreadInv' /\ FileInv' /\ Threads' = Threads
          /\ block' = block /\ cfg' = cfg /\ old' = old /\ written' = written
          /\ connected' = connected
      BY <2>1, LooksKeep DEF LaunchTypes
    <2>3. ManagerTypes'
      BY <2>1, <2>2 DEF ManagerTypes, LaunchPhases
    <2>4. ManagerInv' /\ ViewOfThisAgent'
      BY <2>1, <2>2 DEF ManagerInv, ManagerTypes, ViewOfThisAgent, Viewed, Polled
    <2>. QED BY <2>2, <2>3, <2>4
  <1>. QED BY <1>1, <1>2

\* A type other than 0 that is found is this agent's, unless one was left behind.
LEMMA CompareTypeInv ==
  ASSUME IInv, LookedAt, CompareType
  PROVE  IInv'
  <1>. USE DEF IInv
  <1>1. CASE ManagerDies
    BY <1>1, DiesInv
  <1>2. CASE ~ManagerDies
    <2>1. /\ mgr = "type" /\ UNCHANGED <<mapped, tries, polled>>
          /\ \/ block.type = view.type /\ mgr' = "count" /\ view' = view
             \/ /\ mgr' = "type" /\ view.type < 3
                /\ view' = [view EXCEPT !.type = view.type + 1]
      BY <1>2 DEF CompareType
    <2>2. /\ LaunchTypes' /\ AgentInv' /\ BlockInv' /\ ThreadInv' /\ FileInv' /\ Threads' = Threads
          /\ block' = block /\ cfg' = cfg /\ old' = old /\ written' = written
          /\ connected' = connected
      BY <2>1, LooksKeep DEF LaunchTypes
    <2>3. view' \in [type : 0..3, count : Counts \cup {0}] /\ view'.count = view.count
      BY <2>1 DEF ManagerTypes
    <2>4. ManagerTypes'
      BY <2>1, <2>2, <2>3 DEF ManagerTypes, LaunchPhases
    <2>5. ~old.there /\ mgr' = "count" /\ view'.type # 0 =>
            written = 4 /\ view'.type = cfg.type
      <3>1. written \in 0..4 /\ view.type \in 0..3
        BY DEF AgentInv, ManagerTypes
      <3>. QED BY <2>1, <3>1 DEF BlockInv
    <2>6. ManagerInv' /\ ViewOfThisAgent'
      BY <2>1, <2>2, <2>5 DEF ManagerInv, ManagerTypes, ViewOfThisAgent, Viewed, Polled
    <2>. QED BY <2>2, <2>4, <2>6
  <1>. QED BY <1>1, <1>2

LEMMA ReadCountInv ==
  ASSUME IInv, LookedAt, ReadCount
  PROVE  IInv'
  <1>. USE DEF IInv
  <1>1. CASE ManagerDies
    BY <1>1, DiesInv
  <1>2. CASE ~ManagerDies
    <2>1. /\ mgr = "count" /\ mgr' = "stats" /\ UNCHANGED <<mapped, tries, polled>>
          /\ view' = [view EXCEPT !.count = block.count]
      BY <1>2 DEF ReadCount
    <2>2. /\ LaunchTypes' /\ AgentInv' /\ BlockInv' /\ ThreadInv' /\ FileInv' /\ Threads' = Threads
          /\ block' = block /\ cfg' = cfg /\ old' = old /\ written' = written
          /\ connected' = connected
      BY <2>1, LooksKeep DEF LaunchTypes
    <2>3. /\ view' \in [type : 0..3, count : Counts \cup {0}] /\ view'.type = view.type
          /\ view'.count = block.count /\ view'.count \in Nat /\ mapped = 0
      BY <2>1, Configured, Constants DEF ManagerTypes
    <2>4. ManagerTypes'
      BY <2>1, <2>2, <2>3 DEF ManagerTypes, LaunchPhases
    <2>5. ManagerInv'
      BY <2>1, <2>2, <2>3 DEF ManagerInv, Viewed, Polled
    <2>6. ViewOfThisAgent'
      <3>1. ~old.there /\ view.type # 0 => written = 4 /\ view.type = cfg.type
        BY <2>1 DEF ManagerInv
      <3>2. ~old.there /\ view.type # 0 => view' = [type |-> cfg.type, count |-> cfg.count]
        BY <2>3, <3>1 DEF BlockInv
      <3>. QED BY <2>2, <2>3, <3>2 DEF ViewOfThisAgent
    <2>. QED BY <2>2, <2>4, <2>5, <2>6
  <1>. QED BY <1>1, <1>2

\* Statistics that are found are of threads that run, unless some were left behind.
LEMMA OpenStatsInv ==
  ASSUME IInv, LookedAt, OpenStats
  PROVE  IInv'
  <1>. USE DEF IInv
  <1>1. CASE ManagerDies
    BY <1>1, DiesInv
  <1>2. CASE ~ManagerDies
    <2>1. /\ mgr = "stats" /\ mapped < view.count /\ UNCHANGED <<view, mapped, polled>>
          /\ \/ file[mapped] # "absent" /\ mgr' = "mapstats" /\ tries' = 0
             \/ mgr' = "stats" /\ tries' = tries + 1 /\ tries + 1 # MaxTries
      BY <1>2 DEF OpenStats, OpenShm, LastTry
    <2>2. /\ LaunchTypes' /\ AgentInv' /\ BlockInv' /\ ThreadInv' /\ FileInv' /\ Threads' = Threads
          /\ block' = block /\ cfg' = cfg /\ old' = old /\ written' = written
          /\ connected' = connected
      BY <2>1, LooksKeep DEF LaunchTypes
    <2>3. tries' \in 0..MaxTries - 1
      BY <2>1, Constants DEF ManagerTypes
    <2>4. ManagerTypes'
      BY <2>1, <2>2, <2>3 DEF ManagerTypes, LaunchPhases
    <2>5. mapped \in AllThreads
      BY <2>1, Constants DEF ManagerTypes, AllThreads
    <2>6. ~old.there /\ mgr' = "mapstats" => written = 4
      BY <2>1, <2>5 DEF FileInv
    <2>7. ManagerInv' /\ ViewOfThisAgent'
      BY <2>1, <2>2, <2>6 DEF ManagerInv, ViewOfThisAgent, Viewed, Polled
    <2>. QED BY <2>2, <2>4, <2>7
  <1>. QED BY <1>1, <1>2

LEMMA MapStatsInv ==
  ASSUME IInv, LookedAt, MapStats
  PROVE  IInv'
  <1>. USE DEF IInv
  <1>1. CASE ManagerDies
    BY <1>1, DiesInv
  <1>2. CASE ~ManagerDies
    <2>1. /\ mgr = "mapstats" /\ mgr' = "stats" /\ mapped' = mapped + 1
          /\ UNCHANGED <<view, tries, polled>>
      BY <1>2 DEF MapStats
    <2>2. /\ LaunchTypes' /\ AgentInv' /\ BlockInv' /\ ThreadInv' /\ FileInv' /\ Threads' = Threads
          /\ block' = block /\ cfg' = cfg /\ old' = old /\ written' = written
          /\ connected' = connected
      BY <2>1, LooksKeep DEF LaunchTypes
    <2>3. mapped' \in 0..view.count
      BY <2>1, Constants DEF ManagerTypes
    <2>4. ManagerTypes'
      BY <2>1, <2>2, <2>3 DEF ManagerTypes, LaunchPhases
    <2>5. ManagerInv' /\ ViewOfThisAgent'
      BY <2>1, <2>2 DEF ManagerInv, ViewOfThisAgent, Viewed, Polled
    <2>. QED BY <2>2, <2>4, <2>5
  <1>. QED BY <1>1, <1>2

LEMMA LaunchedInv ==
  ASSUME IInv, LookedAt, Launched
  PROVE  IInv'
  <1>. USE DEF IInv
  <1>1. /\ mgr = "stats" /\ mgr' = "serving" /\ mapped = view.count
        /\ UNCHANGED <<view, mapped, tries, polled>>
    BY DEF Launched
  <1>2. /\ LaunchTypes' /\ AgentInv' /\ BlockInv' /\ ThreadInv' /\ FileInv' /\ Threads' = Threads
        /\ block' = block /\ cfg' = cfg /\ old' = old /\ written' = written
        /\ connected' = connected
    BY <1>1, LooksKeep DEF LaunchTypes
  <1>3. ManagerTypes'
    BY <1>1, <1>2 DEF ManagerTypes, LaunchPhases
  <1>4. ManagerInv' /\ ViewOfThisAgent'
    BY <1>1, <1>2 DEF ManagerInv, ViewOfThisAgent, Viewed, Polled
  <1>. QED BY <1>2, <1>3, <1>4

\* conn_open is of this agent, unless it was left behind set.
LEMMA PollConnectionsInv ==
  ASSUME IInv, LookedAt, PollConnections
  PROVE  IInv'
  <1>. USE DEF IInv
  <1>1. CASE ManagerDies
    BY <1>1, DiesInv
  <1>2. CASE ~ManagerDies
    <2>1. /\ mgr = "serving" /\ polled' = block.open /\ UNCHANGED <<mgr, view, mapped, tries>>
      BY <1>2 DEF PollConnections
    <2>2. /\ LaunchTypes' /\ AgentInv' /\ BlockInv' /\ ThreadInv' /\ FileInv' /\ Threads' = Threads
          /\ block' = block /\ cfg' = cfg /\ old' = old /\ written' = written
          /\ connected' = connected
      BY <2>1, LooksKeep, Configured
    <2>3. ManagerTypes'
      BY <2>1, <2>2 DEF ManagerTypes, LaunchPhases
    <2>4. Polled' => written = 4 /\ connected = Threads
      BY <2>1, <2>2 DEF Polled, BlockInv
    <2>5. ManagerInv' /\ ViewOfThisAgent'
      BY <2>1, <2>2, <2>4 DEF ManagerInv, ViewOfThisAgent, Viewed
    <2>. QED BY <2>2, <2>3, <2>5
  <1>. QED BY <1>1, <1>2

\* start_load: the manager writes to a block that has a number of threads.
LEMMA SetRateInv ==
  ASSUME IInv, SetRate, UNCHANGED <<cfg, old, file, agentVars>>
  PROVE  IInv'
  <1>. USE DEF IInv
  <1>1. CASE ManagerDies /\ UNCHANGED block
    BY <1>1, DiesInv DEF LookedAt
  <1>2. CASE ~(ManagerDies /\ UNCHANGED block)
    <2>1. /\ mgr = "serving" /\ mgr' = "rate" /\ (cfg.polls => polled)
          /\ UNCHANGED <<view, mapped, tries, polled>>
          /\ block.count > 0 /\ block' = [block EXCEPT !.rate = "asked"]
          /\ UNCHANGED <<cfg, old, file, agent, written, thread, connected>>
      BY <1>2 DEF SetRate, Divides, agentVars
    <2>2. /\ block' \in BlockType /\ block'.rate = "asked" /\ block'.state = block.state
          /\ block'.count = block.count /\ block'.type = block.type
          /\ block'.load = block.load /\ block'.open = block.open /\ block'.own = block.own
      BY <2>1 DEF LaunchTypes, BlockType
    <2>3. LaunchTypes' /\ AgentInv'
      BY <2>1, <2>2 DEF LaunchTypes, AgentInv
    <2>4. BlockInv'
      BY <2>1, <2>2 DEF BlockInv, Threads
    <2>5. ThreadInv' /\ FileInv'
      BY <2>1, Zenon DEF ThreadInv, FileInv, Threads
    <2>6. ManagerTypes'
      BY <2>1, <2>2 DEF ManagerTypes, LaunchTypes
    <2>7. ~old.there => written >= 2
      BY <2>1 DEF BlockInv, AgentInv
    <2>8. ManagerInv' /\ ViewOfThisAgent'
      BY <2>1, <2>2, <2>7 DEF ManagerInv, ViewOfThisAgent, Viewed, Polled, Threads
    <2>. QED BY <2>3, <2>4, <2>5, <2>6, <2>8
  <1>. QED BY <1>1, <1>2

LEMMA RaiseLoadInv ==
  ASSUME IInv, RaiseLoad, UNCHANGED <<cfg, old, file, agentVars>>
  PROVE  IInv'
  <1>. USE DEF IInv
  <1>1. CASE ManagerDies /\ UNCHANGED block
    BY <1>1, DiesInv DEF LookedAt
  <1>2. CASE ~(ManagerDies /\ UNCHANGED block)
    <2>1. /\ mgr = "rate" /\ mgr' = "loading" /\ UNCHANGED <<view, mapped, tries, polled>>
          /\ block' = [block EXCEPT !.load = TRUE]
          /\ UNCHANGED <<cfg, old, file, agent, written, thread, connected>>
      BY <1>2 DEF RaiseLoad, agentVars
    <2>2. /\ block' \in BlockType /\ block'.load /\ block'.state = block.state
          /\ block'.count = block.count /\ block'.type = block.type
          /\ block'.rate = block.rate /\ block'.open = block.open /\ block'.own = block.own
      BY <2>1 DEF LaunchTypes, BlockType
    <2>3. LaunchTypes' /\ AgentInv'
      BY <2>1, <2>2 DEF LaunchTypes, AgentInv
    <2>4. BlockInv'
      BY <2>1, <2>2 DEF BlockInv, Threads
    <2>5. ThreadInv' /\ FileInv'
      BY <2>1, Zenon DEF ThreadInv, FileInv, Threads
    <2>6. ManagerTypes'
      BY <2>1, <2>2 DEF ManagerTypes, LaunchTypes
    <2>7. ManagerInv' /\ ViewOfThisAgent'
      BY <2>1, <2>2 DEF ManagerInv, ViewOfThisAgent, Viewed, Polled, Threads
    <2>. QED BY <2>3, <2>4, <2>5, <2>6, <2>7
  <1>. QED BY <1>1, <1>2

-----------------------------------------------------------------------------
(* The theorems.                                                           *)

LEMMA InitInv == Init => IInv
  <1>. SUFFICES ASSUME Init PROVE IInv
    OBVIOUS
  <1>1. LaunchTypes
    <2>1. CASE old \in [there : {TRUE}, type : Types, count : Counts, open : BOOLEAN]
      BY <2>1, Constants DEF Init, LaunchTypes, BlockType
    <2>2. CASE old = [there |-> FALSE, type |-> 0, count |-> 0, open |-> FALSE]
      <3>1. block = [state |-> "absent", type |-> 0, count |-> 0, rate |-> "none",
                     load |-> FALSE, open |-> FALSE, own |-> FALSE]
        BY <2>2 DEF Init, Zeroed
      <3>2. block \in BlockType
        BY ONLY <3>1 DEF BlockType
      <3>. QED BY <3>2 DEF Init, LaunchTypes
    <2>. QED BY <2>1, <2>2 DEF Init, Leftovers
  <1>2. /\ ~block.own /\ (~old.there => block.type = 0 /\ block.count = 0)
        /\ block.open => old.open
    BY DEF Init, Zeroed
  <1>3. AgentInv /\ BlockInv
    BY <1>2 DEF Init, AgentInv, BlockInv
  <1>4. ThreadInv
    BY DEF Init, ThreadInv
  <1>5. FileInv
    <2>1. old.there \/ \A i \in AllThreads : ~(i < old.count)
      BY <1>1, Configured, Constants DEF AllThreads
    <2>. QED BY <2>1 DEF Init, FileInv, Structure
  <1>6. ManagerTypes
    BY Constants DEF Init, ManagerTypes, LaunchPhases
  <1>7. ManagerInv /\ ViewOfThisAgent
    BY DEF Init, ManagerInv, ViewOfThisAgent, Viewed, Polled
  <1>. QED BY <1>1, <1>3, <1>4, <1>5, <1>6, <1>7 DEF IInv

LEMMA StepInv == IInv /\ [Next]_vars => IInv'
  <1>. SUFFICES ASSUME IInv, [Next]_vars PROVE IInv'
    OBVIOUS
  <1>1. CASE UNCHANGED vars
    <2>1. LookedAt /\ UNCHANGED mgrVars
      BY <1>1 DEF vars, LookedAt
    <2>2. ManagerTypes' /\ ManagerInv' /\ ViewOfThisAgent'
      BY <1>1, ManagerKept DEF vars, agentVars, IInv, AgentInv, Threads
    <2>. QED BY <2>1, <2>2, LooksKeep DEF IInv, LaunchTypes, mgrVars
  <1>2. CASE Main
    BY <1>2, CreateBlockInv, SizeBlockInv, WriteBlockInv, StartThreadsInv, AgentFailsInv
       DEF Main
  <1>3. CASE PassBarrier
    BY <1>3, PassBarrierInv
  <1>4. CASE Looks /\ LookedAt
    BY <1>4, OpenControlInv, MapControlInv, CompareTypeInv, ReadCountInv, OpenStatsInv,
       MapStatsInv, LaunchedInv, PollConnectionsInv DEF Looks
  <1>5. CASE (SetRate \/ RaiseLoad) /\ UNCHANGED <<cfg, old, file, agentVars>>
    BY <1>5, SetRateInv, RaiseLoadInv
  <1>6. ASSUME NEW i \in AllThreads, Thread(i) \/ ThreadFails(i)
        PROVE  IInv'
    BY <1>6, CreateStatsInv, SizeStatsInv, ConnectInv, SetConnOpenInv, ThreadFailsInv
       DEF Thread
  <1>. QED BY <1>1, <1>2, <1>3, <1>4, <1>5, <1>6 DEF Next, Manager, LookedAt

LEMMA Correct == Spec => []IInv
  BY InitInv, StepInv, PTL DEF Spec

\* Every variable keeps its type, and a manager past mmap has a control block the
\* agent has at least truncated (launch_agent, configure_control_block).
THEOREM TypeCorrect == Spec => []TypeOK
  <1>1. IInv => TypeOK
    BY Configured, Constants DEF IInv, LaunchTypes, AgentInv, ThreadInv, ManagerTypes, TypeOK
  <1>. QED BY <1>1, Correct, PTL

\* A type other than 0 in an agent's own block comes with the number of its
\* threads (configure_control_block, launch_agent).
THEOREM ViewCorrect == Spec => []ViewOfThisAgent
  <1>1. IInv => ViewOfThisAgent
    BY DEF IInv
  <1>. QED BY <1>1, Correct, PTL

\* The agent does not write over a load the manager has started (start_load).
THEOREM LoadCorrect == Spec => []LoadInForce
  <1>1. IInv => LoadInForce
    BY DEF IInv, LoadInForce, ManagerTypes, ManagerInv, Polled
  <1>. QED BY <1>1, Correct, PTL

\* conn_open tells that all connections are open (conn_open_barrier, get_conn_open).
THEOREM OpenCorrect == Spec => []OpenMeansConnected
  <1>1. IInv => OpenMeansConnected
    BY DEF IInv, OpenMeansConnected, BlockInv, ManagerInv, Polled
  <1>. QED BY <1>1, Correct, PTL

=============================================================================
