# Lancet: specifications, checks and proofs

Lancet measures the latency of a server under load. This directory holds TLA+
modules of its control plane and of the parts of its load generator where an
error would not crash but silently report a wrong latency. Line numbers refer
to the repository's source at the commit beside this directory.

## The system

| Part | Code | State it keeps | Operations |
|---|---|---|---|
| Coordinator (Go, one thread) | `coordinator/coordinator.go`, `proto.go`, `main.go` | agents by role (`thAgents`, `ltAgents`, `symAgents`), one TCP connection each, pattern state, `tryCount`, sampling rate | `load`, `fixedPattern`, `fixedQualPattern`, `stepPattern`, `broadcastMessage`, `collect*` |
| Agent manager (Python, one process per host) | `agent-manager/manager/lancet.py`, `proto.py`, `agentcontroller.py`, `stats.py` | its connection, the agent's process, the mapped shared memory, `start_time` | `run`, `recv_msg`, `process_msg`, `launch_agent`, `start_load`, `start_measure`, `get_stats`, `terminate` |
| Agent process (C) | `agents/agent.c` | arguments, threads, the barrier | `main`, `configure_control_block`, `agent_main`, `set_conn_open` |
| Control block `/lancetcontrol` | `agents/agent.c`, `agentcontroller.py` | `agent_type`, `thread_count`, `should_load`, `should_measure`, `conn_open`, rates | created by the agent, written by manager and agent without a lock, never removed |
| Statistics `/lancet-stats<i>` | `agents/stats.c`, `agentcontroller.py` | counters, latency samples, transmit times | `add_*` by thread i, `clear_stats` and reading by the manager |
| Agent threads (C) | `agents/tp_tcp.c`, `tp_udp.c`, `tp_ssl.c`, `tp_r2p2.c` | connections or sockets, requests waiting on each | one loop per agent type: send when due, poll, match replies, sample |
| Transmit timestamps | `agents/timestamping.c` | per connection: byte counter, `head`, `tail`, `consumed`, ring of offsets and times | `add_pending`, `get`, `pop_pending`, `push_complete`, `udp_get` |
| Application protocols, generators, parsing | `app_proto.c`, `memcache.c`, `redis.c`, `http_app.cc`, `rand_gen.c`, `key_gen.c`, `args.c` | buffers, random state | make a request, count the replies in a buffer |

The coordinator sends one request to every agent of a group and then reads one
reply from each, in order. A manager answers from, and acts through, the shared
memory; the agent's threads look at it in every turn of their loops. Threads
share nothing else. `agents/manager.c` is an earlier manager that is not built;
`picohttpparser.c` is vendored.

### What is hard in it

* *Control plane.* Replies carry no request number and reads do not frame
  messages. The first error ends a round and leaves replies unread; a step
  pattern prints the error and goes on over the same connections. Managers
  acknowledge before they act, and end in two ways: orderly, killing the agent,
  or of an exception, leaving it running.
* *TCP timestamps.* One timestamp names a packet by the stream offset of its
  last byte. Packets carry several requests, are retransmitted and stamped
  again, and a reply may be read before its request's timestamp. Offsets are 32
  bits wide.
* *TCP and TLS streams.* Requests are written and replies read in arbitrary
  pieces; a thread that cannot write does not read; a parser sees a buffer that
  holds remains of earlier replies.
* *UDP.* A reply is known by its socket alone; datagrams are lost and
  duplicated, and timestamps come at any time.
* *Shared memory.* Increments race with the manager clearing the counters. The
  manager opens the shared memory while the agent creates it, and what an earlier
  experiment left behind looks just like it.
* *R2P2.* Callbacks of a library free the contexts of requests, whose memory
  comes back with old timestamps in it; the latency agent reads a socket on which
  late replies wait.
* *Self-correction.* Load, sampling and duration are computed with truncated
  divisions at one end and rounded ones at the other, in loops over tries and load
  levels that share state.

The list of hazards with their lines is in `PROJECT.json`.

## Modules

`RequestTiming` is the abstract specification: on one connection at most `Max`
requests wait, replies are told to requests in order of sending, and a sample is
timed against the request it answers. `TxTimestampRing` and `UdpSockets`
implement it (property `TimesRequests`).

| Module | Models |
|---|---|
| `Coordination` | coordinator, managers, messages between them |
| `SelfCorrection` | what the coordinator computes and decides |
| `Launch` | how agent and manager find each other |
| `StatsShm` | one thread's statistics in shared memory |
| `TxTimestampRing`, `TcpConnection` | a TCP or TLS connection with and without NIC timestamps |
| `UdpSockets`, `R2p2` | the sockets and contexts of a thread over UDP and R2P2 |

The `MC` modules hold the experiments, command lines and networks for the runs.

### Coordination (with MCCoordination)

Coordinator, managers and what a manager sees of its agent. A pattern is a plan
of *rounds* (`Plan`), each with its group of agents (`Group`, in the order of the
code's `append` calls).

| Code | Model |
|---|---|
| `broadcastMessage` | `Broadcast`; it may stop at a manager that has ended |
| one iteration of a `collect*` loop | `ReadReply`, `ReadFails`; `at`, `idx` say which |
| bytes of a connection towards the coordinator | `stream`: replies with the bytes `left` of each; a Read takes up to 64 or 1024 bytes (`AfterRead`), and only the first message is looked at |
| the checks of `fixedQualPattern` | free choices in `RoundDone`, limited by `exp.tries` |
| `stepPattern` after an error | `Finish`: next load level, same connections |
| exit of the coordinator | `Leave`; a connection with unread bytes is `reset` |
| `launch_agent` | `Launch`, `LaunchFails` |
| `recv_msg` with its acknowledgement | `Receive`; then `StartLoad`, `StartMeasure`, `ReportThroughput`, `ReportLatency` apply the request |
| end of stream, or an exception, in `run` | `CoordinatorGone` |
| agent | `OpenConnections`, `AddSample`, `AgentDies` |

The experiment `exp` (agents by role, pattern, loads, limits, and which hosts may
fail) is chosen at the start from `Experiments`. The number of load levels is
finite and positive: `stepPattern` with a step of 0 would load the same level for
ever (`coordinator.go:379`), and such a command line is left out. A latency reply
is 258 bytes long. When replies are read 64 bytes at a time after an error, the word
a later reader takes for the type may be any part of a payload, or lie across two
replies, so it may have any value (`Infos`). A manager that is asked for throughput
before it has a `start_time` would die; every pattern sends START_MEASURE first on
the same connection, so `ReportThroughput` keeps that branch, but nothing reaches
it. A load is 0 or positive; `samples` is the
measurement the samples belong to, or 0 when there are too few to aggregate.
`clear_stats` is one step here.

### TxTimestampRing

One connection of `symmetric_nic_tcp_main`: ring, thread, and kernel with error
queue. `SendRequest` is lines 444-476 of `tp_tcp.c`, `ReceiveReplies` 484-508,
`Pop` and `AwaitTimestamp` the loop 513-529, `GetTxTimestamp` the function of
that name with its recursion (`again`) and loop (`Match`, `StopsAt`). The cursors
are not reduced: every request has a byte at least, so the byte counter wraps
first. `pc = "hung"` is a matching loop that would not end. Kernel, NIC and
server are `Transmit`, `Retransmit`, `StampArrives`, `ReplyArrives`. The timestamp
of a packet reaches the error queue some time after the packet was sent (`visible`
counts those that have), so a reply may be read first, and the thread then spins at
516-521 on an empty queue. A retransmission is possible
while its last request has no reply.

The slots' times are packets, `sample` pairs a reply with the packet it was timed
against, and `CarriedBy` says which packet that should be.

### UdpSockets

The sockets of one thread for the four agent types of `tp_udp.c` (`mode`), in the
network of `setting`.
`SendRequest` and `SkipSocket` are `get_socket` with what follows, `HandleReply`
an EPOLLIN event (or the blocking `recv` of the latency agent), `HandleError` an
EPOLLERR event, `RecvTimeout` the two-second timeout. A transmit time is the
number of the request it belongs to, 0 when `tv_sec` is 0. All failing calls and
assertions are one action, `SocketFails`: they end the thread.

### TcpConnection (with MCTcpConnection)

One connection of the agent types that take transmit times in user space
(`mode`): the throughput, symmetric and latency loops of `tp_tcp.c` and the
symmetric loop of `tp_ssl.c`, with the parsers of the application protocols.

| Code | Model |
|---|---|
| `pick_conn`, the start of a request | `Pickable`, `StartRequest` |
| one `writev` or `sendmsg` of a loop; `SSL_write` | `Write`; `WriteRecord`, with its assertion |
| a write error | `WriteFails`; after `send_request` the caller goes on |
| `push_complete_tx_timestamp`, `pending_reqs++` | `RequestSent` |
| `recv` or `SSL_read`, then `handle_response`, pops and sample | `Read`, `HandleResponse` |
| 0 or an error from the read | `ReadNothing`, `ReadFails` |
| `consume_response` | `Consume`: replies found one after another (`Position`), each by `ReplyLength` |
| `strchnth` | `ThirdLine`, over the whole buffer up to a zero byte; `strchr` itself would go on past the buffer's end |

Protocols are told apart by how they find the end of a reply: by a length
("counted": echo, synthetic, redis, binary memcache), one reply a call ("http"),
or by searching for ends of lines ("ascii": memcache text). Only the last looks
at bytes, so only ends of lines are told apart. Lengths are scaled: in the runs
`END`, `STORED` and a value take 1, 2 and 3 bytes, and `StoredBytes`, the
parser's minimum of 8, is 2. The server answers in order, does not read while it
has something to write, and stands for an ordinary single-threaded server.

Two details are left out. A `recv` that fails with `EWOULDBLOCK` falls through in
`throughput_tcp_main` and `symmetric_tcp_main` and adds -1 to `buffer_idx`; the
thread reads after `EPOLLIN` and alone, so data is there. And when the buffer is full
and holds no zero byte, `strchr` may run past it into the next connection's
structure; the search of the model ends with the buffer.

### StatsShm

One thread's statistics and the manager that clears and reads them. The shared
words are `reqs` (the four counters), `tx` (`TxTs.Count`) and `lat` (`inc_idx`).

| Code | Model |
|---|---|
| `should_measure` or the sampling of an `add_*` call | `Begin`, `NotSampled` |
| an increment | `Load`, `Store` |
| the sample at the old index | `WriteSample` |
| `tx_s->count--` for the first transmit time | `Load`, `StoreUndo` |
| `start_measure` with `clear_stats` | `StartMeasure`, `ClearWord` in the order of `Cleared`, `RaiseMeasure` |
| `get_stats`, `aggregate_throughput`, `aggregate_latency`, `check_iid` | `GetStats`, `ReadWord`, `ReadSamples`, `ReadAgain` |

A sample is the measurement it was taken in. `late` and `rep.during` are ghosts:
how far the thread was in an add when the manager cleared or read the word. The
properties are conditional on them, and so say exactly which interleavings lose
a clear: those where the thread had loaded the old value, or had an increment to
take back.

### Launch

The control block and the statistics from the start of the agent to the first
load.

| Code | Model |
|---|---|
| `configure_control_block` | `CreateBlock` (truncates), `SizeBlock`, `WriteBlock` in the order of `Writes` |
| `main`, `agent_main`, `configure_stats_shm` | `StartThreads`, `CreateStats`, `SizeStats` |
| a transport's connections, `pthread_barrier_wait`, `set_conn_open` | `Connect`, `ThreadFails`, `PassBarrier`, `SetConnOpen` |
| `retry_open_shmem` | `OpenShm` |
| `launch_agent` | `OpenControl`, `MapControl`, `CompareType` (one comparison a step: each reads the word again), `ReadCount`, `OpenStats`, `MapStats` |
| `get_conn_open`, `start_load` | `PollConnections`, `SetRate`, `RaiseLoad` |

`old` is what an earlier experiment has left behind, with its type, number of
threads and flags; `block.own` tells that this agent has truncated the block. To
touch a truncated block is a bus error, and to map more than there is raises
`ValueError`: both are `ManagerDies`. The rate is the arguments' (`idist`), the
one the coordinator asked for, or none. The properties carry the conditions under
which the code keeps them; without them they fail:

* a manager that reads the block before it is written sees type 0 and no threads;
* with a block left behind it may read the old type, and if the old `conn_open` is
  set it may start a load that the agent then zeroes.

### SelfCorrection (with MCSelfCorrection)

The decisions of the three patterns with their arithmetic. Agents answer, and
answers say anything: an agent serves its load or half of it, its samples pass
the checks or not (`LoadTry`, `MeasureTry`, `MeasureFixed`). `Told`, `Expected`,
`Percent`, `Duration` and `SamplingStep` are the formulas of the code with their
rounding; the sampling rate is the initial one over `divisor`. `Return` hands on
to the next load level what `stepPattern` does: the sampling rate, but neither
tries nor state. `Panic` is the division of `computeStatsLatency` by no reply.

The properties exempt what the code does not keep:

* The sampling step is `lround(1 / rate)`. Three symmetric agents sample at 60 %
  each, the step is 2, and a measurement ends with 83 % of the samples.
* The latency rate is counted once in `expectedRPS`, but told to every lt agent:
  with two of them that serve it the throughput check fails at a high latency rate.
* The load is part of `expectedRPS` also when there is no agent to serve it: with lt
  agents alone `fixedQualPattern` expects load and latency rate together, of agents
  that are told the latency rate, and uses up its tries.
* One agent with IID samples is enough, because the answers are added up; and a
  level whose sampling rate cannot be reduced further reports all the same.

### R2p2

One thread of `tp_r2p2.c`. Blocks of the heap are numbered, keep their contents
when they are freed, and may be allocated again at once. `Prepared` is what each
agent type writes into a context, `Succeed` the three success callbacks, `Fail`
the error and timeout callbacks, which run only inside `r2p2_poll`. The library
is external: it keeps a context, may store the NIC's time of the transmission in it
(`StampSent`) and that of the reply (`StampReceived`), and calls one callback, which
frees the context with both times in it; a success without a time of the reply, and
an error or timeout after one was stored, are included.
`add_tx_timestamp` at line 488 reads the context after it was handed over, which
is safe only because of that. The latency agent has its own actions: `SendAndWait`,
`ReadPacket`, `ReadTimesOut`, with replies of several packets and ids that may be
equal. Packets may be lost (`PacketComes`), overtaken or duplicated (`PacketStrays`).
The loop around `read` ends at the packet marked last, or at a wrong id, and counts
nothing, so that a packet that strays can be left for a later request, as a late
reply can after a timeout: `OwnReplyInStep` is about the sockets on which neither
has happened, which the ghost `outOfStep` tells.

## Runs

| Run | Question | Bounds |
|---|---|---|
| `coord` | Does an accepted reply answer its request, and with the last measurement? Is an experiment without error complete? Do coordinator, managers and agents end? Who measures without load? | three experiments, each with one expired deadline: an agent of each role, 3 polls, two launches that may fail, two agents that may die; th and sym agent, self-correcting, 2 polls, 3 tries, failures of one host; th and lt agent, two load levels, a latency rate of zero |
| `coord_step_stale` (violation) | Is what is polled a value? | two sym agents, two load levels, one expired deadline |
| `tx_ring` | All properties of the ring, its refinement and the proofs' invariant | 3 slots, requests of 1 or 2 bytes, 6 bytes, one retransmission |
| `tx_ring_wrap` (violation) | Does the tail stay behind the head when the counter wraps? | a counter modulo 4, 5 bytes |
| `udp` | Does every agent type pair replies and free sockets? Can a free socket keep a transmit time? | 2 sockets, a loss; clean network with 3 requests on each, or late timestamps and a duplicate with 2 |
| `tcp_replies` | Are replies cut, counted and timed correctly? Do writes end? | buffer of 3 bytes, 3 requests of 3 bytes, 2 waiting, sockets of 4 and 2 bytes, the server may close |
| `tcp_ascii` (violation) | Does a parser take only what was received? | a latency agent on memcache text, a buffer of 6 bytes, replies of up to 3 |
| `stats_shm` | What may a report lack, and what may it hold of an earlier measurement? | 2 slots, 2 measurements, 5 adds |
| `udp_late_stamp` (violation) | Can a sample use an earlier request's time? | 2 requests on one socket, nothing lost |
| `launch` | Does the manager see its own agent? Does a load stay in force? What does `conn_open` tell? | types 0, 1 and 3, one or two threads, 2 tries, anything left behind |
| `self_correction` | What passes the throughput check? What does a report rest on? Is a measurement long enough? | five command lines with and without self-correction, up to three levels, 3 tries, reductions by 2 or 25 |
| `r2p2` | Are a request's own times subtracted? Is every context freed once? Whose reply ends a wait? | 3 requests, 3 blocks, 2 sockets, 2 ids, replies of 2 packets, a loss, a packet that strays, a refusal |

The bounds let the cases of interest happen and repeat: six bytes turn a ring of
three slots at least once, with packets of one to three requests; three tries
include a first, a repeated and a last one; one deadline is enough for a reply to
be late, and two load levels for it to be taken for another. Bounds are constants
named in the modules' headers. A reply that fills the buffer, two replies in one
read, a reply in three reads and a request written in parts all happen in
`tcp_replies`; five adds fill the two slots of `stats_shm` in both measurements.
In `r2p2` a third request can meet the context, or the late reply, of the first.
Rates in `self_correction` are scaled down and chosen so that loads do not divide
evenly and reductions reach 0.01 percent before the limit of time.
`CHECK_DEADLOCK FALSE` stands where a behaviour may really stop: a thread has returned, or requests are used up. Coordination
has an explicit `Finished` step instead, so that any other stop is an error.

*Fairness.* Coordinator and managers are processes that keep being scheduled,
sleeps are finite and every read has a deadline: weak fairness of the coordinator
and of each manager. Nothing is assumed of agents and of deadlines. The ring's
thread polls forever: weak fairness of receiving, matching and error events. Of
the kernel it is assumed that a timestamp it has taken reaches the error queue
(weak fairness of `StampArrives`), without which the agent would spin for ever; of
the rest of the network nothing. `MatchingEnds` needs no more, because a reply exists
only after its packet was stamped. The UDP loop polls all sockets; `SocketsAreFreed` also
assumes that the network delivers what it does not lose. A TCP thread retries its
write and polls its connection forever (weak fairness of `Writing`, strong
fairness of `Reading`, because while it writes it does not read and yet comes
back to each connection), and the server keeps reading and answering.
In `launch` agent, threads and manager keep running; connections may take any time
and may fail, and the barrier opens once all threads are there.
`SendEnds` also depends on the sockets' sizes: while the server is stuck writing,
the requests it has not read must fit on the way to it. With one request too many
(`PickableOneMore`) they do not, and thread and server wait for each other.

### Disagreements found

1. `coord_step_stale`: `collectValues` "Wait for value with a 2 second deadline"
   (`proto.go:76`). A step pattern that goes on after an expired deadline reads
   the late reply as the state of connections.
2. `tx_ring_wrap`: `assert(head >= tail)` (`timestamping.c:237`) fails after
   `tx_byte_counter` has wrapped.
3. `udp_late_stamp`: "make sure the next iteration on this socket doesn't use old
   values" (`tp_udp.c:442`). A timestamp later than its reply is used for the next
   request's sample.
4. `tcp_ascii`: `handle_response` "should contain all the logic for partial
   responses so that BOTH the throughput and latency cases handle this
   correctly" (`tp_tcp.c:720`). `strchnth` (`memcache.c:48`) finds newlines an
   earlier reply left behind the received bytes, and the agent aborts with "got a
   strange amount of response bytes" (`tp_tcp.c:749`).

`AnswersTheRequest` and `FreshReports` hold until the first error. After one, a step
pattern goes on over connections with unread replies: `AnswersTheRequest` fails like
the first disagreement, and so does `FreshReports`, given enough levels and expired
deadlines. With one th agent, four levels and three deadlines a level takes the
throughput of an earlier one for its own (no run shows it: it needs more deadlines
than `coord` allows).

## Proofs

Eight modules hold theorems, one for each component whose name they carry. Every
theorem holds for all values of the constants that the component's `ASSUME` admits:

| Module | Theorems | Property of the run |
|---|---|---|
| `Coordination_proofs` | `TypeCorrect`, `MeasuringCorrect`, `CleanCorrect`, `AnswersCorrect`, `ReportsCorrect` | `TypeOK`, `MeasuringImpliesLoading`, `CleanResult`, `AnswersTheRequest`, `FreshReports` of `coord` |
| `TxTimestampRing_proofs` | `Invariant`, `TypeCorrect`, `CursorsCorrect`, `SamplesCorrect`, `MatchingLoopStops`, `TimesRequestsCorrectly` | the safety properties and the refinement of `tx_ring` |
| `UdpSockets_proofs` | `TypeCorrect`, `FreeReset`, `InFlightIsWaiting`, `SocketsTimeRequests` | the safety properties and the refinement of `udp` |
| `StatsShm_proofs` | `TypeCorrect`, `RequestsCorrect`, `LatenciesCorrect`, `InterarrivalsCorrect`, `SettledCorrect` | all of `stats_shm` |
| `R2p2_proofs` | `TypeCorrect`, `TimestampsCorrect`, `ReplyCorrect` | all of `r2p2` |
| `Launch_proofs` | `TypeCorrect`, `ViewCorrect`, `LoadCorrect`, `OpenCorrect` | the safety properties of `launch` |
| `SelfCorrection_proofs` | `TypeCorrect`, `DeliveredCorrect`, `ReportsCorrect`, `SamplesCorrect` | all of `self_correction` |
| `TcpConnection_proofs` | `TypeCorrect`, `InSync`, `Timely` | the safety properties of `tcp_replies` |

Each has the same shape: an inductive invariant that is a conjunction of named
parts, a lemma for the initial states, one for each action (or for each action and
part), `StepInv`, and theorems that read the properties off. The invariants were
checked by TLC on the instances of the runs before they were proved (`IInv` of the
ring stays a property of `tx_ring`).

### Coordination

The assumption is `CoordinationAssumption`: every experiment has agents, each in one
role, and positive limits. Three invariants build on each other.

* `Types` with `EpochInv`: no agent measures for, and no manager is working on or has
  waiting, a START_MEASURE that the coordinator has not sent.
* `LoadInv`. `MeasuringImpliesLoading` is not inductive: that START_LOAD has been
  applied before START_MEASURE depends on what waits in the inbox. `QueueInv` says
  that no START_MEASURE overtakes the first START_LOAD, and `LoadSent` that the load
  rounds of this level have reached everybody who will get a measuring round. Both
  hold after errors too, because an agent that a broken broadcast did not reach is
  asked again, or its manager has gone (`Told`).
* `CleanInv`, until the first error. For an agent the coordinator waits for there
  is one message underway (`OneMessage`): the request, or the report the manager is
  computing, or the whole reply; for all others none. `Fresh` says that the
  START_MEASURE an agent will have applied when it gets to its next request is the
  last one, and the reports read so far are of that (`WasRead`, `Collected`).

Since replies have no request number, that a reply answers the request rests on
`OneMessage` alone, and on a Read that asks for at least the bytes of one whole
reply (`AfterReadAnswers`). `FreshReports` had been stated for runs with errors as
well; the proof did not go through, and TLC then found the behaviour described
above.

What a Read leaves of a stream is defined with a recursive function (`BytesUpTo`).
Its values are obtained without an induction theorem that takes an operator: among
the indices at which it would go wrong there would be a least one (`LeastMember`,
from the well-foundedness of the natural numbers). The groups and the plan are treated
as sequences of any length: `OnceEach` says that every agent is in a group once, and
`NextRound` that a round without agents is the only one to be skipped.

### StatsShm

`StatsAssumption` bounds the adds by the width of a word. The thread is the only one
that counts, so a word that has been cleared, by a clear that is not undone
(`Live`), is exact but for one add that began before (`CountInv`). With that, a
slot below the word holds a sample of this measurement, or of that one add, or is
about to be written (`SamplesInv`), and what was so when the manager read the word is
still so when it reads the slots (`ReportInv`). `RequestsInv` and `SettledInv` compare
the words with the ghosts of the properties.

### R2p2

`ContextInv`: the context of a request the library keeps holds times of that
request, or none, in each agent type. `SocketInv`, for a socket on which no read has
timed out and no packet has strayed: nothing is left there of earlier requests (`Quiet`), or all there is, in
the socket and on its way to it, is the rest of the one reply that is waited for, in
order (`OwnReply`). So an equal id in another request does no harm.

### Launch

The agent writes its block once and in one order, so the number of words written
tells what the block holds, unless something was left behind (`BlockInv`), which
threads have been started (`ThreadInv`), and what the manager can have seen
(`ManagerInv`). That the agent does not write over a load (`LoadInForce`) is
`written = 4` at that time: known from a poll of this agent's `conn_open`, or, when
nothing was left behind, from the type the manager has read.

### SelfCorrection

`SelfCorrectionAssumption` restricts the command lines. That the list of lags has a
last one is the code's. That the sampling rates add up to 200 percent at most, and
that no base rate is below one request a second, nothing in the code enforces: 11
sampling agents at the default 20 percent exceed the limit, and then `lround(1 / rate)`
at `stats.c:155` is zero and every one of them ends at the remainder by it. The
theorems and the run are about the other command lines only, and `SamplingStep > 0`
in `TypeOK` says no more than that the limit is the right one. `LevelInv` says what each state of the
self-correcting pattern has behind it at this level. `SamplesCorrect` is arithmetic:
a duration rounded up, times a rate at least that of the slowest agent, divided by a
step not rounded up, is at least the samples asked for (`Quotient`, `Cancel`,
`CeilBounds`). `DeliveredCorrect` is the other rounding: the shares of the load add up
to it but for less than one request a second and agent (`Share`), which is within the
tenth that the throughput check allows when an agent has ten requests a second to
serve (`DeliveredPasses`). The check of a level is written once, in its last loading,
so `DeliveredIsAccepted` is itself a conjunct of the invariant. The attempt to prove
it showed that it needs an agent to serve the load: see the exemptions above.

### TxTimestampRing

`Invariant` is `Spec => []IInv`; `MatchingLoopStops` says that the matching loop of
`get_tx_timestamp` always stops, and `TimesRequestsCorrectly` that the ring implements
`RequestTiming`. They assume `RingAssumption` (positive ring size and request lengths) and, each
in its statement, `NoWrap`: fewer bytes are sent than the counter can tell apart.
Without `NoWrap` they are false, as `tx_ring_wrap` shows.

The argument. Safety alone is not inductive: that a reply is timed against its
own packet depends on the timestamps not taken yet. `IInv` adds

* `EndsInv`: requests end at increasing offsets, and the counter is at the last;
* `ProgressInv`: replied <= transmitted <= sent, and the tail is at the end of a
  packet;
* `PendingInv`: slots in use hold their request's offset, and those below the tail
  their own packet;
* `StampsInv`: every packet past the tail has an entry in the error queue or on its
  way there, and before an entry for a packet come entries for all earlier packets
  past the tail.

The last part is why retransmissions are harmless: the first entry that is not
before the request at the tail belongs to the packet that carries it
(`FirstEntry`), so the loop stops exactly at that packet's last request
(`LoopStopsAtPacket`) and marks the requests of that packet only (`EntryStep`).
Slots less than a turn apart differ (`SlotsDiffer`). For the refinement, under
`IInv` the request a sample is timed against is its own, so that `SendRequest` is
`Issue`, `Pop` is `Answer` or `AnswerTimed`, and all else stutters.

### UdpSockets

`FreeReset` holds whatever the network does. `InFlightIsWaiting` is `Spec => []IInv`,
and `SocketsTimeRequests` says that every socket implements `RequestTiming` with `Max`
1 in a network that neither duplicates nor delays timestamps past replies.
They assume `UdpAssumption` (at least one socket, well-formed settings).
`FreeReset` is inductive with the types. That a sample is measured from its own
request is not: it depends on what else is in flight. `IInv` adds, for each socket
in a clean network,

* `WaitInv`: a request waits exactly on a taken socket, and is the last one sent;
* `FlightInv`: the request or its reply is in one place at most, and nothing of
  an earlier request is left;
* `StampInv`: its transmit time has not come, is in the error queue, or is in the
  socket; a free socket has none in either.

There is one lemma per action (`PairSend`, `PairReply`, ...), and `ReplyPaired` says
what they give when a reply is read: it and the transmit time are those of the
request that waits. So `SendRequest` is `Issue`, `HandleReply` is `Answer` or
`AnswerTimed`, and all else stutters.

### TcpConnection

The theorems hold for any lengths of requests, replies, buffers and rooms in the
kernels, so for any cut of the stream into reads. `TcpAssumption` asks for positive
sizes, for replies that fit the buffer, and for values of memcache's text protocol
that are no shorter than `STORED\r\n`: a `VALUE` line, its data and `END` always are
longer, and the parser waits for 8 bytes before it looks. `IInv` adds

* `StreamInv`: every reply takes the bytes after those of the one before;
* `WireInv`: what the server has written is in the socket, in OpenSSL or read;
* `ServerInv`: the server has answered the requests it has read to the end, and no
  more than the thread counts as sent, as `written + left` is what was started;
* `RequestInv`: `pending_reqs`, the cursors of the ring and its slots say which
  requests have been sent and not answered;
* `LatencyInv`: a latency agent has at most one request on its way;
* `BufferInv`: the bytes read are those of the replies counted and those in the
  buffer, which holds the beginning of what has not been counted.

The parsers are the heart of it. `Given` says what a parser is called with, and
`ConsumeWhole` that it takes whole replies, and all of them unless it stops after
one, or, the text parser only, more bytes than there are. It rests on
`PositionsInStep` (each step of `Position` ends where a reply of the stream does),
`LengthOfReply` and `ThirdLineOfReply` (the third newline ends the reply if the
reply is whole, because no earlier byte of the buffer is one of another reply). The
recursions `SumUpTo` and `Position` are over pieces and replies, not over the
constants, so their equations are proved with the least counterexample
(`LeastMember`). That `pop_pending` never asks for a time that was not pushed is
`ServerInv` with `Outcome`: the server answers only what it has read to the end, and
the last byte of a request is written in the step that counts it.

### What is only model-checked

* Liveness (`MatchingEnds`, `CoordinatorEnds`, `ManagersEnd`, `CleanRunStopsAgents`,
  `SocketsAreFreed`, `SendEnds`, `RepliesAreCounted`, `ConnectionsAreTold`): fairness
  is out of the prover's reach.

## Not modelled

* The statistical tests of `stats.py` and the averages of `stats.go`: numeric
  library code. Whether samples are IID is a free choice.
* `fixedTimePattern` and `fixedRepeatPattern`: `runExp` cannot reach them.
* Deployment, flags, argument parsing, the loader: sequential, run once. Random
  generators and keys: no control state.
* `stss_consume_response` (`app_proto.c:199`) reads an uninitialised index, and
  with it 0 takes a part of a reply for the whole. Request formats: pure data.
* Bytes of throughput: `tp_tcp.c:299` accounts only the last part of a request
  that was written in parts, and `tp_r2p2.c:343` counts a timeout as a reply.
* The schedule of requests (`next_tx`): when a request is due is a free choice.
* Time in Coordination: how long a pattern sleeps, and that a deadline is longer
  than a round trip.
* `manager.c` is not built, `picohttpparser.c` is vendored, and the R2P2 library is
  not in the repository.

## Plan

1. Done: all modules above, with proofs of all safety properties.
2. An abstract specification of a round (every agent of the group answered, or
   none is believed) that `Coordination` implements until the first error, and one
   of a byte stream cut into replies that `TcpConnection` implements.
