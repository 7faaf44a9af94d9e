----------------------------- MODULE UdpSockets -----------------------------
(***************************************************************************)
(* The sockets of one agent thread over UDP (agents/tp_udp.c): how they    *)
(* are taken, freed and used again, and which transmit time each reply is  *)
(* measured from.  Threads share nothing, so one of them is enough.        *)
(*                                                                         *)
(* A datagram carries one request or one reply, and nothing in a reply     *)
(* names its request: a thread knows it by the socket alone, on which it   *)
(* has one request waiting at a time.  Datagrams are lost, duplicated and  *)
(* reordered.  With NIC timestamping the time of a transmission comes by   *)
(* itself, on the error queue of the socket.                               *)
(***************************************************************************)
EXTENDS Naturals, Sequences

CONSTANTS
  N,            \* sockets of the thread: get_conn_count() / get_thread_count()
  Settings,     \* experiments to check: see Setting
  MaxLosses     \* bound: datagrams lost

\* mode: the tp_main function, "nic" (symmetric_nic_udp_main), "sym"
\* (symmetric_udp_main), "lat" (latency_udp_main) or "thr" (throughput_udp_main);
\* late: a reply may reach the socket before its request's timestamp; requests,
\* duplicates: bounds, requests on each socket and datagrams duplicated.
Setting == [mode : {"nic", "sym", "lat", "thr"}, late : BOOLEAN,
            requests : Nat, duplicates : Nat]

ASSUME UdpAssumption ==
  N \in Nat \ {0} /\ Settings \subseteq Setting /\ MaxLosses \in Nat

VARIABLES
  setting,   \* what the experiment and its network are like
  turn,      \* socket_idx, reduced: the socket get_socket looks at next
  taken,     \* per socket, socket->taken
  txTime,    \* per socket, the request whose transmit time tx_timestamp (or
             \* start_time) holds; 0: reset, tv_sec = 0
  pc,        \* "loop"; "recv": blocked in the recv of latency_udp_main;
             \* "ended": the thread has returned or aborted
  sample,    \* per socket, last latency sample: the reply, and the request
             \* whose transmit time it was measured from
  answered,  \* ghost: per socket, replies handled
  sent,      \* per socket, requests given to the kernel
  xmit,      \* per socket, requests sent by the NIC
  stamped,   \* per socket, requests whose timestamp has reached the socket
  errq,      \* per socket, its error queue
  underway,  \* per socket, requests being answered, or whose reply travels
  rxq,       \* per socket, replies that have reached it
  losses, duplicates

thread == <<turn, taken, txTime, pc, sample, answered>>
network == <<sent, xmit, stamped, errq, underway, rxq, losses, duplicates>>
vars == <<setting, thread, network>>

mode == setting.mode
Sockets == 0..N - 1
cur == (turn + N - 1) % N  \* the socket get_socket returned last
Nic == mode = "nic"

\* What the thread does after it has sent a request.
Ready == IF mode = "lat" THEN "recv" ELSE "loop"

Init ==
  /\ setting \in Settings /\ turn = 0 /\ pc = "loop" /\ losses = 0 /\ duplicates = 0
  /\ taken = [s \in Sockets |-> FALSE]
  /\ txTime = [s \in Sockets |-> 0]
  /\ sample = [s \in Sockets |-> [reply |-> 0, request |-> 0]]
  /\ answered = [s \in Sockets |-> 0] /\ sent = [s \in Sockets |-> 0]
  /\ xmit = [s \in Sockets |-> 0] /\ stamped = [s \in Sockets |-> 0]
  /\ errq = [s \in Sockets |-> <<>>] /\ rxq = [s \in Sockets |-> <<>>]
  /\ underway = [s \in Sockets |-> {}]

-----------------------------------------------------------------------------
(* The thread.                                                             *)

\* Fault: socket_idx is not reduced.
NextTurnNoModulo == turn + 1

NextTurn == (turn + 1) % N

\* get_socket finds the socket free and takes it; the request is written to
\* it.  Without NIC timestamping the clock is read just before.
SendRequest ==
  /\ pc = "loop" /\ ~taken[turn] /\ sent[turn] < setting.requests
  /\ turn' = NextTurn
  /\ taken' = [taken EXCEPT ![turn] = TRUE]
  /\ sent' = [sent EXCEPT ![turn] = @ + 1]
  /\ txTime' = IF mode \in {"sym", "lat"}
               THEN [txTime EXCEPT ![turn] = sent'[turn]] ELSE txTime
  /\ pc' = Ready
  /\ UNCHANGED <<setting, sample, answered, xmit, stamped, errq, underway, rxq,
                 losses, duplicates>>

\* get_socket finds the socket taken: nothing is sent, the next one is next.
SkipSocket ==
  /\ pc = "loop" /\ taken[turn]
  /\ turn' = NextTurn
  /\ UNCHANGED <<setting, taken, txTime, pc, sample, answered, network>>

\* The transmit time a reply handled now is measured from.  NIC: when it has
\* not come by itself, one entry of the error queue is taken, if there is one.
Fetches(s) == Nic /\ txTime[s] = 0 /\ errq[s] # <<>>
TxTime(s) == IF Fetches(s) THEN Head(errq[s]) ELSE txTime[s]

\* Fault: the timestamps are not reset.
TxTimeAfterKept(s) == TxTime(s)

\* tx_timestamp once the reply has been handled: only the NIC loop resets it.
TxTimeAfter(s) == IF Nic THEN 0 ELSE txTime[s]

\* Fault: a reply without a latency sample is left at that.
TakenAfterSampled(s) == TxTime(s) = 0

\* The socket is available again, sampled or not.
TakenAfter(s) == FALSE

\* A datagram is received, the latency sample taken if there is a transmit
\* time, and the socket freed.
HandleReply(s) ==
  /\ pc = Ready /\ rxq[s] # <<>> /\ (pc = "recv" => s = cur)
  /\ rxq' = [rxq EXCEPT ![s] = Tail(@)]
  /\ errq' = IF Fetches(s) THEN [errq EXCEPT ![s] = Tail(@)] ELSE errq
  /\ sample' = IF TxTime(s) = 0 THEN sample
               ELSE [sample EXCEPT ![s] = [reply   |-> Head(rxq[s]),
                                           request |-> TxTime(s)]]
  /\ txTime' = [txTime EXCEPT ![s] = TxTimeAfter(s)]
  /\ answered' = [answered EXCEPT ![s] = @ + 1]
  /\ taken' = [taken EXCEPT ![s] = TakenAfter(s)]
  /\ pc' = "loop"
  /\ UNCHANGED <<setting, turn, sent, xmit, stamped, underway, losses, duplicates>>

\* Fault: a timestamp is stored whether or not a request waits for it.
StoresAlways(s) == TRUE

\* A timestamp is for the request that waits on the socket.
Stores(s) == taken[s]

\* An EPOLLERR event without a reply to read: the timestamp is stored if the
\* socket is taken, and dropped otherwise.
HandleError(s) ==
  /\ Nic /\ pc = "loop" /\ errq[s] # <<>> /\ rxq[s] = <<>>
  /\ errq' = [errq EXCEPT ![s] = Tail(@)]
  /\ txTime' = IF Stores(s) THEN [txTime EXCEPT ![s] = Head(errq[s])]
               ELSE txTime
  /\ UNCHANGED <<setting, turn, taken, pc, sample, answered, sent, xmit, stamped,
                 underway, rxq, losses, duplicates>>

\* The recv of latency_udp_main fails after two seconds: the thread returns.
RecvTimeout ==
  /\ pc = "recv" /\ rxq[cur] = <<>>
  /\ pc' = "ended"
  /\ UNCHANGED <<setting, turn, taken, txTime, sample, answered, network>>

\* A write or a read reports an error, as after an ICMP message, or an
\* assertion about its result fails.
SocketFails ==
  /\ pc # "ended"
  /\ pc' = "ended"
  /\ UNCHANGED <<setting, turn, taken, txTime, sample, answered, network>>

-----------------------------------------------------------------------------
(* The network: kernel, NIC and server.                                    *)

\* The next datagram of a socket leaves the NIC.
Transmit(s) ==
  /\ xmit[s] < sent[s]
  /\ xmit' = [xmit EXCEPT ![s] = @ + 1]
  /\ underway' = [underway EXCEPT ![s] = @ \cup {xmit'[s]}]
  /\ UNCHANGED <<setting, thread, sent, stamped, errq, rxq, losses, duplicates>>

\* The timestamp of the next transmitted datagram reaches the error queue.
StampArrives(s) ==
  /\ Nic /\ stamped[s] < xmit[s]
  /\ stamped' = [stamped EXCEPT ![s] = @ + 1]
  /\ errq' = [errq EXCEPT ![s] = Append(@, stamped'[s])]
  /\ UNCHANGED <<setting, thread, sent, xmit, underway, rxq, losses, duplicates>>

\* The reply to request r reaches the socket, once or first of several times.
ReplyArrives(s, r) ==
  /\ r \in underway[s]
  /\ Nic /\ ~setting.late => r <= stamped[s]
  /\ rxq' = [rxq EXCEPT ![s] = Append(@, r)]
  /\ \/ underway' = [underway EXCEPT ![s] = @ \ {r}] /\ UNCHANGED duplicates
     \/ /\ duplicates < setting.duplicates /\ duplicates' = duplicates + 1
        /\ UNCHANGED underway
  /\ UNCHANGED <<setting, thread, sent, xmit, stamped, errq, losses>>

\* The request r or its reply is lost.
Lose(s, r) ==
  /\ r \in underway[s] /\ losses < MaxLosses
  /\ losses' = losses + 1
  /\ underway' = [underway EXCEPT ![s] = @ \ {r}]
  /\ UNCHANGED <<setting, thread, sent, xmit, stamped, errq, rxq, duplicates>>

-----------------------------------------------------------------------------
Thread == \/ SendRequest \/ SkipSocket \/ RecvTimeout \/ SocketFails
          \/ \E s \in Sockets : HandleReply(s) \/ HandleError(s)

Network(s) == \/ Transmit(s) \/ StampArrives(s)
              \/ \E r \in underway[s] : ReplyArrives(s, r)

Next == \/ Thread
        \/ \E s \in Sockets : Network(s) \/ \E r \in underway[s] : Lose(s, r)

Spec == Init /\ [][Next]_vars

\* Every turn of the thread's loop polls all sockets and handles what has
\* come; the network brings what it does not lose.
FairSpec == /\ Spec
            /\ \A s \in Sockets : WF_vars(HandleReply(s)) /\ WF_vars(Network(s))

-----------------------------------------------------------------------------
(* Properties.                                                             *)

\* Every variable keeps its type; the NIC is never ahead of the thread, nor the
\* timestamps of the NIC.
TypeOK ==
  /\ setting \in Settings /\ turn \in Sockets /\ pc \in {"loop", "recv", "ended"}
  /\ taken \in [Sockets -> BOOLEAN]
  /\ txTime \in [Sockets -> Nat] /\ answered \in [Sockets -> Nat]
  /\ sent \in [Sockets -> Nat] /\ xmit \in [Sockets -> Nat]
  /\ stamped \in [Sockets -> Nat]
  /\ sample \in [Sockets -> [reply : Nat, request : Nat]]
  /\ errq \in [Sockets -> Seq(Nat)] /\ rxq \in [Sockets -> Seq(Nat)]
  /\ underway \in [Sockets -> SUBSET Nat]
  /\ \A s \in Sockets : /\ stamped[s] <= xmit[s] /\ xmit[s] <= sent[s]
                         /\ sent[s] <= setting.requests
  /\ losses \in 0..MaxLosses /\ duplicates \in 0..setting.duplicates

\* The NIC loop leaves no transmit time in a socket it has freed, so that a
\* socket is always taken without one, however late timestamps come and however
\* often replies do (tp_udp.c:442-446 and 453).
FreeSocketsAreReset ==
  Nic => \A s \in Sockets : ~taken[s] => txTime[s] = 0

\* "make sure the next iteration on this socket doesn't use old values"
\* (tp_udp.c:442): a latency sample uses its own request's transmit time.
NoOldTimestamp == \A s \in Sockets : sample[s].request = sample[s].reply

\* Unless a datagram is lost, a taken socket is freed again: get_socket does
\* not run out of sockets.
SocketsAreFreed ==
  \A s \in Sockets : taken[s] ~> (~taken[s] \/ pc = "ended" \/ losses > 0)

\* The network neither duplicates nor hands over a reply before its request's
\* timestamp.
Clean == ~setting.late /\ setting.duplicates = 0

Timing(s) == INSTANCE RequestTiming WITH
               Max <- 1, issued <- sent[s], answered <- answered[s],
               timed <- sample[s]

\* In a clean network every socket is a correct way of timing requests, with one
\* waiting at most; a lost datagram ends its use, but mixes up nothing.
TimesRequests ==
  /\ \A s \in Sockets : Timing(s)!Init
  /\ [][Clean => \A s \in Sockets : [Timing(s)!Next]_(Timing(s)!vars)]_vars
=============================================================================
