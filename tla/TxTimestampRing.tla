--------------------------- MODULE TxTimestampRing ---------------------------
(***************************************************************************)
(* Pairing replies with NIC transmit timestamps on one TCP connection of a *)
(* symmetric agent: the ring of agents/timestamping.c as the loop of       *)
(* symmetric_nic_tcp_main drives it.  A connection, its ring and its error *)
(* queue belong to one thread, so a connection can be studied alone.       *)
(*                                                                         *)
(* The kernel names a transmit timestamp by the stream offset of the last  *)
(* byte of the stamped packet; the agent keeps, for every request, the     *)
(* offset of its end (tx_byte_counter, 32 bits wide) and matches the two.  *)
(* A packet may carry several requests, a retransmitted packet is stamped  *)
(* again, and a timestamp reaches the error queue some time after its      *)
(* packet was sent: the reply may be read first, and the thread then waits *)
(* on an empty queue.                                                      *)
(*                                                                         *)
(* The cursors head, tail and consumed count requests and are never        *)
(* reduced here: a request has a byte at least, so the byte counter wraps  *)
(* before they do.                                                         *)
(***************************************************************************)
EXTENDS Integers, Sequences

CONSTANTS
  Max,            \* get_max_pending_reqs()
  Modulus,        \* 2^32: values of tx_byte_counter and of a timestamp's key
  Lengths,        \* lengths of requests in bytes
  MaxBytes,       \* bound: bytes sent on the connection
  MaxRetransmits  \* bound: retransmitted packets

ASSUME RingAssumption ==
  /\ Max \in Nat \ {0} /\ Modulus \in Nat \ {0}
  /\ Lengths \subseteq Nat \ {0}
  /\ MaxBytes \in Nat /\ MaxRetransmits \in Nat

\* Fewer bytes are sent than the counter can tell apart.
NoWrap == MaxBytes < Modulus

VARIABLES
  counter,      \* tx_byte_counter
  head,         \* requests sent
  tail,         \* requests whose timestamp has been received
  consumed,     \* requests matched with their reply
  pending,      \* the ring: offset of a request's end, and its timestamp
  pendingReqs,  \* conn->pending_reqs
  closed,       \* conn->closed
  pc,           \* "loop"; "pop": matching the replies of a read; "err":
                \* in get_tx_timestamp for an EPOLLERR event; "ended": the
                \* thread returned or aborted on sendmsg or recvmsg; "hung": the
                \* matching loop of get_tx_timestamp does not end
  toPop,        \* replies of the current read still to be matched
  sample,       \* last latency sample: its reply, and the packet timed
  ends,         \* ghost: offset of the end of every request, not reduced
  cuts,         \* packets sent, each named by its last request
  xmit,         \* requests the NIC has sent at least once
  replied,      \* requests whose reply has reached the socket
  stamps,       \* timestamps the thread has not taken, in order
  visible,      \* how many of them have reached the socket's error queue
  retransmits

ring == <<counter, head, tail, consumed, pending>>
thread == <<pendingReqs, closed, pc, toPop, sample>>
network == <<ends, cuts, xmit, replied, stamps, visible, retransmits>>
vars == <<ring, thread, network>>

Slots == 0..Max - 1
Total == IF head = 0 THEN 0 ELSE ends[head]
Read == consumed + toPop

Init ==
  /\ counter = 0 /\ head = 0 /\ tail = 0 /\ consumed = 0
  /\ pending = [s \in Slots |-> [optid |-> 0, time |-> 0]]
  /\ pendingReqs = 0 /\ closed = FALSE /\ pc = "loop" /\ toPop = 0
  /\ sample = [reply |-> 0, packet |-> 0]
  /\ ends = <<>> /\ cuts = {} /\ xmit = 0 /\ replied = 0 /\ stamps = <<>>
  /\ visible = 0 /\ retransmits = 0

-----------------------------------------------------------------------------
(* The thread.                                                             *)

\* Fault: pick_conn compares with <=.
PickableOneMore == ~closed /\ pendingReqs <= Max

\* pick_conn accepts the connection.
Pickable == ~closed /\ pendingReqs < Max

\* The connection is picked, sendmsg takes the whole request, and
\* add_pending_tx_timestamp records where it ends.
SendRequest(len) ==
  /\ pc = "loop" /\ Pickable
  /\ Total + len <= MaxBytes
  /\ counter' = (counter + len) % Modulus
  /\ pending' = [pending EXCEPT ![head % Max].optid = counter']
  /\ head' = head + 1
  /\ pendingReqs' = pendingReqs + 1
  /\ ends' = Append(ends, Total + len)
  /\ UNCHANGED <<tail, consumed, closed, pc, toPop, sample, cuts, xmit,
                 replied, stamps, visible, retransmits>>

\* sendmsg fails and the thread returns, or it takes only a part (or nothing,
\* on EWOULDBLOCK) and the assertion that it took all ends the process.
SendFails ==
  /\ pc = "loop" /\ Pickable
  /\ pc' = "ended"
  /\ UNCHANGED <<ring, pendingReqs, closed, toPop, sample, network>>

\* An EPOLLIN event whose read completes n replies.
ReceiveReplies(n) ==
  /\ pc = "loop" /\ ~closed /\ n \in 1..replied - Read
  /\ pendingReqs' = pendingReqs - n
  /\ toPop' = n
  /\ pc' = "pop"
  /\ UNCHANGED <<ring, closed, sample, network>>

\* An EPOLLIN event whose read fails, so that the thread returns, or whose data has
\* no receive timestamp, which an assertion of timestamp_recv does not forgive.
ReceiveFails ==
  /\ pc = "loop" /\ ~closed
  /\ pc' = "ended"
  /\ UNCHANGED <<ring, pendingReqs, closed, toPop, sample, network>>

\* An EPOLLIN event whose read finds the stream ended by the server.
PeerCloses ==
  /\ pc = "loop" /\ ~closed /\ replied = Read
  /\ closed' = TRUE
  /\ UNCHANGED <<ring, pendingReqs, pc, toPop, sample, network>>

\* Fault: the loop over the replies of a read runs once more.
LastOfReadOneMore == toPop = 0

\* The loop over the replies of a read is at its last turn.
LastOfRead == toPop = 1

\* pop_pending_tx_timestamps finds a timestamp.  Only the last reply of a
\* read becomes a latency sample.
Pop ==
  /\ pc = "pop" /\ consumed < tail
  /\ consumed' = consumed + 1
  /\ toPop' = toPop - 1
  /\ IF LastOfRead
     THEN /\ pc' = "loop"
          /\ sample' = [reply  |-> consumed + 1,
                        packet |-> pending[consumed % Max].time]
     ELSE UNCHANGED <<pc, sample>>
  /\ UNCHANGED <<counter, head, tail, pending, pendingReqs, closed, network>>

\* The matching loop of get_tx_timestamp ends with the tail at n: the request
\* before n ends exactly at offset key, or slot n holds a later offset.
StopsAt(n, key) == \/ pending[(n - 1) % Max].optid = key
                   \/ pending[n % Max].optid > key

\* Every request from the tail up to the key gets the packet's timestamp.  The
\* slots repeat after Max steps, so a loop that has not stopped by then spins.
Match(key, packet, next) ==
  IF \A n \in tail + 1 .. tail + Max : ~StopsAt(n, key)
  THEN pc' = "hung" /\ UNCHANGED <<pending, tail>>
  ELSE \E n \in tail + 1 .. tail + Max :
         /\ StopsAt(n, key)
         /\ \A m \in tail + 1 .. n - 1 : ~StopsAt(m, key)
         /\ pending' = [s \in Slots |->
                          IF \E i \in tail..n - 1 : i % Max = s
                          THEN [pending[s] EXCEPT !.time = packet]
                          ELSE pending[s]]
         /\ tail' = n
         /\ pc' = next

\* Fault: resubmissions are not told apart.
ResubmissionNever(key) == FALSE

\* Fault: an exact match is taken for a resubmission.
ResubmissionExact(key) == key <= pending[tail % Max].optid

\* The timestamp's offset is before that of the request at the tail.
Resubmission(key) == key < pending[tail % Max].optid

\* get_tx_timestamp takes one entry off the error queue.  A resubmission is
\* dropped and the function calls itself.
GetTxTimestamp(again, next) ==
  /\ tail < head /\ visible > 0
  /\ stamps' = Tail(stamps) /\ visible' = visible - 1
  /\ LET key == (Head(stamps).key + 1) % Modulus
     IN  IF Resubmission(key)
         THEN pc' = again /\ UNCHANGED <<pending, tail>>
         ELSE Match(key, Head(stamps).packet, next)
  /\ UNCHANGED <<counter, head, consumed, pendingReqs, closed, toPop, sample,
                 ends, cuts, xmit, replied, retransmits>>

\* No timestamp yet for the reply at hand: get_tx_timestamp is called until
\* it finds one.  While the queue is empty that changes nothing.
AwaitTimestamp ==
  pc = "pop" /\ consumed >= tail /\ GetTxTimestamp("pop", "pop")

\* An EPOLLERR event, reported alone: there is no reply to read.
ErrorEvent ==
  /\ pc = "loop" /\ ~closed /\ replied = Read
  /\ GetTxTimestamp("err", "loop")

ErrorEventAgain == pc = "err" /\ GetTxTimestamp("err", "loop")

ErrorEventDone ==
  /\ pc = "err" /\ (tail >= head \/ visible = 0)
  /\ pc' = "loop"
  /\ UNCHANGED <<ring, pendingReqs, closed, toPop, sample, network>>

-----------------------------------------------------------------------------
(* The network: kernel, NIC and server.                                    *)

Stamp(b) == [key |-> (ends[b] - 1) % Modulus, packet |-> b]

\* A packet with the requests after xmit up to b is sent and stamped; the timestamp
\* is on its way to the error queue.
Transmit(b) ==
  /\ b \in xmit + 1 .. head
  /\ xmit' = b
  /\ cuts' = cuts \cup {b}
  /\ stamps' = Append(stamps, Stamp(b))
  /\ UNCHANGED <<ring, thread, ends, replied, visible, retransmits>>

\* A packet whose last request has no reply yet is sent and stamped again.
Retransmit(b) ==
  /\ b \in cuts /\ b > replied /\ retransmits < MaxRetransmits
  /\ retransmits' = retransmits + 1
  /\ stamps' = Append(stamps, Stamp(b))
  /\ UNCHANGED <<ring, thread, ends, cuts, xmit, replied, visible>>

\* The next timestamp reaches the error queue.
StampArrives ==
  /\ visible < Len(stamps)
  /\ visible' = visible + 1
  /\ UNCHANGED <<ring, thread, ends, cuts, xmit, replied, stamps, retransmits>>

\* The reply to the next request reaches the agent's socket.
ReplyArrives ==
  /\ replied < xmit
  /\ replied' = replied + 1
  /\ UNCHANGED <<ring, thread, ends, cuts, xmit, stamps, visible, retransmits>>

-----------------------------------------------------------------------------
Send == \E len \in Lengths : SendRequest(len)
Receive == \E n \in 1..Max : ReceiveReplies(n)
Matching == Pop \/ AwaitTimestamp
Errors == ErrorEvent \/ ErrorEventAgain \/ ErrorEventDone

Next == \/ Send \/ SendFails \/ Receive \/ ReceiveFails \/ PeerCloses
        \/ Matching \/ Errors
        \/ \E b \in 1..head : Transmit(b) \/ Retransmit(b)
        \/ StampArrives \/ ReplyArrives

Spec == Init /\ [][Next]_vars

\* The thread never sleeps: every pass of its loop polls the socket, and it
\* calls get_tx_timestamp until it finds what it waits for.  The kernel queues
\* the timestamp of every packet the NIC has stamped.  Nothing else is assumed of
\* the network: packets may never be sent, and replies may never come.
FairSpec == /\ Spec
            /\ WF_vars(Receive) /\ WF_vars(Matching) /\ WF_vars(Errors)
            /\ WF_vars(StampArrives)

-----------------------------------------------------------------------------
(* Properties.                                                             *)

\* Every variable keeps its type; in particular no reply is left to match
\* outside the matching loop of symmetric_nic_tcp_main.
TypeOK ==
  /\ counter \in Nat /\ head \in Nat /\ tail \in Nat /\ consumed \in Nat
  /\ pending \in [Slots -> [optid : Nat, time : Nat]]
  /\ pendingReqs \in Int /\ closed \in BOOLEAN
  /\ pc \in {"loop", "pop", "err", "ended", "hung"}
  /\ toPop \in Nat /\ (toPop = 0 <=> pc # "pop")
  /\ sample \in [reply : Nat, packet : Nat]
  /\ ends \in Seq(Nat) /\ Len(ends) = head
  /\ cuts \subseteq Nat /\ xmit \in Nat /\ replied \in Nat
  /\ stamps \in Seq([key : Nat, packet : Nat]) /\ visible \in 0..Len(stamps)
  /\ retransmits \in Nat

\* The assertions of get_tx_timestamp, pop_pending_tx_timestamps and the main
\* loop: consumed <= tail <= head, no slot is used by two requests at a time,
\* and pending_reqs counts the requests without a read reply.
CursorsInOrder ==
  /\ consumed <= tail /\ tail <= head
  /\ head - consumed <= Max
  /\ pendingReqs = head - Read /\ pendingReqs >= 0

\* assert(tx_timestamps->head >= tx_timestamps->tail) (timestamping.c:237).
TailNotPastHead == tail <= head

\* b is the packet that carried request j when it was first sent.
CarriedBy(j, b) ==
  b \in cuts /\ j <= b /\ \A c \in cuts : j <= c => b <= c

\* A latency sample subtracts from the receive time of a reply the time of the
\* packet that carried its request, whatever was coalesced, retransmitted or
\* late (get_tx_timestamp, pop_pending_tx_timestamps).
SampleOfOwnPacket ==
  sample.reply > 0 => CarriedBy(sample.reply, sample.packet)

\* The matching loop of get_tx_timestamp stops within one turn of the ring:
\* every timestamp that is not a resubmission names a request that waits.
MatchLoopStops == pc # "hung"

\* The loop that waits for a transmit timestamp, also on an empty error queue,
\* ends: the timestamp of a request is never dropped or passed over before its
\* reply is matched.
MatchingEnds == pc = "pop" ~> pc = "loop"

-----------------------------------------------------------------------------
(* Refinement of RequestTiming.                                            *)

\* The request the last sample is timed against: its own, if the packet is the
\* one that carried it; 0 stands for any other.
TimedRequest ==
  IF sample.reply = 0 \/ CarriedBy(sample.reply, sample.packet)
  THEN sample.reply ELSE 0

Timing == INSTANCE RequestTiming WITH
            issued <- head, answered <- consumed,
            timed <- [reply |-> sample.reply, request |-> TimedRequest]

\* The ring, driven by symmetric_nic_tcp_main, is a correct way of timing the
\* requests of a connection.
TimesRequests == Timing!Spec

-----------------------------------------------------------------------------
(* The inductive invariant behind the safety properties, under NoWrap.     *)

\* Requests end at increasing offsets, and the counter is at the last of them.
EndsInv == /\ \A i \in 1..head : ends[i] \in 1..MaxBytes
           /\ \A i, j \in 1..head : i < j => ends[i] < ends[j]
           /\ counter = Total

\* Replies follow transmissions, transmissions follow requests; the tail has
\* always been set by some packet.
ProgressInv == /\ Read <= replied /\ replied <= xmit /\ xmit <= head
               /\ cuts \subseteq 1..xmit
               /\ xmit \in cuts \cup {0} /\ tail \in cuts \cup {0}

\* The slots in use hold the offsets of the waiting requests, and those below
\* the tail the packet of theirs.
PendingInv ==
  /\ \A i \in consumed..head - 1 : pending[i % Max].optid = ends[i + 1]
  /\ \A i \in consumed..tail - 1 : CarriedBy(i + 1, pending[i % Max].time)

\* Timestamps not taken yet: an entry names a packet by its last byte, every packet past
\* the tail has one, and before a packet's entry come those of the earlier
\* packets past the tail.
StampsInv ==
  /\ \A q \in 1..Len(stamps) : /\ stamps[q].packet \in cuts
                               /\ stamps[q].key = ends[stamps[q].packet] - 1
  /\ \A c \in cuts : c <= tail \/ \E q \in 1..Len(stamps) : stamps[q].packet = c
  /\ \A q \in 1..Len(stamps) : \A c \in cuts :
       c < stamps[q].packet => c <= tail \/ \E p \in 1..q - 1 : stamps[p].packet = c

\* What the thread relies on between any two steps of the ring, the kernel and
\* the server: add_pending, get and pop_pending_tx_timestamps keep it together.
IInv == /\ TypeOK /\ CursorsInOrder /\ SampleOfOwnPacket /\ MatchLoopStops
        /\ EndsInv /\ ProgressInv /\ PendingInv /\ StampsInv
=============================================================================
