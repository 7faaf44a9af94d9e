-------------------------------- MODULE R2p2 --------------------------------
(***************************************************************************)
(* The R2P2 transport of one agent thread (agents/tp_r2p2.c).              *)
(*                                                                         *)
(* Three of the four agent types give each request a context on the heap   *)
(* and hand it to the R2P2 library, which is not in the repository: it     *)
(* keeps the context, stores the NIC's timestamps in it when it gets any,  *)
(* and calls one of three callbacks from r2p2_poll, each of which frees    *)
(* the context.  A freed block keeps its contents, both timestamps too,    *)
(* and malloc may return it at once.                                       *)
(*                                                                         *)
(* The latency agent speaks the protocol itself, on datagram sockets with  *)
(* a receive timeout, and knows a reply by a random 16-bit request id.     *)
(* Datagrams may be lost, overtaken and duplicated.                        *)
(***************************************************************************)
EXTENDS Naturals, Sequences

CONSTANTS
  Modes,         \* agent types an experiment may have
  Blocks,        \* bound: blocks malloc has for contexts, numbers from 1
  Sockets,       \* sockets of the latency agent
  Rids,          \* values of a request id: 2^16 in the code
  Packets,       \* packets of a reply
  MaxRequests,   \* bound: requests
  MaxLosses,     \* bound: packets lost
  MaxStrays,     \* bound: packets overtaken or duplicated
  MaxRefusals    \* bound: requests r2p2_send_req does not take

ASSUME R2p2Assumption ==
  /\ Modes \subseteq {"nic", "sym", "thr", "lat"}
  /\ Blocks \subseteq Nat \ {0}
  /\ Packets \in Nat \ {0}
  /\ {MaxRequests, MaxLosses, MaxStrays, MaxRefusals} \subseteq Nat

VARIABLES
  mode,       \* the tp_main function: "nic", "sym", "thr" or "lat"
  made,       \* requests prepared
  ctx,        \* per block: the request it is the context of, and the requests
              \* whose times tx_timestamp and rx_timestamp hold; 0: tv_sec = 0
  next,       \* the context symmetric_nic_r2p2_main has allocated ahead; 0: none
  allocated,  \* blocks that are allocated
  pending,    \* contexts the library keeps
  refused,    \* ghost: contexts of requests the library did not take
  timed,      \* last sample taken by a callback: reply, and the requests whose
              \* times were subtracted
  cur,        \* latency agent: the request it waits for, its socket and id
  box,        \* per socket, packets that have reached it
  underway,   \* replies, each with the packets of it that are still to come
  outOfStep,  \* ghost: sockets on which a read has timed out, or a packet came
              \* out of order or more than once
  read,       \* last latency sample: the request it was for, its socket, and
              \* the request whose packet ended the wait; 0: a timeout
  losses, strays, refusals

contexts == <<ctx, next, allocated, pending, refused, timed, refusals>>
datagrams == <<cur, box, underway, outOfStep, read, losses, strays>>
vars == <<mode, made, contexts, datagrams>>

Idle == [req |-> 0, sock |-> 0, rid |-> 0]
Free == Blocks \ allocated

Init ==
  /\ mode \in Modes /\ made = 0
  /\ ctx = [b \in Blocks |-> [req |-> 0, tx |-> 0, rx |-> 0]]
  /\ next \in IF mode = "nic" THEN Blocks ELSE {0}
  /\ allocated = {next} \ {0} /\ pending = {} /\ refused = {}
  /\ timed = [reply |-> 0, tx |-> 0, rx |-> 0]
  /\ cur = Idle /\ box = [s \in Sockets |-> <<>>] /\ underway = {}
  /\ outOfStep = {}
  /\ read = [req |-> 0, sock |-> 0, of |-> 0]
  /\ losses = 0 /\ strays = 0 /\ refusals = 0

-----------------------------------------------------------------------------
(* Agents with contexts.                                                   *)

\* Fault: the timestamps of a context are not reset.
PreparedNotReset(b) == [ctx[b] EXCEPT !.req = made + 1]

\* Fault: only the time of transmission is reset.
PreparedKeepsReceived(b) ==
  [req |-> made + 1, tx |-> IF mode = "sym" THEN made + 1 ELSE 0,
   rx |-> IF mode = "nic" THEN ctx[b].rx ELSE 0]

\* A context ready to be sent: NIC timestamps reset; or, for the symmetric
\* agent, zeroed and followed by the time of sending; or with what was in it.
Prepared(b) ==
  CASE mode = "nic" -> [req |-> made + 1, tx |-> 0, rx |-> 0]
    [] mode = "sym" -> [req |-> made + 1, tx |-> made + 1, rx |-> 0]
    [] mode = "thr" -> [ctx[b] EXCEPT !.req = made + 1]

\* A request is due: its context is prepared and given to r2p2_send_req, whose
\* result is ignored.  The NIC agent then allocates the context after it.
SendRequest(b) ==
  /\ mode # "lat" /\ made < MaxRequests
  /\ made' = made + 1
  /\ ctx' = [ctx EXCEPT ![b] = Prepared(b)]
  /\ IF mode = "nic"
     THEN \E n \in Free : /\ b = next /\ next' = n
                          /\ allocated' = allocated \cup {n}
     ELSE b \in Free /\ allocated' = allocated \cup {b} /\ UNCHANGED next
  /\ \/ pending' = pending \cup {b} /\ UNCHANGED <<refused, refusals>>
     \/ /\ refusals < MaxRefusals /\ refusals' = refusals + 1
        /\ refused' = refused \cup {b} /\ UNCHANGED pending
  /\ UNCHANGED <<mode, timed, datagrams>>

\* The library stores the NIC's time of a transmission in its request's context,
\* or that of its reply; either may never come, and no callback clears them.
StampSent(b) ==
  /\ mode = "nic" /\ b \in pending
  /\ ctx' = [ctx EXCEPT ![b].tx = ctx[b].req]
  /\ UNCHANGED <<mode, made, next, allocated, pending, refused, timed, refusals,
                 datagrams>>

StampReceived(b) ==
  /\ mode = "nic" /\ b \in pending
  /\ ctx' = [ctx EXCEPT ![b].rx = ctx[b].req]
  /\ UNCHANGED <<mode, made, next, allocated, pending, refused, timed, refusals,
                 datagrams>>

\* Fault: the timeout callback keeps the context.
KeepsOnTimeout(b) == {}

\* lancet_timeout_cb frees its argument.
FreesOnTimeout(b) == {b}

\* The time of the reply: the symmetric agent reads the clock, the NIC agent takes
\* what the context holds.
ReceiveTime(b) == IF mode = "sym" THEN ctx[b].req ELSE ctx[b].rx

\* The success callback: a sample if both times are there, and free.
Succeed(b) ==
  /\ b \in pending
  /\ timed' = IF mode = "thr" \/ 0 \in {ctx[b].tx, ReceiveTime(b)} THEN timed
              ELSE [reply |-> ctx[b].req, tx |-> ctx[b].tx, rx |-> ReceiveTime(b)]
  /\ pending' = pending \ {b} /\ allocated' = allocated \ {b}
  /\ UNCHANGED <<mode, made, ctx, next, refused, refusals, datagrams>>

\* The error callback, or the timeout callback.
Fail(b) ==
  /\ b \in pending
  /\ pending' = pending \ {b}
  /\ \/ allocated' = allocated \ {b}
     \/ allocated' = allocated \ FreesOnTimeout(b)
  /\ UNCHANGED <<mode, made, ctx, next, refused, timed, refusals, datagrams>>

-----------------------------------------------------------------------------
(* The latency agent.                                                      *)

\* A request with a random id on a random socket.
SendAndWait ==
  /\ mode = "lat" /\ cur = Idle /\ made < MaxRequests
  /\ made' = made + 1
  /\ \E s \in Sockets, rid \in Rids :
       /\ cur' = [req |-> made', sock |-> s, rid |-> rid]
       /\ underway' = underway \cup {[req |-> made', sock |-> s, rid |-> rid,
                                      left |-> 1..Packets]}
  /\ UNCHANGED <<mode, contexts, box, outOfStep, read, losses, strays>>

\* The wait ends and a sample is taken, whatever has come.
Sample(of) ==
  /\ read' = [req |-> cur.req, sock |-> cur.sock, of |-> of]
  /\ cur' = Idle

\* Fault: one packet is taken for the reply.
EndsWaitAtOnce(p) == TRUE

\* The loop around read ends with a wrong id, or with the last packet.
EndsWait(p) == p.rid # cur.rid \/ p.last

ReadPacket ==
  /\ cur # Idle /\ box[cur.sock] # <<>>
  /\ LET p == Head(box[cur.sock])
     IN  IF EndsWait(p) THEN Sample(p.req) ELSE UNCHANGED <<cur, read>>
  /\ box' = [box EXCEPT ![cur.sock] = Tail(@)]
  /\ UNCHANGED <<mode, made, contexts, underway, outOfStep, losses, strays>>

\* SO_RCVTIMEO, two seconds.
ReadTimesOut ==
  /\ cur # Idle /\ box[cur.sock] = <<>>
  /\ outOfStep' = outOfStep \cup {cur.sock}
  /\ Sample(0)
  /\ UNCHANGED <<mode, made, contexts, box, underway, losses, strays>>

\* Packet i of reply r, which no packet of it that is still to come precedes.
InOrder(r, i) == \A j \in r.left : i <= j

\* The replies underway once packet i of r has come.
Without(r, i) ==
  (underway \ {r}) \cup IF r.left = {i} THEN {} ELSE {[r EXCEPT !.left = @ \ {i}]}

\* Packet i of r is put into its socket.
Deliver(r, i) ==
  box' = [box EXCEPT ![r.sock] =
            Append(@, [req |-> r.req, rid |-> r.rid, last |-> i = Packets])]

\* The next packet of a reply reaches its socket, or is lost.
PacketComes(r, i) ==
  /\ i \in r.left /\ InOrder(r, i)
  /\ underway' = Without(r, i)
  /\ \/ Deliver(r, i) /\ UNCHANGED losses
     \/ losses < MaxLosses /\ losses' = losses + 1 /\ UNCHANGED box
  /\ UNCHANGED <<mode, made, contexts, cur, outOfStep, read, strays>>

\* A packet reaches its socket before one sent earlier, or is to come once more.
PacketStrays(r, i) ==
  /\ strays < MaxStrays /\ strays' = strays + 1
  /\ i \in r.left
  /\ \/ ~InOrder(r, i) /\ underway' = Without(r, i)
     \/ UNCHANGED underway
  /\ Deliver(r, i)
  /\ outOfStep' = outOfStep \cup {r.sock}
  /\ UNCHANGED <<mode, made, contexts, cur, read, losses>>

-----------------------------------------------------------------------------
Next == \/ \E b \in Blocks : \/ SendRequest(b) \/ StampSent(b) \/ StampReceived(b)
                              \/ Succeed(b) \/ Fail(b)
        \/ SendAndWait \/ ReadPacket \/ ReadTimesOut
        \/ \E r \in underway, i \in 1..Packets : PacketComes(r, i) \/ PacketStrays(r, i)

Spec == Init /\ [][Next]_vars

-----------------------------------------------------------------------------
(* Properties.                                                             *)

\* Every variable keeps its type, and every allocated context is with the
\* library, is the one allocated ahead, or belongs to a refused request: nothing
\* is freed twice, and only refusals leak.
TypeOK ==
  /\ mode \in Modes /\ made \in 0..MaxRequests
  /\ \A b \in Blocks : {ctx[b].req, ctx[b].tx, ctx[b].rx} \subseteq 0..made
  /\ next \in Blocks \cup {0}
  /\ allocated = pending \cup refused \cup ({next} \ {0})
  /\ pending \cap refused = {} /\ next \notin pending \cup refused
  /\ cur = Idle \/ cur \in [req : 1..made, sock : Sockets, rid : Rids]
  /\ \A r \in underway : r.left \in (SUBSET (1..Packets)) \ {{}}
  /\ losses \in 0..MaxLosses /\ strays \in 0..MaxStrays /\ refusals \in 0..MaxRefusals

\* "Important, set default values to 0" (tp_r2p2.c:398): a sample subtracts
\* times of its own request, although contexts are freed with both timestamps in
\* them and allocated again, and either timestamp may never come.
OwnTimestamps == timed.tx = timed.reply /\ timed.rx = timed.reply

\* The wait ends at the packet marked last and no packet is counted: on a socket
\* on which every reply came in order and once, and no read timed out, the latency
\* agent's sample is ended by its own reply.  After a timeout, or a packet that
\* was overtaken or duplicated, what is left is read one request too late.
OwnReplyInStep == read.sock \notin outOfStep => read.of = read.req
=============================================================================
