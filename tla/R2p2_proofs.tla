----------------------------- MODULE R2p2_proofs -----------------------------
(***************************************************************************)
(* Theorems about R2p2, for any number of contexts, sockets, request ids,  *)
(* packets of a reply, requests, losses, strays and refusals.              *)
(*                                                                         *)
(* OwnTimestamps rests on what preparing a context leaves in it: a context *)
(* the library keeps holds times of its own request, or none, whatever the *)
(* block held when it was freed (ContextInv).  OwnReplyInStep rests on     *)
(* silence: on a socket on which no read has timed out and no packet has   *)
(* strayed nothing is left of earlier requests, so what is there is the    *)
(* one reply of the request that is waited for, in order, and nothing      *)
(* follows its last packet (SocketInv).                                    *)
(***************************************************************************)
EXTENDS R2p2, SequenceTheorems, TLAPS

\* Types, with the variables TypeOK does not constrain.
ContextTypes ==
  /\ mode \in Modes /\ made \in 0..MaxRequests
  /\ ctx \in [Blocks -> [req : 0..made, tx : 0..made, rx : 0..made]]
  /\ next \in Blocks \cup {0}
  /\ pending \in SUBSET Blocks
  /\ allocated = pending \cup refused \cup ({next} \ {0})
  /\ pending \cap refused = {} /\ next \notin pending \cup refused
  /\ mode = "nic" <=> next # 0
  /\ mode = "lat" => pending = {}
  /\ refusals \in 0..MaxRefusals

\* What may be left of a reply.
Rests == (SUBSET (1..Packets)) \ {{}}

Packet == [req : Nat, rid : Rids, last : BOOLEAN]

DatagramTypes ==
  /\ cur = Idle \/ cur \in [req : 1..made, sock : Sockets, rid : Rids]
  /\ \A r \in underway : r \in [req : Nat, sock : Sockets, rid : Rids, left : Rests]
  /\ box \in [Sockets -> Seq(Packet)]
  /\ losses \in 0..MaxLosses /\ strays \in 0..MaxStrays

\* The times in a context the library keeps.
ContextInv ==
  \A b \in pending :
    /\ mode = "nic" => {ctx[b].tx, ctx[b].rx} \subseteq {0, ctx[b].req}
    /\ mode = "sym" => ctx[b].tx = ctx[b].req

\* Nothing is in a socket or on its way to it.
Quiet(s) == box[s] = <<>> /\ \A r \in underway : r.sock # s

\* All there is of socket s is the rest of the reply that is waited for.
OwnReply(s) ==
  /\ cur # Idle /\ cur.sock = s
  /\ \A i \in 1..Len(box[s]) :
       /\ box[s][i].req = cur.req /\ box[s][i].rid = cur.rid
       /\ box[s][i].last => i = Len(box[s]) /\ \A r \in underway : r.sock # s
  /\ \A r \in underway : r.sock = s => r.req = cur.req /\ r.rid = cur.rid
  /\ \A r, t \in underway : r.sock = s /\ t.sock = s => r = t

SocketInv == \A s \in Sockets \ outOfStep : Quiet(s) \/ OwnReply(s)

IInv ==
  /\ ContextTypes /\ DatagramTypes
  /\ ContextInv /\ OwnTimestamps
  /\ SocketInv /\ OwnReplyInStep


-----------------------------------------------------------------------------
(* Constants, and what a step leaves alone.                                *)

LEMMA Constants ==
  /\ Packets \in Nat /\ Packets > 0 /\ 0 \notin Blocks
  /\ MaxRequests \in Nat /\ MaxLosses \in Nat /\ MaxStrays \in Nat /\ MaxRefusals \in Nat
  BY R2p2Assumption

LEMMA ContextsKept ==
  /\ ContextTypes /\ UNCHANGED <<mode, made, contexts>> => ContextTypes'
  /\ ContextInv /\ UNCHANGED <<mode, ctx, pending>> => ContextInv'
  /\ OwnTimestamps /\ UNCHANGED timed => OwnTimestamps'
  BY Zenon DEF ContextTypes, ContextInv, OwnTimestamps, contexts

LEMMA DatagramsKept ==
  /\ DatagramTypes /\ UNCHANGED <<made, datagrams>> => DatagramTypes'
  /\ SocketInv /\ UNCHANGED datagrams => SocketInv'
  /\ OwnReplyInStep /\ UNCHANGED datagrams => OwnReplyInStep'
  BY ZenonT(60) DEF DatagramTypes, SocketInv, Quiet, OwnReply, OwnReplyInStep, datagrams

LEMMA TypesSuffice ==
  ASSUME ContextTypes, DatagramTypes
  PROVE  TypeOK
  BY DEF ContextTypes, DatagramTypes, TypeOK, Rests

-----------------------------------------------------------------------------
(* The agents with contexts.                                               *)

LEMMA SendRequestInv ==
  ASSUME IInv, NEW b \in Blocks, SendRequest(b)
  PROVE  IInv'
  <1>. USE DEF IInv
  <1>1. /\ made' = made + 1 /\ made + 1 \in 0..MaxRequests /\ made \in Nat
        /\ mode' = mode /\ mode # "lat" /\ mode \in {"nic", "sym", "thr", "lat"}
    BY Constants, R2p2Assumption DEF SendRequest, ContextTypes
  <1>2. Prepared(b) \in [req : 0..made', tx : 0..made', rx : 0..made']
    <2>1. ctx[b] \in [req : 0..made, tx : 0..made, rx : 0..made]
      BY DEF ContextTypes
    <2>2. CASE mode = "thr"
      BY <1>1, <2>1, <2>2 DEF Prepared
    <2>3. CASE mode # "thr"
      BY <1>1, <2>3 DEF Prepared
    <2>. QED BY <2>2, <2>3
  <1>3. ctx' = [ctx EXCEPT ![b] = Prepared(b)] /\ DOMAIN ctx = Blocks
    BY DEF SendRequest, ContextTypes
  <1>4. ctx' \in [Blocks -> [req : 0..made', tx : 0..made', rx : 0..made']]
    <2>1. \A c \in Blocks : ctx'[c] = IF c = b THEN Prepared(b) ELSE ctx[c]
      BY <1>3
    <2>2. \A c \in Blocks : ctx[c] \in [req : 0..made', tx : 0..made', rx : 0..made']
      BY <1>1 DEF ContextTypes
    <2>. QED BY <1>2, <1>3, <2>1, <2>2
  <1>5. /\ b \notin pending \cup refused
        /\ pending' \in {pending, pending \cup {b}} /\ refused' \in {refused, refused \cup {b}}
        /\ pending' \cup refused' = pending \cup refused \cup {b}
        /\ pending' \cap refused' = {}
        /\ refusals' \in 0..MaxRefusals
    <2>1. b \notin pending \cup refused
      BY DEF SendRequest, ContextTypes, Free
    <2>. QED BY <2>1, Constants DEF SendRequest, ContextTypes
  <1>6. /\ next' \in Blocks \cup {0} /\ (mode = "nic" <=> next' # 0)
        /\ next' \notin pending' \cup refused'
        /\ allocated' = pending' \cup refused' \cup ({next'} \ {0})
    <2>1. CASE mode = "nic"
      <3>1. /\ b = next /\ next' \in Blocks \ allocated
            /\ allocated' = allocated \cup {next'}
        BY <2>1 DEF SendRequest, Free
      <3>. QED BY <2>1, <3>1, <1>5, Constants DEF ContextTypes
    <2>2. CASE mode # "nic"
      <3>1. next' = next /\ allocated' = allocated \cup {b} /\ next = 0
        BY <2>2 DEF SendRequest, ContextTypes
      <3>. QED BY <2>2, <3>1, <1>5, Constants DEF ContextTypes
    <2>. QED BY <2>1, <2>2
  <1>7. ContextTypes'
    BY <1>1, <1>4, <1>5, <1>6 DEF ContextTypes
  <1>8. ContextInv'
    <2>1. ASSUME NEW c \in pending' PROVE
            /\ mode = "nic" => {ctx'[c].tx, ctx'[c].rx} \subseteq {0, ctx'[c].req}
            /\ mode = "sym" => ctx'[c].tx = ctx'[c].req
      <3>1. CASE c = b
        BY <1>3, <3>1 DEF Prepared
      <3>2. CASE c # b
        <4>1. c \in pending /\ ctx'[c] = ctx[c]
          BY <1>3, <1>5, <3>2 DEF ContextTypes
        <4>. QED BY <4>1 DEF ContextInv
      <3>. QED BY <3>1, <3>2
    <2>. QED BY <1>1, <2>1 DEF ContextInv
  <1>9. OwnTimestamps' /\ SocketInv' /\ OwnReplyInStep'
    BY ContextsKept, DatagramsKept DEF SendRequest
  <1>10. DatagramTypes'
    BY <1>1 DEF SendRequest, datagrams, DatagramTypes, Idle
  <1>. QED BY <1>7, <1>8, <1>9, <1>10

LEMMA StampSentInv ==
  ASSUME IInv, NEW b \in Blocks, StampSent(b)
  PROVE  IInv'
  <1>. USE DEF IInv
  <1>1. /\ ctx' = [ctx EXCEPT ![b] = [ctx[b] EXCEPT !.tx = ctx[b].req]]
        /\ UNCHANGED <<mode, made, next, allocated, pending, refused, timed, refusals, datagrams>>
    BY DEF StampSent
  <1>2. ctx \in [Blocks -> [req : 0..made, tx : 0..made, rx : 0..made]]
    BY DEF ContextTypes
  <1>3. /\ ctx'[b].tx = ctx[b].req /\ ctx'[b].req = ctx[b].req /\ ctx'[b].rx = ctx[b].rx
        /\ \A c \in Blocks : c # b => ctx'[c] = ctx[c]
        /\ ctx' \in [Blocks -> [req : 0..made, tx : 0..made, rx : 0..made]]
    BY <1>1, <1>2
  <1>4. ContextTypes'
    BY <1>1, <1>3 DEF ContextTypes
  <1>5. mode = "nic" /\ pending \in SUBSET Blocks
    BY DEF StampSent, ContextTypes
  <1>6. ContextInv'
    BY <1>1, <1>3, <1>5 DEF ContextInv
  <1>7. OwnTimestamps' /\ SocketInv' /\ OwnReplyInStep' /\ DatagramTypes'
    BY <1>1, ContextsKept, DatagramsKept
  <1>. QED BY <1>4, <1>6, <1>7

LEMMA StampReceivedInv ==
  ASSUME IInv, NEW b \in Blocks, StampReceived(b)
  PROVE  IInv'
  <1>. USE DEF IInv
  <1>1. /\ ctx' = [ctx EXCEPT ![b] = [ctx[b] EXCEPT !.rx = ctx[b].req]]
        /\ UNCHANGED <<mode, made, next, allocated, pending, refused, timed, refusals, datagrams>>
    BY DEF StampReceived
  <1>2. ctx \in [Blocks -> [req : 0..made, tx : 0..made, rx : 0..made]]
    BY DEF ContextTypes
  <1>3. /\ ctx'[b].rx = ctx[b].req /\ ctx'[b].req = ctx[b].req /\ ctx'[b].tx = ctx[b].tx
        /\ \A c \in Blocks : c # b => ctx'[c] = ctx[c]
        /\ ctx' \in [Blocks -> [req : 0..made, tx : 0..made, rx : 0..made]]
    BY <1>1, <1>2
  <1>4. ContextTypes'
    BY <1>1, <1>3 DEF ContextTypes
  <1>5. mode = "nic" /\ pending \in SUBSET Blocks
    BY DEF StampReceived, ContextTypes
  <1>6. ContextInv'
    BY <1>1, <1>3, <1>5 DEF ContextInv
  <1>7. OwnTimestamps' /\ SocketInv' /\ OwnReplyInStep' /\ DatagramTypes'
    BY <1>1, ContextsKept, DatagramsKept
  <1>. QED BY <1>4, <1>6, <1>7

\* A context leaves the library and is freed.
LEMMA LeaveTypes ==
  ASSUME ContextTypes, NEW b \in pending,
         pending' = pending \ {b}, allocated' = allocated \ {b},
         UNCHANGED <<mode, made, ctx, next, refused, refusals>>
  PROVE  ContextTypes'
  <1>1. allocated' = pending' \cup refused' \cup ({next'} \ {0})
    BY DEF ContextTypes
  <1>. QED BY <1>1 DEF ContextTypes

LEMMA SucceedInv ==
  ASSUME IInv, NEW b \in Blocks, Succeed(b)
  PROVE  IInv'
  <1>. USE DEF IInv
  <1>1. /\ b \in pending /\ pending' = pending \ {b} /\ allocated' = allocated \ {b}
        /\ UNCHANGED <<mode, made, ctx, next, refused, refusals, datagrams>>
    BY DEF Succeed
  <1>2. ContextTypes' /\ ContextInv'
    BY <1>1, LeaveTypes DEF ContextInv
  <1>3. OwnTimestamps'
    <2>1. CASE timed' = timed
      BY <2>1, ContextsKept
    <2>2. CASE timed' # timed
      <3>1. /\ mode # "thr" /\ ReceiveTime(b) # 0 /\ ctx[b].tx # 0
            /\ timed' = [reply |-> ctx[b].req, tx |-> ctx[b].tx, rx |-> ReceiveTime(b)]
        BY <2>2 DEF Succeed
      <3>2. mode \in {"nic", "sym"}
        BY <1>1, <3>1, R2p2Assumption DEF ContextTypes
      <3>. QED BY <1>1, <3>1, <3>2 DEF ContextInv, OwnTimestamps, ReceiveTime
    <2>. QED BY <2>1, <2>2
  <1>4. SocketInv' /\ OwnReplyInStep' /\ DatagramTypes'
    BY <1>1, DatagramsKept
  <1>. QED BY <1>2, <1>3, <1>4

LEMMA FailInv ==
  ASSUME IInv, NEW b \in Blocks, Fail(b)
  PROVE  IInv'
  <1>. USE DEF IInv
  <1>1. /\ b \in pending /\ pending' = pending \ {b} /\ allocated' = allocated \ {b}
        /\ UNCHANGED <<mode, made, ctx, next, refused, timed, refusals, datagrams>>
    BY DEF Fail, FreesOnTimeout
  <1>2. ContextTypes' /\ ContextInv'
    BY <1>1, LeaveTypes DEF ContextInv
  <1>3. OwnTimestamps' /\ SocketInv' /\ OwnReplyInStep' /\ DatagramTypes'
    BY <1>1, DatagramsKept, ContextsKept
  <1>. QED BY <1>2, <1>3


-----------------------------------------------------------------------------
(* The latency agent.                                                      *)

LEMMA SendAndWaitInv ==
  ASSUME IInv, SendAndWait
  PROVE  IInv'
  <1>. USE DEF IInv
  <1>1. PICK s \in Sockets, rid \in Rids :
          /\ cur' = [req |-> made', sock |-> s, rid |-> rid]
          /\ underway' = underway \cup {[req |-> made', sock |-> s, rid |-> rid,
                                         left |-> 1..Packets]}
    BY DEF SendAndWait
  <1>2. /\ made' = made + 1 /\ made + 1 \in 1..MaxRequests /\ made \in Nat /\ cur = Idle
        /\ UNCHANGED <<mode, contexts, box, outOfStep, read, losses, strays>>
    BY Constants DEF SendAndWait, ContextTypes
  <1>3. ContextTypes'
    <2>1. ctx \in [Blocks -> [req : 0..made', tx : 0..made', rx : 0..made']]
      <3>1. \A c \in Blocks : ctx[c] \in [req : 0..made', tx : 0..made', rx : 0..made']
        BY <1>2 DEF ContextTypes
      <3>. QED BY <3>1 DEF ContextTypes
    <2>. QED BY <1>2, <2>1, Constants DEF ContextTypes, contexts
  <1>4. DatagramTypes'
    <2>. DEFINE new == [req |-> made', sock |-> s, rid |-> rid, left |-> 1..Packets]
    <2>1. new \in [req : Nat, sock : Sockets, rid : Rids, left : Rests]
      <3>1. 1..Packets \in Rests
        <4>1. 1..Packets # {}
          <5>1. 1 \in 1..Packets
            BY Constants
          <5>. QED BY <5>1
        <4>. QED BY <4>1 DEF Rests
      <3>. QED BY <1>2, <3>1
    <2>2. cur' \in [req : 1..made', sock : Sockets, rid : Rids]
      BY <1>1, <1>2
    <2>. QED BY <1>1, <1>2, <2>1, <2>2 DEF DatagramTypes
  <1>5. ContextInv' /\ OwnTimestamps' /\ OwnReplyInStep'
    BY <1>2, ContextsKept DEF OwnReplyInStep, contexts
  <1>6. SocketInv'
    <2>. SUFFICES ASSUME NEW q \in Sockets \ outOfStep PROVE Quiet(q)' \/ OwnReply(q)'
      BY <1>2 DEF SocketInv
    <2>1. Quiet(q)
      BY <1>2 DEF SocketInv, OwnReply
    <2>2. CASE q = s
      <3>1. cur' # Idle /\ cur'.sock = q /\ box'[q] = <<>>
        BY <1>1, <1>2, <2>1, <2>2 DEF Idle, Quiet
      <3>2. \A r \in underway' : r.sock = q =>
              r = [req |-> made', sock |-> s, rid |-> rid, left |-> 1..Packets]
        BY <1>1, <2>1 DEF Quiet
      <3>3. Len(box'[q]) = 0
        BY <3>1
      <3>. QED BY <1>1, <3>1, <3>2, <3>3 DEF OwnReply
    <2>3. CASE q # s
      BY <1>1, <1>2, <2>1, <2>3 DEF Quiet
    <2>. QED BY <2>2, <2>3
  <1>. QED BY <1>3, <1>4, <1>5, <1>6

\* What is in a socket one waits on.
LEMMA BoxHead ==
  ASSUME DatagramTypes, cur # Idle, box[cur.sock] # <<>>
  PROVE  /\ cur.sock \in Sockets /\ box[cur.sock] \in Seq(Packet)
         /\ Head(box[cur.sock]) = box[cur.sock][1] /\ Head(box[cur.sock]) \in Packet
         /\ Len(box[cur.sock]) \in Nat /\ Len(box[cur.sock]) >= 1
         /\ Tail(box[cur.sock]) \in Seq(Packet)
         /\ Len(Tail(box[cur.sock])) = Len(box[cur.sock]) - 1
         /\ \A i \in 1..Len(Tail(box[cur.sock])) :
              Tail(box[cur.sock])[i] = box[cur.sock][i + 1]
  <1>1. cur.sock \in Sockets /\ box[cur.sock] \in Seq(Packet)
    BY DEF DatagramTypes
  <1>. DEFINE q == box[cur.sock]
  <1>2. q \in Seq(Packet) /\ q # <<>>
    BY <1>1
  <1>. HIDE DEF q
  <1>3. /\ Head(q) = q[1] /\ Head(q) \in Packet /\ Len(q) \in Nat /\ Len(q) >= 1
        /\ Tail(q) \in Seq(Packet) /\ Len(Tail(q)) = Len(q) - 1
        /\ \A i \in 1..Len(Tail(q)) : Tail(q)[i] = q[i + 1]
    BY <1>2, HeadTailProperties
  <1>. QED BY <1>1, <1>3 DEF q

\* The wait ends: a socket that was quiet stays so.
LEMMA QuietElsewhere ==
  ASSUME NEW q \in Sockets, Quiet(q) \/ OwnReply(q), cur # Idle => q # cur.sock
  PROVE  Quiet(q)
  BY DEF OwnReply

LEMMA ReadPacketInv ==
  ASSUME IInv, ReadPacket
  PROVE  IInv'
  <1>. USE DEF IInv
  <1>. DEFINE s == cur.sock
              p == Head(box[s])
  <1>1. /\ cur # Idle /\ box[s] # <<>> /\ box' = [box EXCEPT ![s] = Tail(box[s])]
        /\ UNCHANGED <<mode, made, contexts, underway, outOfStep, losses, strays>>
        /\ IF EndsWait(p)
           THEN cur' = Idle /\ read' = [req |-> cur.req, sock |-> cur.sock, of |-> p.req]
           ELSE UNCHANGED <<cur, read>>
    BY DEF ReadPacket, Sample
  <1>2. /\ s \in Sockets /\ p = box[s][1] /\ Len(box[s]) \in Nat /\ Len(box[s]) >= 1
        /\ Tail(box[s]) \in Seq(Packet) /\ Len(Tail(box[s])) = Len(box[s]) - 1
        /\ \A i \in 1..Len(Tail(box[s])) : Tail(box[s])[i] = box[s][i + 1]
    BY <1>1, BoxHead
  <1>3. box' \in [Sockets -> Seq(Packet)] /\ box'[s] = Tail(box[s])
        /\ \A q \in Sockets : q # s => box'[q] = box[q]
    BY <1>1, <1>2 DEF DatagramTypes
  <1>4. DatagramTypes'
    BY <1>1, <1>3 DEF DatagramTypes
  <1>5. ContextTypes' /\ ContextInv' /\ OwnTimestamps'
    BY <1>1, ContextsKept DEF contexts
  <1>6. s \notin outOfStep => OwnReply(s)
    BY <1>1, <1>2 DEF SocketInv, Quiet
  <1>7. OwnReplyInStep'
    <2>1. CASE EndsWait(p)
      <3>1. s \notin outOfStep => p.req = cur.req
        BY <1>2, <1>6 DEF OwnReply
      <3>. QED BY <1>1, <2>1, <3>1 DEF OwnReplyInStep
    <2>2. CASE ~EndsWait(p)
      BY <1>1, <2>2 DEF OwnReplyInStep
    <2>. QED BY <2>1, <2>2
  <1>8. ASSUME NEW q \in Sockets \ outOfStep PROVE Quiet(q)' \/ OwnReply(q)'
    <2>1. CASE q # s
      <3>1. Quiet(q)
        BY <2>1, QuietElsewhere DEF SocketInv
      <3>. QED BY <1>1, <1>3, <2>1, <3>1 DEF Quiet
    <2>2. CASE q = s /\ EndsWait(p)
      <3>1. p.last
        BY <1>2, <1>6, <2>2 DEF OwnReply, EndsWait
      <3>2. Len(box[s]) = 1 /\ \A r \in underway : r.sock # s
        <4>1. 1 \in 1..Len(box[s]) /\ box[s][1].last
          BY <1>2, <3>1
        <4>2. OwnReply(s)
          BY <1>6, <2>2
        <4>. QED BY <4>1, <4>2 DEF OwnReply
      <3>3. box'[s] = <<>>
        <4>1. Tail(box[s]) \in Seq(Packet) /\ Len(Tail(box[s])) = 0
          BY <1>2, <3>2
        <4>2. Tail(box[s]) = <<>>
          BY <4>1, EmptySeq
        <4>. QED BY <1>3, <4>2
      <3>. QED BY <1>1, <2>2, <3>2, <3>3 DEF Quiet
    <2>3. CASE q = s /\ ~EndsWait(p)
      <3>1. OwnReply(s) /\ UNCHANGED <<cur, underway>>
        BY <1>1, <1>6, <2>3
      <3>2. ASSUME NEW i \in 1..Len(box'[s])
            PROVE  /\ box'[s][i].req = cur.req /\ box'[s][i].rid = cur.rid
                   /\ box'[s][i].last => i = Len(box'[s]) /\ \A r \in underway : r.sock # s
        <4>1. i + 1 \in 1..Len(box[s]) /\ box'[s][i] = box[s][i + 1]
          BY <1>2, <1>3
        <4>. QED BY <1>2, <1>3, <3>1, <4>1 DEF OwnReply
      <3>. QED BY <2>3, <3>1, <3>2 DEF OwnReply
    <2>. QED BY <2>1, <2>2, <2>3
  <1>. QED BY <1>1, <1>4, <1>5, <1>7, <1>8 DEF SocketInv

LEMMA ReadTimesOutInv ==
  ASSUME IInv, ReadTimesOut
  PROVE  IInv'
  <1>. USE DEF IInv
  <1>1. /\ cur # Idle /\ outOfStep' = outOfStep \cup {cur.sock} /\ cur' = Idle
        /\ read' = [req |-> cur.req, sock |-> cur.sock, of |-> 0]
        /\ UNCHANGED <<mode, made, contexts, box, underway, losses, strays>>
    BY DEF ReadTimesOut, Sample
  <1>2. ContextTypes' /\ ContextInv' /\ OwnTimestamps'
    BY <1>1, ContextsKept DEF contexts
  <1>3. DatagramTypes' /\ OwnReplyInStep'
    BY <1>1 DEF DatagramTypes, OwnReplyInStep
  <1>4. ASSUME NEW q \in Sockets \ outOfStep' PROVE Quiet(q)'
    <2>1. q \in Sockets \ outOfStep /\ q # cur.sock
      BY <1>1
    <2>2. Quiet(q)
      BY <2>1, QuietElsewhere DEF SocketInv
    <2>. QED BY <1>1, <2>2 DEF Quiet
  <1>. QED BY <1>2, <1>3, <1>4 DEF SocketInv

\* The replies underway once a packet has come are of the same kind, and there is
\* no new one among them.
LEMMA WithoutTypes ==
  ASSUME DatagramTypes, NEW r \in underway, NEW i \in r.left
  PROVE  /\ \A t \in Without(r, i) :
              /\ t \in [req : Nat, sock : Sockets, rid : Rids, left : Rests]
              /\ t \in underway \/ /\ t.sock = r.sock /\ t.req = r.req /\ t.rid = r.rid
                                   /\ t = [r EXCEPT !.left = r.left \ {i}] /\ r.left # {i}
         /\ \A t \in Without(r, i) : t = r => r.left # {i} /\ t = [r EXCEPT !.left = r.left \ {i}]
  <1>. DEFINE rest == [r EXCEPT !.left = r.left \ {i}]
  <1>1. r \in [req : Nat, sock : Sockets, rid : Rids, left : Rests]
    BY DEF DatagramTypes
  <1>2. ASSUME r.left # {i}
        PROVE  /\ rest \in [req : Nat, sock : Sockets, rid : Rids, left : Rests]
               /\ rest.sock = r.sock /\ rest.req = r.req /\ rest.rid = r.rid
    <2>1. r.left \ {i} \in Rests
      BY <1>1, <1>2 DEF Rests
    <2>. QED BY <1>1, <2>1
  <1>3. \A t \in Without(r, i) : \/ t \in underway /\ t # r
                                 \/ t = rest /\ r.left # {i}
    BY DEF Without
  <1>. QED BY <1>2, <1>3 DEF DatagramTypes

\* What is in the sockets when a packet has been put into its own.
LEMMA DeliverTypes ==
  ASSUME DatagramTypes, NEW r \in underway, NEW i \in 1..Packets, Deliver(r, i)
  PROVE  LET s == r.sock
             p == [req |-> r.req, rid |-> r.rid, last |-> i = Packets]
         IN  /\ s \in Sockets /\ box[s] \in Seq(Packet) /\ p \in Packet
             /\ box' \in [Sockets -> Seq(Packet)] /\ box'[s] = Append(box[s], p)
             /\ \A q \in Sockets : q # s => box'[q] = box[q]
  <1>. DEFINE s == r.sock
              p == [req |-> r.req, rid |-> r.rid, last |-> i = Packets]
  <1>1. s \in Sockets /\ p \in Packet /\ box[s] \in Seq(Packet)
    BY DEF DatagramTypes, Packet
  <1>2. box' = [box EXCEPT ![s] = Append(box[s], p)]
    BY DEF Deliver
  <1>. HIDE DEF p
  <1>3. Append(box[s], p) \in Seq(Packet)
    BY <1>1, AppendProperties
  <1>4. /\ box' \in [Sockets -> Seq(Packet)] /\ box'[s] = Append(box[s], p)
        /\ \A q \in Sockets : q # s => box'[q] = box[q]
    BY <1>1, <1>2, <1>3 DEF DatagramTypes
  <1>. QED BY <1>1, <1>4 DEF p

\* A packet of one socket leaves the others as they are.
LEMMA OthersKept ==
  ASSUME DatagramTypes, NEW r \in underway, NEW q \in Sockets, q # r.sock,
         cur' = cur, box'[q] = box[q],
         \A t \in underway' : t.sock # r.sock => t \in underway,
         Quiet(q) \/ OwnReply(q)
  PROVE  Quiet(q)' \/ OwnReply(q)'
  <1>1. CASE Quiet(q)
    BY <1>1 DEF Quiet
  <1>2. CASE OwnReply(q)
    BY <1>2 DEF OwnReply
  <1>. QED BY <1>1, <1>2

LEMMA PacketComesInv ==
  ASSUME IInv, NEW r \in underway, NEW i \in 1..Packets, PacketComes(r, i)
  PROVE  IInv'
  <1>. USE DEF IInv
  <1>. DEFINE s == r.sock
              p == [req |-> r.req, rid |-> r.rid, last |-> i = Packets]
  <1>1. /\ i \in r.left /\ InOrder(r, i) /\ underway' = Without(r, i)
        /\ UNCHANGED <<mode, made, contexts, cur, outOfStep, read, strays>>
        /\ \/ Deliver(r, i) /\ losses' = losses
           \/ box' = box /\ losses < MaxLosses /\ losses' = losses + 1
    BY DEF PacketComes
  <1>2. r \in [req : Nat, sock : Sockets, rid : Rids, left : Rests] /\ s \in Sockets
        /\ box[s] \in Seq(Packet) /\ p \in Packet
    BY DEF DatagramTypes, Packet
  <1>3. \A t \in underway' :
          /\ t \in [req : Nat, sock : Sockets, rid : Rids, left : Rests]
          /\ t \in underway \/ /\ t.sock = r.sock /\ t.req = r.req /\ t.rid = r.rid
                               /\ t = [r EXCEPT !.left = r.left \ {i}] /\ r.left # {i}
          /\ t = r => r.left # {i} /\ t = [r EXCEPT !.left = r.left \ {i}]
    BY <1>1, WithoutTypes
  <1>4. /\ box' \in [Sockets -> Seq(Packet)] /\ box'[s] \in {box[s], Append(box[s], p)}
        /\ \A q \in Sockets : q # s => box'[q] = box[q]
    <2>1. CASE box' = box
      BY <2>1 DEF DatagramTypes
    <2>2. CASE Deliver(r, i)
      BY <2>2, DeliverTypes
    <2>. QED BY <1>1, <2>1, <2>2
  <1>5. DatagramTypes'
    <2>1. losses' \in 0..MaxLosses
      BY <1>1, Constants DEF DatagramTypes
    <2>. QED BY <1>1, <1>3, <1>4, <2>1 DEF DatagramTypes
  <1>6. ContextTypes' /\ ContextInv' /\ OwnTimestamps'
    BY <1>1, ContextsKept DEF contexts
  <1>7. OwnReplyInStep'
    BY <1>1 DEF OwnReplyInStep
  <1>8. ASSUME NEW q \in Sockets \ outOfStep PROVE Quiet(q)' \/ OwnReply(q)'
    <2>1. CASE q # s
      BY <1>1, <1>3, <1>4, <2>1, OthersKept DEF SocketInv
    <2>2. CASE q = s
      <3>1. OwnReply(s)
        BY <1>8, <2>2 DEF SocketInv, Quiet
      <3>2. \A t \in underway : t.sock = s => t = r
        BY <3>1 DEF OwnReply
      <3>3. \A t \in underway' : t.sock = s =>
              /\ t = [r EXCEPT !.left = r.left \ {i}] /\ r.left # {i}
              /\ t.req = r.req /\ t.rid = r.rid
        BY <1>3, <3>2
      <3>4. r.req = cur.req /\ r.rid = cur.rid
        BY <3>1 DEF OwnReply
      <3>5. \A j \in 1..Len(box[s]) :
              box[s][j].req = cur.req /\ box[s][j].rid = cur.rid /\ ~box[s][j].last
        BY <3>1 DEF OwnReply
      <3>6. p.req = cur.req /\ p.rid = cur.rid /\ (p.last => r.left = {i})
        <4>1. r.left \subseteq 1..Packets
          BY <1>2 DEF Rests
        <4>2. i = Packets => r.left = {i}
          BY <1>1, <4>1, Constants DEF InOrder
        <4>. QED BY <3>4, <4>2
      <3>. HIDE DEF p
      <3>7. ASSUME NEW j \in 1..Len(box'[s])
            PROVE  /\ box'[s][j].req = cur.req /\ box'[s][j].rid = cur.rid
                   /\ box'[s][j].last => j = Len(box'[s]) /\ \A t \in underway' : t.sock # s
        <4>1. CASE box'[s] = box[s]
          BY <3>5, <3>7, <4>1
        <4>2. CASE box'[s] = Append(box[s], p)
          <5>1. /\ Len(box'[s]) = Len(box[s]) + 1 /\ Len(box[s]) \in Nat
                /\ box'[s][Len(box[s]) + 1] = p
                /\ \A k \in 1..Len(box[s]) : box'[s][k] = box[s][k]
            BY <1>2, <4>2, AppendProperties
          <5>2. CASE j = Len(box[s]) + 1
            BY <3>3, <3>6, <5>1, <5>2
          <5>3. CASE j # Len(box[s]) + 1
            <6>1. j \in 1..Len(box[s])
              BY <5>1, <5>3
            <6>. QED BY <3>5, <5>1, <6>1
          <5>. QED BY <5>2, <5>3
        <4>. QED BY <1>4, <4>1, <4>2
      <3>8. cur' = cur /\ cur # Idle /\ cur.sock = s
        BY <1>1, <3>1 DEF OwnReply
      <3>9. \A t \in underway' : t.sock = s => t.req = cur.req /\ t.rid = cur.rid
        BY <3>3, <3>4
      <3>10. \A t, u \in underway' : t.sock = s /\ u.sock = s => t = u
        BY <3>3
      <3>. QED BY <2>2, <3>7, <3>8, <3>9, <3>10 DEF OwnReply
    <2>. QED BY <2>1, <2>2
  <1>. QED BY <1>1, <1>5, <1>6, <1>7, <1>8 DEF SocketInv

LEMMA PacketStraysInv ==
  ASSUME IInv, NEW r \in underway, NEW i \in 1..Packets, PacketStrays(r, i)
  PROVE  IInv'
  <1>. USE DEF IInv
  <1>1. /\ i \in r.left /\ Deliver(r, i)
        /\ underway' = Without(r, i) \/ underway' = underway
        /\ strays < MaxStrays /\ strays' = strays + 1
        /\ outOfStep' = outOfStep \cup {r.sock}
        /\ UNCHANGED <<mode, made, contexts, cur, read, losses>>
    BY DEF PacketStrays
  <1>2. \A t \in underway' :
          /\ t \in [req : Nat, sock : Sockets, rid : Rids, left : Rests]
          /\ t \in underway \/ t.sock = r.sock
    <2>1. CASE underway' = underway
      BY <2>1 DEF DatagramTypes
    <2>2. CASE underway' = Without(r, i)
      BY <1>1, <2>2, WithoutTypes
    <2>. QED BY <1>1, <2>1, <2>2
  <1>3. /\ box' \in [Sockets -> Seq(Packet)]
        /\ \A q \in Sockets : q # r.sock => box'[q] = box[q]
    BY <1>1, DeliverTypes
  <1>4. DatagramTypes'
    <2>1. strays' \in 0..MaxStrays
      BY <1>1, Constants DEF DatagramTypes
    <2>. QED BY <1>1, <1>2, <1>3, <2>1 DEF DatagramTypes
  <1>5. ContextTypes' /\ ContextInv' /\ OwnTimestamps'
    BY <1>1, ContextsKept DEF contexts
  <1>6. OwnReplyInStep'
    BY <1>1 DEF OwnReplyInStep
  <1>7. ASSUME NEW q \in Sockets \ outOfStep' PROVE Quiet(q)' \/ OwnReply(q)'
    <2>1. q \in Sockets /\ q # r.sock /\ q \notin outOfStep
      BY <1>1
    <2>. QED BY <1>1, <1>2, <1>3, <2>1, OthersKept DEF SocketInv
  <1>. QED BY <1>4, <1>5, <1>6, <1>7 DEF SocketInv

-----------------------------------------------------------------------------
(* The theorems.                                                           *)

LEMMA InitInv == Init => IInv
  <1>. SUFFICES ASSUME Init PROVE IInv
    OBVIOUS
  <1>1. ContextTypes
    BY Constants DEF Init, ContextTypes
  <1>2. DatagramTypes
    BY Constants, EmptySeq DEF Init, DatagramTypes
  <1>3. ContextInv /\ OwnTimestamps /\ OwnReplyInStep
    BY DEF Init, ContextInv, OwnTimestamps, OwnReplyInStep
  <1>4. SocketInv
    BY DEF Init, SocketInv, Quiet
  <1>. QED BY <1>1, <1>2, <1>3, <1>4 DEF IInv

LEMMA StepInv == IInv /\ [Next]_vars => IInv'
  <1>. SUFFICES ASSUME IInv, [Next]_vars PROVE IInv'
    OBVIOUS
  <1>1. CASE UNCHANGED vars
    <2>1. UNCHANGED <<mode, made, contexts, datagrams>>
      BY <1>1 DEF vars
    <2>2. UNCHANGED <<ctx, pending, timed>>
      BY <2>1 DEF contexts
    <2>. QED BY <2>1, <2>2, ContextsKept, DatagramsKept DEF IInv
  <1>. QED BY <1>1, SendRequestInv, StampSentInv, StampReceivedInv, SucceedInv, FailInv,
              SendAndWaitInv, ReadPacketInv, ReadTimesOutInv, PacketComesInv,
              PacketStraysInv DEF Next

LEMMA Correct == Spec => []IInv
  BY InitInv, StepInv, PTL DEF Spec

\* No context is freed twice, none but a refused request's leaks, and every
\* value keeps its type (lancet_success_cb, lancet_error_cb, lancet_timeout_cb).
THEOREM TypeCorrect == Spec => []TypeOK
  <1>1. IInv => TypeOK
    BY TypesSuffice DEF IInv
  <1>. QED BY <1>1, Correct, PTL

\* A sample of the R2P2 agents subtracts times of its own request, however often
\* its block has been a context before and whichever timestamps were left in it
\* (lancet_success_nic_timestamping_cb, lancet_success_timestamping_cb).
THEOREM TimestampsCorrect == Spec => []OwnTimestamps
  <1>1. IInv => OwnTimestamps
    BY DEF IInv
  <1>. QED BY <1>1, Correct, PTL

\* While no read has timed out on a socket and no packet has strayed there, the
\* latency agent takes no other reply for the one it waits for (latency_r2p2_main).
THEOREM ReplyCorrect == Spec => []OwnReplyInStep
  <1>1. IInv => OwnReplyInStep
    BY DEF IInv
  <1>. QED BY <1>1, Correct, PTL

=============================================================================
