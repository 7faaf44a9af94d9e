--------------------------- MODULE TcpConnection ---------------------------
(***************************************************************************)
(* One connection of an agent thread over TCP or TLS (agents/tp_tcp.c and  *)
(* tp_ssl.c) without NIC timestamps: writing requests to a socket that may *)
(* be full, reading replies in whatever pieces they come, cutting them     *)
(* into replies (handle_response with an application protocol's parser),   *)
(* and timing the last reply of a read.                                    *)
(*                                                                         *)
(* The server answers in order and does not read while it cannot write.    *)
(* The only bytes that are told apart are ends of lines, and only for the  *)
(* parser that looks for them (memcache_ascii_consume_response).           *)
(***************************************************************************)
EXTENDS Naturals, Sequences, FiniteSets, FiniteSetsExt

CONSTANTS
  Modes,        \* agent types: "throughput", "symmetric", "latency", "tls"
  Forms,        \* per protocol, the replies a server may give: each is the set
                \* of positions its lines end at, the last one being its length
  StoredBytes,  \* bytes of "STORED\r\n": 8 in the code
  MaxPending,   \* get_max_pending_reqs()
  RequestBytes, \* length of a request
  BufferBytes,  \* MAX_PAYLOAD
  SendRoom,     \* bytes the kernels hold on the way to the server
  ReceiveRoom,  \* bytes the kernels hold on the way back
  MayClose,     \* the server may close the connection
  MaxRequests   \* bound: requests sent

VARIABLES
  mode, proto,
  pc,        \* "loop"; "send": in the write of a request; "recv": in the
             \* blocking recv of latency_tcp_main; "ended": the thread has
             \* returned; "aborted": an assertion has failed
  left,      \* bytes of the request still to be written
  pending,   \* conn->pending_reqs
  closed,    \* conn->closed
  bidx, buf, \* conn->buffer_idx and conn->buffer
  pushed, consumed, slot, \* ring of transmit times: head = tail, consumed, and
             \* the request whose time a slot holds
  sample,    \* last latency sample: the reply, the request it was timed from,
             \* and whether the reply was whole only with the last read
  issued, answered, \* ghost: requests started, replies told to requests
  written, srvRead, \* bytes of requests written, and read by the server
  replies,   \* the server's replies so far: where in the stream their lines end
  emitted,   \* bytes of them it has written
  wire,      \* pieces (TLS: records) that wait in the client's socket
  held,      \* TLS: bytes of a record that OpenSSL has and SSL_read has not given
  peerOpen   \* the server has not closed

thread == <<pc, left, pending, closed, bidx, buf, pushed, consumed, slot, sample,
            issued, answered>>
network == <<written, srvRead, replies, emitted, wire, held, peerOpen>>
vars == <<mode, proto, thread, network>>

\* Bytes of the first k pieces of s, for every k, and of all of them.
SumUpTo(s) ==
  LET sum[k \in 0..Len(s)] == IF k = 0 THEN 0 ELSE sum[k - 1] + s[k]
  IN  sum
Sum(s) == SumUpTo(s)[Len(s)]

EndOf(k) == IF k = 0 THEN 0 ELSE Max(replies[k])
got == emitted - Sum(wire) - held \* bytes of replies the thread has read

Ring == 0..MaxPending - 1
Timed == mode \in {"symmetric", "tls"}  \* transmit times are kept in the ring
Looping == IF mode = "latency" THEN "recv" ELSE "loop"

ASSUME TcpAssumption ==
  /\ Modes \subseteq {"throughput", "symmetric", "latency", "tls"}
  /\ DOMAIN Forms \subseteq {"counted", "http", "ascii"}
  /\ \A p \in DOMAIN Forms : \A r \in Forms[p] :
       /\ r # {} /\ r \subseteq 1..BufferBytes
       /\ p = "ascii" /\ Cardinality(r) = 3 => Max(r) >= StoredBytes
  /\ {MaxPending, RequestBytes, BufferBytes, SendRoom, ReceiveRoom}
       \subseteq Nat \ {0}
  /\ MayClose \in BOOLEAN /\ {StoredBytes, MaxRequests} \subseteq Nat

Init ==
  /\ mode \in Modes /\ proto \in DOMAIN Forms
  /\ pc = "loop" /\ left = 0 /\ pending = 0 /\ closed = FALSE
  /\ bidx = 0 /\ buf = [i \in 1..BufferBytes |-> "nul"]
  /\ pushed = 0 /\ consumed = 0 /\ slot = [i \in Ring |-> 0]
  /\ sample = [reply |-> 0, request |-> 0, timely |-> TRUE]
  /\ issued = 0 /\ answered = 0 /\ written = 0 /\ srvRead = 0
  /\ replies = <<>> /\ emitted = 0 /\ wire = <<>> /\ held = 0 /\ peerOpen = TRUE

-----------------------------------------------------------------------------
(* Writing a request.                                                      *)

\* Fault: one request too many may wait.
PickableOneMore == pending <= MaxPending /\ ~closed

\* pick_conn returns the connection.
Pickable == pending < MaxPending /\ ~closed

StartRequest ==
  /\ pc = "loop" /\ Pickable /\ issued < MaxRequests
  /\ pc' = "send" /\ left' = RequestBytes /\ issued' = issued + 1
  /\ UNCHANGED <<mode, proto, pending, closed, bidx, buf, pushed, consumed, slot,
                 sample, answered, network>>

\* What follows the write of a whole request, or of one taken to be whole.
RequestSent ==
  /\ pc' = Looping /\ left' = 0
  /\ pending' = IF mode = "latency" THEN pending ELSE pending + 1
  /\ pushed' = IF Timed THEN pushed + 1 ELSE pushed
  /\ slot' = IF Timed THEN [slot EXCEPT ![pushed % MaxPending] = issued] ELSE slot
  /\ UNCHANGED <<closed, bidx, buf, consumed, sample, issued, answered>>

\* writev or sendmsg takes what there is room for; while there is none the loop
\* around it spins.  latency_tcp_main is in a blocking call instead.
Write ==
  /\ pc = "send" /\ mode # "tls" /\ written - srvRead < SendRoom
  /\ LET n == Min({left, SendRoom - (written - srvRead)}) IN
       /\ written' = written + n
       /\ IF n = left THEN RequestSent
          ELSE /\ left' = left - n
               /\ UNCHANGED <<pc, pending, closed, bidx, buf, pushed, consumed,
                              slot, sample, issued, answered>>
  /\ UNCHANGED <<mode, proto, srvRead, replies, emitted, wire, held, peerOpen>>

\* SSL_write has to take the whole request: what it returns is asserted.
WriteRecord ==
  /\ pc = "send" /\ mode = "tls"
  /\ IF left <= SendRoom - (written - srvRead)
     THEN written' = written + left /\ RequestSent
     ELSE /\ pc' = "aborted"
          /\ UNCHANGED <<written, left, pending, closed, bidx, buf, pushed,
                         consumed, slot, sample, issued, answered>>
  /\ UNCHANGED <<mode, proto, srvRead, replies, emitted, wire, held, peerOpen>>

\* The write fails because the server has gone.  send_request returns to a
\* caller that takes the request for sent; the others end the thread.
WriteFails ==
  /\ pc = "send" /\ ~peerOpen
  /\ IF mode = "symmetric" THEN RequestSent
     ELSE /\ pc' = IF mode = "tls" THEN "aborted" ELSE "ended"
          /\ UNCHANGED <<left, pending, closed, bidx, buf, pushed, consumed,
                         slot, sample, issued, answered>>
  /\ UNCHANGED <<mode, proto, network>>

-----------------------------------------------------------------------------
(* Reading replies.                                                        *)

\* Bytes i of the replies, and of the buffer once n more have been received
\* into it.  Only memcache's text parser ever looks at what bytes are.
ByteAt(i) == IF \E k \in 1..Len(replies) : i \in replies[k]
             THEN "newline" ELSE "other"
Received(n) == IF proto # "ascii" THEN buf
               ELSE [i \in 1..BufferBytes |->
                       IF i \in bidx + 1..bidx + n THEN ByteAt((got + i) - bidx)
                       ELSE buf[i]]

\* strchnth: how far from position p the third newline is, 0 without one.  The
\* search ends at a zero byte, not at the end of what was received.
ThirdLine(b, p) ==
  LET ends == {i \in p + 1..BufferBytes :
                 b[i] = "newline" /\ \A j \in p + 1..i : b[j] # "nul"}
      third == {i \in ends : Cardinality({j \in ends : j <= i}) = 3}
  IN  IF third = {} THEN 0 ELSE Max(third) - p

\* What a parser takes for the length of the k-th reply, of which rest bytes
\* have come, at position p; 0 when it is not whole.
ReplyLength(b, p, rest, k) ==
  IF proto = "ascii" /\ Cardinality(replies[k]) = 3
  THEN IF rest < StoredBytes THEN 0 ELSE ThirdLine(b, p)
  ELSE IF rest < EndOf(k) - EndOf(k - 1) THEN 0 ELSE EndOf(k) - EndOf(k - 1)

\* Fault: every parser stops after one reply.
ParsesOne == 1

\* Replies one call parses at most: http_consume_response never looks for a
\* second one.
Parses == IF proto = "http" THEN 1 ELSE Len(replies) - answered

\* Position in the buffer after the i-th reply that consume_response finds in
\* the first n bytes of b; the same again when there is none.
Position(b, n) ==
  LET after[i \in 0..Parses] ==
        IF i = 0 THEN 0
        ELSE LET p == after[i - 1]
             IN  IF p >= n THEN p ELSE p + ReplyLength(b, p, n - p, answered + i)
  IN  after

\* consume_response: bytes and replies consumed.  A reply that is not whole is
\* the last one looked at.
Consume(b, n) ==
  LET p    == Position(b, n)
      last == CHOOSE i \in 0..Parses :
                /\ \A j \in 1..i : p[j] > p[j - 1]
                /\ i = Parses \/ p[i + 1] = p[i]
  IN  [bytes |-> p[last], reqs |-> last]

\* Fault: what follows the last whole reply is forgotten.
LeftoverNone(n, bytes) == 0

\* Bytes that stay for the next call, moved to the front of the buffer.
Leftover(n, bytes) == n - bytes

MovedUp(b, bytes, n) == [i \in 1..BufferBytes |->
                           IF i <= n - bytes THEN b[i + bytes] ELSE b[i]]

\* Fault: the first reply of a read is the one that is timed.
TimedFirst(reqs) == slot[consumed % MaxPending]

\* The request the last reply of a read is timed from: the last one popped.
TimedFrom(reqs) == IF mode = "latency" THEN issued
                   ELSE slot[((consumed + reqs) - 1) % MaxPending]

\* handle_response and what follows it, n bytes of b being in use: an assertion
\* fails (a full buffer without a whole reply, more consumed than received, or
\* no transmit time left, for which symmetric_tcp_main would wait in vain), or
\* the replies are counted and the last one timed.
HandleResponse(b, n) ==
  LET res == Consume(b, n)
      fails == \/ (res.bytes = 0 /\ n = BufferBytes)
               \/ res.bytes > n
               \/ (Timed /\ consumed + res.reqs > pushed)
  IN IF fails
     THEN /\ pc' = "aborted" /\ bidx' = n /\ buf' = b
          /\ UNCHANGED <<pending, consumed, sample, answered>>
     ELSE /\ bidx' = Leftover(n, res.bytes) /\ buf' = MovedUp(b, res.bytes, n)
          /\ pc' = IF bidx' = 0 THEN "loop" ELSE pc
          /\ pending' = IF mode = "latency" THEN pending ELSE pending - res.reqs
          /\ consumed' = IF Timed THEN consumed + res.reqs ELSE consumed
          /\ answered' = answered + res.reqs
          /\ sample' = IF res.reqs = 0 \/ mode = "throughput" THEN sample
                       ELSE [reply |-> answered', request |-> TimedFrom(res.reqs),
                             timely |-> EndOf(answered') > got]

\* Bytes the next read returns: all there are or there is room for; with TLS,
\* of one record only.
Record == IF held > 0 THEN held ELSE Head(wire)
Readable == Min({IF mode = "tls" THEN Record ELSE Sum(wire), BufferBytes - bidx})

\* epoll or the blocking recv finds bytes in the socket.
Read ==
  /\ pc = Looping /\ ~closed /\ wire # <<>> /\ bidx < BufferBytes
  /\ \E n \in {bidx + Readable}, b \in {Received(Readable)} : HandleResponse(b, n)
  /\ IF mode = "tls"
     THEN /\ held' = Record - Readable
          /\ wire' = IF held > 0 THEN wire ELSE Tail(wire)
     ELSE /\ wire' = IF Readable = Sum(wire) THEN <<>> ELSE <<Sum(wire) - Readable>>
          /\ UNCHANGED held
  /\ UNCHANGED <<mode, proto, left, closed, pushed, slot, issued, written, srvRead,
                 replies, emitted, peerOpen>>

\* A read returns 0, at the end of the stream or because it was asked for
\* nothing: the connection is closed and never picked again.  A latency agent
\* in the middle of a reply then reads the closed socket, which ends it.
ReadNothing ==
  /\ pc = Looping /\ ~closed
  /\ bidx = BufferBytes \/ (~peerOpen /\ wire = <<>> /\ held = 0)
  /\ closed' = TRUE
  /\ pc' = IF mode = "latency" /\ bidx > 0 THEN "ended" ELSE "loop"
  /\ UNCHANGED <<mode, proto, left, pending, bidx, buf, pushed, consumed, slot,
                 sample, issued, answered, network>>

\* The server has reset the connection: the thread returns.
ReadFails ==
  /\ pc = Looping /\ ~closed /\ ~peerOpen
  /\ pc' = "ended"
  /\ UNCHANGED <<mode, proto, left, pending, closed, bidx, buf, pushed, consumed,
                 slot, sample, issued, answered, network>>

-----------------------------------------------------------------------------
(* The server and the network.                                             *)

\* The server reads on, up to the end of a request, and decides on its reply.
ServerReads ==
  /\ peerOpen /\ srvRead < written /\ emitted = EndOf(Len(replies))
  /\ LET toEnd == RequestBytes - (srvRead % RequestBytes)
         n     == Min({toEnd, written - srvRead})
     IN  /\ srvRead' = srvRead + n
         /\ IF n = toEnd
            THEN \E r \in Forms[proto] :
                   replies' = Append(replies, {EndOf(Len(replies)) + i : i \in r})
            ELSE UNCHANGED replies
  /\ UNCHANGED <<mode, proto, thread, written, emitted, wire, held, peerOpen>>

\* A piece of a reply reaches the client, if there is room for it there.
ServerWrites ==
  /\ peerOpen
  /\ \E n \in 1..Min({EndOf(Len(replies)) - emitted, ReceiveRoom - Sum(wire)}) :
       /\ emitted' = emitted + n
       /\ wire' = IF mode = "tls" THEN Append(wire, n) ELSE <<Sum(wire) + n>>
  /\ UNCHANGED <<mode, proto, thread, written, srvRead, replies, held, peerOpen>>

ServerCloses ==
  /\ MayClose /\ peerOpen
  /\ peerOpen' = FALSE
  /\ UNCHANGED <<mode, proto, thread, written, srvRead, replies, emitted, wire, held>>

-----------------------------------------------------------------------------
Writing == Write \/ WriteRecord \/ WriteFails
Reading == Read \/ ReadNothing \/ ReadFails
Server == ServerReads \/ ServerWrites

Next == StartRequest \/ Writing \/ Reading \/ Server \/ ServerCloses

Spec == Init /\ [][Next]_vars

\* The thread retries a write and polls its connections forever, and the server
\* keeps reading requests and answering them.
FairSpec == Spec /\ WF_vars(Writing) /\ SF_vars(Reading) /\ WF_vars(Server)

-----------------------------------------------------------------------------
(* Properties.                                                             *)

\* Every variable keeps its type; no more than MaxPending requests wait, and a
\* read is never asked for nothing, which would pass for a closed connection.
TypeOK ==
  /\ mode \in Modes /\ proto \in DOMAIN Forms
  /\ pc \in {"loop", "send", "recv", "ended", "aborted"}
  /\ left \in 0..RequestBytes /\ pending \in 0..MaxPending /\ closed \in BOOLEAN
  /\ bidx \in 0..BufferBytes /\ (pc # "aborted" => bidx < BufferBytes)
  /\ buf \in [1..BufferBytes -> {"nul", "newline", "other"}]
  /\ slot \in [Ring -> 0..issued] /\ consumed \in 0..pushed /\ pushed \in 0..issued
  /\ sample \in [reply : 0..answered, request : 0..issued, timely : BOOLEAN]
  /\ issued \in 0..MaxRequests /\ answered \in 0..Len(replies)
  /\ written \in Nat /\ srvRead \in 0..written /\ written - srvRead <= SendRoom
  /\ replies \in Seq(SUBSET Nat) /\ emitted \in 0..EndOf(Len(replies))
  /\ wire \in Seq(1..ReceiveRoom) /\ held \in 0..ReceiveRoom /\ peerOpen \in BOOLEAN

\* "this should contain all the logic for partial responses" (tp_tcp.c:720):
\* however the stream is cut into reads, what is left in the buffer begins at
\* the first reply that has not been counted, and nothing whole stays there but
\* HTTP replies.  Only the text parser and SSL_write can fail an assertion.
FramingInSync ==
  /\ pc # "aborted" =>
       /\ got = EndOf(answered) + bidx
       /\ proto # "http" /\ answered < Len(replies) =>
            bidx < EndOf(answered + 1) - EndOf(answered)
  /\ pc = "aborted" => proto = "ascii" \/ mode = "tls"

\* A latency sample is timed from the transmission of the request its reply
\* answers, by the read that made the reply whole.  HTTP replies that wait in
\* the buffer for another read are timed late.
SamplesTimely == /\ sample.request = sample.reply
                 /\ sample.timely \/ (proto = "http" /\ mode # "latency")

\* A thread that retries a write (tp_tcp.c:272, 560) and a server that writes
\* never wait for each other, as long as MaxPending - 1 requests fit on the way
\* to the server.
SendEnds == (pc = "send") ~> (pc # "send")

\* A whole reply that has reached the socket is counted, unless the connection
\* or the thread ends, or OpenSSL keeps the end of a record the buffer had no
\* room for, which epoll does not report (tp_ssl.c:309-318).
RepliesAreCounted ==
  \A k \in 1..MaxRequests :
    (k <= Len(replies) /\ emitted >= EndOf(k)) ~>
      \/ answered >= k \/ ~peerOpen \/ pc \in {"ended", "aborted"}
      \/ held > 0 \/ (proto = "http" /\ mode # "latency")

\* assert(0) for "a strange amount of response bytes" (tp_tcp.c:748-752): a
\* parser never consumes more than has been received.
ConsumesWhatItReceived == pc # "aborted"
=============================================================================
