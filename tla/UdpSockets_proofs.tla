-------------------------- MODULE UdpSockets_proofs --------------------------
(***************************************************************************)
(* Theorems about UdpSockets, for any number of sockets, any settings and  *)
(* any number of losses.                                                   *)
(*                                                                         *)
(* That a free socket holds no transmit time needs no assumption about the *)
(* network (FreeReset).  That every socket times requests correctly does:  *)
(* in a clean network a free socket has nothing left in flight, and while  *)
(* a request waits everything in flight is about it (PairInv).             *)
(***************************************************************************)
EXTENDS UdpSockets, SequenceTheorems, TLAPS

\* A request waits exactly on a taken socket, and it is the last one sent.
WaitInv(s) ==
  /\ taken[s] => sent[s] = answered[s] + 1
  /\ ~taken[s] => sent[s] = answered[s]

\* Datagrams in flight belong to the request that waits, in one place at a time.
FlightInv(s) ==
  /\ answered[s] <= xmit[s]
  /\ rxq[s] = <<>> \/ (taken[s] /\ rxq[s] = <<sent[s]>>)
  /\ underway[s] \subseteq {sent[s]}
  /\ underway[s] # {} => taken[s] /\ rxq[s] = <<>>
  /\ rxq[s] # <<>> \/ underway[s] # {} => xmit[s] = sent[s]

\* The transmit time of the request that waits is nowhere, in the error queue,
\* or in the socket; without NIC timestamps it is there from the start.
StampInv(s) ==
  /\ ~Nic => errq[s] = <<>>
  /\ mode = "thr" => txTime[s] = 0
  /\ mode \in {"sym", "lat"} /\ taken[s] => txTime[s] = sent[s]
  /\ Nic => /\ answered[s] <= stamped[s]
            /\ rxq[s] # <<>> => stamped[s] = sent[s]
            /\ \/ txTime[s] = 0 /\ errq[s] = <<>>
               \/ /\ taken[s] /\ stamped[s] = sent[s]
                  /\ \/ txTime[s] = 0 /\ errq[s] = <<sent[s]>>
                     \/ txTime[s] = sent[s] /\ errq[s] = <<>>

PairInv(s) == WaitInv(s) /\ FlightInv(s) /\ StampInv(s)

IInv == TypeOK /\ (Clean => \A s \in Sockets : PairInv(s))

-----------------------------------------------------------------------------
(* Types.                                                                  *)

\* The round robin of get_socket stays among the sockets.
LEMMA TurnInRange == ASSUME NEW t \in Sockets PROVE (t + 1) % N \in Sockets
  BY UdpAssumption DEF Sockets

\* The parts of the type invariant.
ThreadTypes ==
  /\ turn \in Sockets /\ pc \in {"loop", "recv", "ended"}
  /\ taken \in [Sockets -> BOOLEAN]
  /\ txTime \in [Sockets -> Nat] /\ answered \in [Sockets -> Nat]
  /\ sample \in [Sockets -> [reply : Nat, request : Nat]]

CounterTypes ==
  /\ sent \in [Sockets -> Nat] /\ xmit \in [Sockets -> Nat]
  /\ stamped \in [Sockets -> Nat]

QueueTypes ==
  /\ errq \in [Sockets -> Seq(Nat)] /\ rxq \in [Sockets -> Seq(Nat)]
  /\ underway \in [Sockets -> SUBSET Nat]

CountersOrdered ==
  \A s \in Sockets : /\ stamped[s] <= xmit[s] /\ xmit[s] <= sent[s]
                     /\ sent[s] <= setting.requests

FaultTypes == losses \in 0..MaxLosses /\ duplicates \in 0..setting.duplicates

LEMMA TypeParts ==
  /\ TypeOK <=> /\ setting \in Settings /\ ThreadTypes /\ CounterTypes
                /\ QueueTypes /\ CountersOrdered /\ FaultTypes
  /\ TypeOK' <=> /\ setting' \in Settings /\ ThreadTypes' /\ CounterTypes'
                 /\ QueueTypes' /\ CountersOrdered' /\ FaultTypes'
  BY Zenon DEF TypeOK, ThreadTypes, CounterTypes, QueueTypes, CountersOrdered, FaultTypes

LEMMA SettingTypes ==
  ASSUME setting \in Settings
  PROVE  setting.requests \in Nat /\ setting.duplicates \in Nat /\ MaxLosses \in Nat
  BY UdpAssumption DEF Setting

\* What a step leaves alone keeps its type.
LEMMA TypesKept ==
  /\ ThreadTypes /\ UNCHANGED thread => ThreadTypes'
  /\ CounterTypes /\ UNCHANGED <<sent, xmit, stamped>> => CounterTypes'
  /\ QueueTypes /\ UNCHANGED <<errq, rxq, underway>> => QueueTypes'
  /\ CountersOrdered /\ UNCHANGED <<setting, sent, xmit, stamped>> => CountersOrdered'
  /\ FaultTypes /\ UNCHANGED <<setting, losses, duplicates>> => FaultTypes'
  BY Zenon DEF ThreadTypes, CounterTypes, QueueTypes, CountersOrdered, FaultTypes, thread

LEMMA TypeInit == Init => TypeOK
  <1>. SUFFICES ASSUME Init PROVE TypeOK
    OBVIOUS
  <1>1. /\ setting \in Settings /\ 0 \in Sockets /\ 0 \in 0..MaxLosses
        /\ 0 \in 0..setting.duplicates /\ 0 <= setting.requests
    BY UdpAssumption, SettingTypes DEF Init, Sockets
  <1>2. ThreadTypes
    BY <1>1 DEF Init, ThreadTypes
  <1>3. CounterTypes
    BY DEF Init, CounterTypes
  <1>4. QueueTypes
    BY DEF Init, QueueTypes
  <1>5. CountersOrdered
    BY <1>1 DEF Init, CountersOrdered
  <1>6. FaultTypes
    BY <1>1 DEF Init, FaultTypes
  <1>. QED BY <1>1, <1>2, <1>3, <1>4, <1>5, <1>6, TypeParts

LEMMA TypeStep == TypeOK /\ [Next]_vars => TypeOK'
  <1>. SUFFICES ASSUME TypeOK, [Next]_vars PROVE TypeOK'
    OBVIOUS
  <1>0. /\ setting \in Settings /\ ThreadTypes /\ CounterTypes
        /\ QueueTypes /\ CountersOrdered /\ FaultTypes
        /\ setting.requests \in Nat /\ setting.duplicates \in Nat /\ MaxLosses \in Nat
    BY TypeParts, SettingTypes
  <1>1. CASE SendRequest
    <2>0. setting' = setting
      BY <1>1 DEF SendRequest
    <2>1. turn \in Sockets /\ turn' \in Sockets
      BY <1>0, <1>1, TurnInRange DEF SendRequest, NextTurn, ThreadTypes
    <2>2. sent[turn] \in Nat /\ sent' = [sent EXCEPT ![turn] = @ + 1]
      BY <1>0, <1>1, <2>1 DEF SendRequest, CounterTypes
    <2>3. CounterTypes' /\ sent'[turn] \in Nat
      BY <1>0, <1>1, <2>1, <2>2 DEF SendRequest, CounterTypes
    <2>4. txTime' \in [Sockets -> Nat]
      BY <1>0, <1>1, <2>1, <2>3 DEF SendRequest, ThreadTypes
    <2>5. pc' \in {"loop", "recv", "ended"}
      BY <1>1 DEF SendRequest, Ready
    <2>6. ThreadTypes'
      BY <1>0, <1>1, <2>1, <2>4, <2>5 DEF SendRequest, ThreadTypes
    <2>7. CountersOrdered'
      <3>. SUFFICES ASSUME NEW q \in Sockets
                    PROVE  /\ stamped'[q] <= xmit'[q] /\ xmit'[q] <= sent'[q]
                           /\ sent'[q] <= setting.requests
        BY <2>0 DEF CountersOrdered
      <3>1. /\ stamped[q] <= xmit[q] /\ xmit[q] <= sent[q] /\ sent[q] <= setting.requests
            /\ stamped[q] \in Nat /\ xmit[q] \in Nat /\ sent[q] \in Nat
        BY <1>0 DEF CountersOrdered, CounterTypes
      <3>2. stamped' = stamped /\ xmit' = xmit /\ sent[turn] < setting.requests
        BY <1>1 DEF SendRequest
      <3>3. sent'[q] = IF q = turn THEN sent[q] + 1 ELSE sent[q]
        BY <1>0, <2>1, <2>2 DEF CounterTypes
      <3>. QED BY <1>0, <3>1, <3>2, <3>3
    <2>8. QueueTypes' /\ FaultTypes'
      BY <1>0, <1>1, TypesKept DEF SendRequest
    <2>. QED BY <1>0, <2>0, <2>3, <2>6, <2>7, <2>8, TypeParts
  <1>2. CASE SkipSocket
    <2>1. ThreadTypes'
      BY <1>0, <1>2, TurnInRange DEF SkipSocket, NextTurn, ThreadTypes
    <2>. QED BY <1>0, <1>2, <2>1, TypesKept, TypeParts DEF SkipSocket, network
  <1>3. CASE RecvTimeout \/ SocketFails
    <2>1. ThreadTypes'
      BY <1>0, <1>3 DEF RecvTimeout, SocketFails, ThreadTypes
    <2>. QED BY <1>0, <1>3, <2>1, TypesKept, TypeParts DEF RecvTimeout, SocketFails, network
  <1>4. ASSUME NEW s \in Sockets, HandleReply(s) PROVE TypeOK'
    <2>1. rxq[s] \in Seq(Nat) /\ rxq[s] # <<>> /\ errq[s] \in Seq(Nat) /\ txTime[s] \in Nat
      BY <1>0, <1>4 DEF HandleReply, ThreadTypes, QueueTypes
    <2>2. Tail(rxq[s]) \in Seq(Nat) /\ Head(rxq[s]) \in Nat
      BY <2>1
    <2>3. /\ Fetches(s) => Tail(errq[s]) \in Seq(Nat)
          /\ TxTime(s) \in Nat
      BY <2>1 DEF Fetches, TxTime
    <2>4. TxTimeAfter(s) \in Nat
      BY <2>1 DEF TxTimeAfter
    <2>5. QueueTypes'
      BY <1>0, <1>4, <2>2, <2>3 DEF HandleReply, QueueTypes
    <2>6. sample' \in [Sockets -> [reply : Nat, request : Nat]]
      BY <1>0, <1>4, <2>2, <2>3 DEF HandleReply, ThreadTypes
    <2>7. ThreadTypes'
      <3>1. /\ taken' = [taken EXCEPT ![s] = FALSE]
            /\ txTime' = [txTime EXCEPT ![s] = TxTimeAfter(s)]
            /\ answered' = [answered EXCEPT ![s] = @ + 1]
            /\ turn' = turn /\ pc' = "loop"
        BY <1>4 DEF HandleReply, TakenAfter
      <3>2. /\ turn \in Sockets /\ taken \in [Sockets -> BOOLEAN]
            /\ txTime \in [Sockets -> Nat] /\ answered \in [Sockets -> Nat]
        BY <1>0 DEF ThreadTypes
      <3>3. taken' \in [Sockets -> BOOLEAN] /\ txTime' \in [Sockets -> Nat]
        BY <2>4, <3>1, <3>2
      <3>4. answered' \in [Sockets -> Nat]
        BY <3>1, <3>2
      <3>. QED BY <2>6, <3>1, <3>2, <3>3, <3>4 DEF ThreadTypes
    <2>. QED BY <1>0, <1>4, <2>5, <2>7, TypesKept, TypeParts DEF HandleReply
  <1>5. ASSUME NEW s \in Sockets, HandleError(s) PROVE TypeOK'
    <2>1. errq[s] \in Seq(Nat) /\ errq[s] # <<>>
      BY <1>0, <1>5 DEF HandleError, QueueTypes
    <2>2. Tail(errq[s]) \in Seq(Nat) /\ Head(errq[s]) \in Nat
      BY <2>1
    <2>3. QueueTypes'
      BY <1>0, <1>5, <2>2 DEF HandleError, QueueTypes
    <2>4. ThreadTypes'
      BY <1>0, <1>5, <2>2 DEF HandleError, ThreadTypes
    <2>. QED BY <1>0, <1>5, <2>3, <2>4, TypesKept, TypeParts DEF HandleError
  <1>6. ASSUME NEW s \in Sockets, Transmit(s) PROVE TypeOK'
    <2>1. xmit[s] \in Nat /\ xmit'[s] = xmit[s] + 1 /\ CounterTypes'
      BY <1>0, <1>6 DEF Transmit, CounterTypes
    <2>2. QueueTypes'
      BY <1>0, <1>6, <2>1 DEF Transmit, QueueTypes
    <2>3. CountersOrdered'
      BY <1>0, <1>6, <2>1 DEF Transmit, CounterTypes, CountersOrdered
    <2>. QED BY <1>0, <1>6, <2>1, <2>2, <2>3, TypesKept, TypeParts DEF Transmit
  <1>7. ASSUME NEW s \in Sockets, StampArrives(s) PROVE TypeOK'
    <2>1. stamped[s] \in Nat /\ stamped'[s] = stamped[s] + 1 /\ CounterTypes'
      BY <1>0, <1>7 DEF StampArrives, CounterTypes
    <2>2. errq[s] \in Seq(Nat)
      BY <1>0 DEF QueueTypes
    <2>3. Append(errq[s], stamped'[s]) \in Seq(Nat)
      BY <2>1, <2>2, AppendProperties
    <2>4. QueueTypes'
      BY <1>0, <1>7, <2>3 DEF StampArrives, QueueTypes
    <2>5. CountersOrdered'
      BY <1>0, <1>7, <2>1 DEF StampArrives, CounterTypes, CountersOrdered
    <2>. QED BY <1>0, <1>7, <2>1, <2>4, <2>5, TypesKept, TypeParts DEF StampArrives
  <1>8. ASSUME NEW s \in Sockets, NEW r \in underway[s], ReplyArrives(s, r)
        PROVE  TypeOK'
    <2>1. r \in Nat /\ rxq[s] \in Seq(Nat) /\ underway[s] \ {r} \in SUBSET Nat
      BY <1>0 DEF QueueTypes
    <2>2. Append(rxq[s], r) \in Seq(Nat)
      BY <2>1, AppendProperties
    <2>3. underway' \in [Sockets -> SUBSET Nat]
      BY <1>0, <1>8, <2>1 DEF ReplyArrives, QueueTypes
    <2>4. QueueTypes'
      BY <1>0, <1>8, <2>2, <2>3 DEF ReplyArrives, QueueTypes
    <2>5. FaultTypes'
      BY <1>0, <1>8 DEF ReplyArrives, FaultTypes
    <2>. QED BY <1>0, <1>8, <2>4, <2>5, TypesKept, TypeParts DEF ReplyArrives
  <1>9. ASSUME NEW s \in Sockets, NEW r \in underway[s], Lose(s, r)
        PROVE  TypeOK'
    <2>1. underway[s] \ {r} \in SUBSET Nat
      BY <1>0 DEF QueueTypes
    <2>2. QueueTypes'
      BY <1>0, <1>9, <2>1 DEF Lose, QueueTypes
    <2>3. FaultTypes'
      BY <1>0, <1>9 DEF Lose, FaultTypes
    <2>. QED BY <1>0, <1>9, <2>2, <2>3, TypesKept, TypeParts DEF Lose
  <1>10. CASE UNCHANGED vars
    BY <1>0, <1>10, TypesKept, TypeParts DEF vars, network
  <1>. QED BY <1>1, <1>2, <1>3, <1>4, <1>5, <1>6, <1>7, <1>8, <1>9, <1>10
           DEF Next, Thread, Network

\* Every variable keeps its type (tp_udp.c).
THEOREM TypeCorrect == Spec => []TypeOK
  <1>. QED BY TypeInit, TypeStep, PTL DEF Spec

-----------------------------------------------------------------------------
(* Free sockets hold no transmit time.                                     *)

\* The NIC loop leaves no transmit time in a socket it has freed, whatever the
\* network does (tp_udp.c:442-446 and 453).
THEOREM FreeReset == Spec => []FreeSocketsAreReset
  <1>. USE DEF FreeSocketsAreReset
  <1>1. Init => FreeSocketsAreReset
    BY DEF Init
  <1>2. TypeOK /\ FreeSocketsAreReset /\ [Next]_vars => FreeSocketsAreReset'
    <2>. SUFFICES ASSUME TypeOK, FreeSocketsAreReset, [Next]_vars, NEW q \in Sockets,
                         Nic', ~taken'[q]
                  PROVE  txTime'[q] = 0
      OBVIOUS
    <2>0. /\ txTime \in [Sockets -> Nat] /\ taken \in [Sockets -> BOOLEAN]
          /\ turn \in Sockets
      BY DEF TypeOK
    <2>1. Nic
      BY DEF Next, Thread, Network, SendRequest, SkipSocket, RecvTimeout, SocketFails,
             HandleReply, HandleError, Transmit, StampArrives, ReplyArrives, Lose,
             vars, Nic, mode
    <2>2. CASE SendRequest
      BY <2>0, <2>1, <2>2 DEF SendRequest, Nic
    <2>3. ASSUME NEW s \in Sockets, HandleReply(s) PROVE txTime'[q] = 0
      BY <2>0, <2>1, <2>3 DEF HandleReply, TxTimeAfter
    <2>4. ASSUME NEW s \in Sockets, HandleError(s) PROVE txTime'[q] = 0
      BY <2>0, <2>1, <2>4 DEF HandleError, Stores
    <2>5. CASE UNCHANGED <<txTime, taken>>
      BY <2>1, <2>5
    <2>. QED BY <2>2, <2>3, <2>4, <2>5
             DEF Next, Thread, Network, SkipSocket, RecvTimeout, SocketFails,
                 Transmit, StampArrives, ReplyArrives, Lose, vars, thread
  <1>. QED BY <1>1, <1>2, TypeCorrect, PTL DEF Spec

-----------------------------------------------------------------------------
(* In a clean network, everything in flight is about the request that waits. *)

LEMMA OneElement ==
  ASSUME NEW x \in Nat
  PROVE  /\ <<x>> # <<>> /\ Head(<<x>>) = x /\ Tail(<<x>>) = <<>>
         /\ Append(<<>>, x) = <<x>>
  OBVIOUS

\* What the type invariant says of one socket.
LEMMA SocketTypes ==
  ASSUME TypeOK, NEW q \in Sockets
  PROVE  /\ taken[q] \in BOOLEAN /\ txTime[q] \in Nat /\ answered[q] \in Nat
         /\ sent[q] \in Nat /\ xmit[q] \in Nat /\ stamped[q] \in Nat
         /\ underway[q] \in SUBSET Nat
         /\ stamped[q] <= xmit[q] /\ xmit[q] <= sent[q]
  BY TypeParts DEF ThreadTypes, CounterTypes, QueueTypes, CountersOrdered

\* The variables are functions on the sockets.
LEMMA Domains ==
  ASSUME TypeOK
  PROVE  /\ DOMAIN taken = Sockets /\ DOMAIN txTime = Sockets
         /\ DOMAIN answered = Sockets /\ DOMAIN sample = Sockets
         /\ DOMAIN sent = Sockets /\ DOMAIN xmit = Sockets /\ DOMAIN stamped = Sockets
         /\ DOMAIN errq = Sockets /\ DOMAIN rxq = Sockets /\ DOMAIN underway = Sockets
         /\ turn \in Sockets
  BY TypeParts DEF ThreadTypes, CounterTypes, QueueTypes

LEMMA SettingKept == [Next]_vars => setting' = setting
  BY DEF Next, Thread, Network, SendRequest, SkipSocket, RecvTimeout, SocketFails,
         HandleReply, HandleError, Transmit, StampArrives, ReplyArrives, Lose, vars

\* A step that leaves a socket alone keeps what is known of it.
LEMMA PairKept ==
  ASSUME NEW q \in Sockets, PairInv(q), setting' = setting,
         taken'[q] = taken[q], txTime'[q] = txTime[q], answered'[q] = answered[q],
         sent'[q] = sent[q], xmit'[q] = xmit[q], stamped'[q] = stamped[q],
         errq'[q] = errq[q], rxq'[q] = rxq[q], underway'[q] = underway[q]
  PROVE  PairInv(q)'
  BY Zenon DEF PairInv, WaitInv, FlightInv, StampInv, Nic, mode

LEMMA PairInit ==
  ASSUME Init, NEW q \in Sockets
  PROVE  PairInv(q)
  <1>1. /\ ~taken[q] /\ txTime[q] = 0 /\ answered[q] = 0 /\ sent[q] = 0
        /\ xmit[q] = 0 /\ stamped[q] = 0 /\ errq[q] = <<>> /\ rxq[q] = <<>>
        /\ underway[q] = {}
    BY DEF Init
  <1>. QED BY <1>1 DEF PairInv, WaitInv, FlightInv, StampInv

LEMMA PairSend ==
  ASSUME TypeOK, NEW q \in Sockets, PairInv(q), SendRequest
  PROVE  PairInv(q)'
  <1>0. setting' = setting /\ mode' = mode /\ Nic' = Nic
    BY DEF SendRequest, mode, Nic
  <1>1. CASE q # turn
    <2>1. /\ taken'[q] = taken[q] /\ sent'[q] = sent[q] /\ txTime'[q] = txTime[q]
      BY <1>1, Domains DEF SendRequest
    <2>. QED BY <1>0, <2>1, PairKept DEF SendRequest
  <1>2. CASE q = turn
    <2>1. /\ ~taken[q] /\ taken'[q] /\ sent'[q] = sent[q] + 1
          /\ answered'[q] = answered[q] /\ xmit'[q] = xmit[q] /\ stamped'[q] = stamped[q]
          /\ errq'[q] = errq[q] /\ rxq'[q] = rxq[q] /\ underway'[q] = underway[q]
      BY <1>2, Domains DEF SendRequest
    <2>2. /\ mode \in {"sym", "lat"} => txTime'[q] = sent'[q]
          /\ mode \notin {"sym", "lat"} => txTime'[q] = txTime[q]
      BY <1>2, Domains DEF SendRequest
    <2>3. /\ sent[q] = answered[q] /\ rxq[q] = <<>> /\ underway[q] = {}
          /\ answered[q] <= xmit[q]
      BY <2>1 DEF PairInv, WaitInv, FlightInv
    <2>4. WaitInv(q)'
      BY <2>1, <2>3, SocketTypes DEF WaitInv
    <2>5. FlightInv(q)'
      BY <2>1, <2>3, SocketTypes DEF FlightInv
    <2>6. StampInv(q)'
      BY <1>0, <2>1, <2>2, <2>3 DEF PairInv, StampInv, Nic
    <2>. QED BY <2>4, <2>5, <2>6 DEF PairInv
  <1>. QED BY <1>1, <1>2

\* A reply that is handled answers the request that waits, and a transmit time
\* it is measured from is that request's.
LEMMA ReplyPaired ==
  ASSUME TypeOK, NEW s \in Sockets, PairInv(s), HandleReply(s)
  PROVE  /\ taken[s] /\ sent[s] = answered[s] + 1 /\ rxq[s] = <<sent[s]>>
         /\ xmit[s] = sent[s] /\ underway[s] = {}
         /\ Head(rxq[s]) = sent[s] /\ rxq'[s] = <<>>
         /\ TxTime(s) \in {0, sent[s]}
         /\ errq'[s] = <<>>
         /\ Nic => stamped[s] = sent[s]
  <1>0. /\ rxq[s] # <<>> /\ rxq'[s] = Tail(rxq[s])
        /\ errq'[s] = IF Fetches(s) THEN Tail(errq[s]) ELSE errq[s]
    BY Domains DEF HandleReply
  <1>1. /\ taken[s] /\ rxq[s] = <<sent[s]>> /\ xmit[s] = sent[s]
        /\ sent[s] = answered[s] + 1 /\ sent[s] \in Nat
    BY <1>0, SocketTypes DEF PairInv, WaitInv, FlightInv
  <1>2. underway[s] = {} /\ (Nic => stamped[s] = sent[s])
    BY <1>0 DEF PairInv, FlightInv, StampInv
  <1>3. Head(rxq[s]) = sent[s] /\ rxq'[s] = <<>>
    BY <1>0, <1>1, OneElement
  <1>4. sent[s] # 0
    BY <1>1, SocketTypes
  <1>5. TxTime(s) \in {0, sent[s]} /\ errq'[s] = <<>>
    <2>1. CASE ~Nic
      <3>1. ~Fetches(s) /\ errq[s] = <<>>
        BY <2>1 DEF Fetches, PairInv, StampInv
      <3>2. txTime[s] \in {0, sent[s]}
        <4>1. mode \in {"sym", "lat", "thr"}
          BY <2>1, TypeParts, UdpAssumption DEF Setting, mode, Nic
        <4>. QED BY <1>1, <4>1 DEF PairInv, StampInv
      <3>. QED BY <1>0, <3>1, <3>2 DEF TxTime
    <2>2. CASE Nic /\ txTime[s] = 0 /\ errq[s] = <<>>
      BY <1>0, <2>2 DEF TxTime, Fetches
    <2>3. CASE Nic /\ txTime[s] = 0 /\ errq[s] = <<sent[s]>>
      BY <1>0, <1>1, <2>3, OneElement DEF TxTime, Fetches
    <2>4. CASE Nic /\ txTime[s] = sent[s] /\ errq[s] = <<>>
      BY <1>0, <2>4 DEF TxTime, Fetches
    <2>. QED BY <2>1, <2>2, <2>3, <2>4 DEF PairInv, StampInv
  <1>. QED BY <1>1, <1>2, <1>3, <1>5

LEMMA PairReply ==
  ASSUME TypeOK, NEW q \in Sockets, PairInv(q), NEW s \in Sockets, HandleReply(s)
  PROVE  PairInv(q)'
  <1>0. setting' = setting /\ mode' = mode /\ Nic' = Nic
    BY DEF HandleReply, mode, Nic
  <1>1. CASE q # s
    <2>1. /\ taken'[q] = taken[q] /\ txTime'[q] = txTime[q] /\ answered'[q] = answered[q]
          /\ errq'[q] = errq[q] /\ rxq'[q] = rxq[q]
      BY <1>1, Domains DEF HandleReply
    <2>. QED BY <1>0, <2>1, PairKept DEF HandleReply
  <1>2. CASE q = s
    <2>1. /\ sent[q] = answered[q] + 1 /\ xmit[q] = sent[q] /\ underway[q] = {}
          /\ rxq'[q] = <<>> /\ errq'[q] = <<>> /\ (Nic => stamped[q] = sent[q])
      BY <1>2, ReplyPaired
    <2>2. /\ ~taken'[q] /\ answered'[q] = answered[q] + 1 /\ txTime'[q] = TxTimeAfter(q)
          /\ sent'[q] = sent[q] /\ xmit'[q] = xmit[q] /\ stamped'[q] = stamped[q]
          /\ underway'[q] = underway[q]
      BY <1>2, Domains DEF HandleReply, TakenAfter
    <2>3. WaitInv(q)'
      BY <2>1, <2>2 DEF WaitInv
    <2>4. FlightInv(q)'
      BY <2>1, <2>2, SocketTypes DEF FlightInv
    <2>5. StampInv(q)'
      <3>1. Nic => txTime'[q] = 0 /\ answered'[q] <= stamped'[q]
        BY <2>1, <2>2, SocketTypes DEF TxTimeAfter
      <3>2. mode = "thr" => txTime'[q] = 0
        BY <2>2 DEF PairInv, StampInv, TxTimeAfter
      <3>. QED BY <1>0, <2>1, <2>2, <3>1, <3>2 DEF StampInv
    <2>. QED BY <2>3, <2>4, <2>5 DEF PairInv
  <1>. QED BY <1>1, <1>2

LEMMA PairError ==
  ASSUME TypeOK, NEW q \in Sockets, PairInv(q), NEW s \in Sockets, HandleError(s)
  PROVE  PairInv(q)'
  <1>0. setting' = setting /\ mode' = mode /\ Nic' = Nic /\ Nic
    BY DEF HandleError, mode, Nic
  <1>1. CASE q # s
    <2>1. txTime'[q] = txTime[q] /\ errq'[q] = errq[q]
      BY <1>1, Domains DEF HandleError
    <2>. QED BY <1>0, <2>1, PairKept DEF HandleError
  <1>2. CASE q = s
    <2>1. /\ taken[q] /\ stamped[q] = sent[q] /\ errq[q] = <<sent[q]>> /\ rxq[q] = <<>>
      BY <1>0, <1>2 DEF HandleError, PairInv, StampInv
    <2>2. errq'[q] = <<>> /\ txTime'[q] = sent[q]
      BY <1>2, <2>1, Domains, OneElement, SocketTypes DEF HandleError, Stores
    <2>3. /\ taken'[q] = taken[q] /\ answered'[q] = answered[q] /\ sent'[q] = sent[q]
          /\ xmit'[q] = xmit[q] /\ stamped'[q] = stamped[q] /\ rxq'[q] = rxq[q]
          /\ underway'[q] = underway[q]
      BY DEF HandleError
    <2>4. WaitInv(q)' /\ FlightInv(q)'
      BY <2>3, Zenon DEF PairInv, WaitInv, FlightInv
    <2>5. mode = "nic"
      BY <1>0 DEF Nic
    <2>6. StampInv(q)'
      BY <1>0, <2>1, <2>2, <2>3, <2>5 DEF PairInv, StampInv
    <2>. QED BY <2>4, <2>6 DEF PairInv
  <1>. QED BY <1>1, <1>2

LEMMA PairTransmit ==
  ASSUME TypeOK, NEW q \in Sockets, PairInv(q), NEW s \in Sockets, Transmit(s)
  PROVE  PairInv(q)'
  <1>0. /\ setting' = setting /\ mode' = mode /\ Nic' = Nic
        /\ taken'[q] = taken[q] /\ txTime'[q] = txTime[q] /\ answered'[q] = answered[q]
        /\ sent'[q] = sent[q] /\ stamped'[q] = stamped[q] /\ errq'[q] = errq[q]
        /\ rxq'[q] = rxq[q]
    BY DEF Transmit, thread, mode, Nic
  <1>1. CASE q # s
    <2>1. xmit'[q] = xmit[q] /\ underway'[q] = underway[q]
      BY <1>1, Domains DEF Transmit
    <2>. QED BY <1>0, <2>1, PairKept
  <1>2. CASE q = s
    <2>1. /\ xmit[q] < sent[q] /\ xmit'[q] = xmit[q] + 1
          /\ underway'[q] = underway[q] \cup {xmit[q] + 1}
      BY <1>2, Domains DEF Transmit
    <2>2. /\ taken[q] /\ sent[q] = answered[q] + 1 /\ rxq[q] = <<>> /\ underway[q] = {}
          /\ answered[q] <= xmit[q]
      BY <2>1, SocketTypes DEF PairInv, WaitInv, FlightInv
    <2>3. xmit[q] + 1 = sent[q]
      BY <2>1, <2>2, SocketTypes
    <2>4. WaitInv(q)'
      BY <1>0, Zenon DEF PairInv, WaitInv
    <2>5. FlightInv(q)'
      BY <1>0, <2>1, <2>2, <2>3, SocketTypes DEF FlightInv
    <2>6. StampInv(q)'
      BY <1>0, Zenon DEF PairInv, StampInv
    <2>. QED BY <2>4, <2>5, <2>6 DEF PairInv
  <1>. QED BY <1>1, <1>2

LEMMA PairStamp ==
  ASSUME TypeOK, NEW q \in Sockets, PairInv(q), NEW s \in Sockets, StampArrives(s)
  PROVE  PairInv(q)'
  <1>0. /\ setting' = setting /\ mode' = mode /\ Nic' = Nic /\ Nic
        /\ taken'[q] = taken[q] /\ txTime'[q] = txTime[q] /\ answered'[q] = answered[q]
        /\ sent'[q] = sent[q] /\ xmit'[q] = xmit[q] /\ underway'[q] = underway[q]
        /\ rxq'[q] = rxq[q]
    BY DEF StampArrives, thread, mode, Nic
  <1>1. CASE q # s
    <2>1. stamped'[q] = stamped[q] /\ errq'[q] = errq[q]
      BY <1>1, Domains DEF StampArrives
    <2>. QED BY <1>0, <2>1, PairKept
  <1>2. CASE q = s
    <2>1. /\ stamped[q] < xmit[q] /\ stamped'[q] = stamped[q] + 1
          /\ errq'[q] = Append(errq[q], stamped[q] + 1)
      BY <1>2, Domains DEF StampArrives
    <2>2. answered[q] <= stamped[q]
      BY <1>0 DEF PairInv, StampInv
    <2>3. taken[q] /\ stamped[q] + 1 = sent[q]
      BY <2>1, <2>2, SocketTypes DEF PairInv, WaitInv
    <2>4. stamped[q] # sent[q]
      BY <2>1, SocketTypes
    <2>5. rxq[q] = <<>> /\ txTime[q] = 0 /\ errq[q] = <<>>
      BY <1>0, <2>4 DEF PairInv, StampInv
    <2>6. errq'[q] = <<sent[q]>> /\ stamped'[q] = sent[q]
      BY <2>1, <2>3, <2>5, OneElement, SocketTypes
    <2>7. WaitInv(q)' /\ FlightInv(q)'
      BY <1>0, Zenon DEF PairInv, WaitInv, FlightInv
    <2>8. mode = "nic" /\ answered[q] <= sent[q]
      BY <1>0, <2>1, <2>2, SocketTypes DEF Nic
    <2>9. StampInv(q)'
      BY <1>0, <2>3, <2>5, <2>6, <2>8 DEF StampInv
    <2>. QED BY <2>7, <2>9 DEF PairInv
  <1>. QED BY <1>1, <1>2

LEMMA PairArrival ==
  ASSUME TypeOK, Clean, NEW q \in Sockets, PairInv(q), NEW s \in Sockets,
         NEW r \in underway[s], ReplyArrives(s, r)
  PROVE  PairInv(q)'
  <1>0. /\ setting' = setting /\ mode' = mode /\ Nic' = Nic
        /\ taken'[q] = taken[q] /\ txTime'[q] = txTime[q] /\ answered'[q] = answered[q]
        /\ sent'[q] = sent[q] /\ xmit'[q] = xmit[q] /\ stamped'[q] = stamped[q]
        /\ errq'[q] = errq[q]
    BY DEF ReplyArrives, thread, mode, Nic
  <1>1. underway' = [underway EXCEPT ![s] = @ \ {r}]
    <2>1. ~(duplicates < setting.duplicates)
      BY TypeParts DEF FaultTypes, Clean
    <2>. QED BY <2>1 DEF ReplyArrives
  <1>2. CASE q # s
    <2>1. rxq'[q] = rxq[q] /\ underway'[q] = underway[q]
      BY <1>1, <1>2, Domains DEF ReplyArrives
    <2>. QED BY <1>0, <2>1, PairKept
  <1>3. CASE q = s
    <2>1. /\ r = sent[q] /\ underway[q] = {sent[q]} /\ taken[q] /\ rxq[q] = <<>>
          /\ xmit[q] = sent[q] /\ sent[q] \in Nat
      BY <1>3, SocketTypes DEF PairInv, FlightInv
    <2>2. rxq'[q] = <<sent[q]>> /\ underway'[q] = {}
      BY <1>1, <1>3, <2>1, Domains, OneElement DEF ReplyArrives
    <2>3. Nic => stamped[q] = sent[q]
      BY <1>3, <2>1, SocketTypes DEF ReplyArrives, Clean
    <2>4. WaitInv(q)'
      BY <1>0, Zenon DEF PairInv, WaitInv
    <2>5. FlightInv(q)'
      BY <1>0, <2>1, <2>2 DEF PairInv, FlightInv
    <2>6. StampInv(q)'
      BY <1>0, <2>3 DEF PairInv, StampInv
    <2>. QED BY <2>4, <2>5, <2>6 DEF PairInv
  <1>. QED BY <1>2, <1>3

LEMMA PairLose ==
  ASSUME TypeOK, NEW q \in Sockets, PairInv(q), NEW s \in Sockets,
         NEW r \in underway[s], Lose(s, r)
  PROVE  PairInv(q)'
  <1>0. /\ setting' = setting /\ mode' = mode /\ Nic' = Nic
        /\ taken'[q] = taken[q] /\ txTime'[q] = txTime[q] /\ answered'[q] = answered[q]
        /\ sent'[q] = sent[q] /\ xmit'[q] = xmit[q] /\ stamped'[q] = stamped[q]
        /\ errq'[q] = errq[q] /\ rxq'[q] = rxq[q]
    BY DEF Lose, thread, mode, Nic
  <1>1. underway'[q] \subseteq underway[q]
    BY Domains DEF Lose
  <1>2. WaitInv(q)' /\ StampInv(q)'
    BY <1>0, Zenon DEF PairInv, WaitInv, StampInv
  <1>3. FlightInv(q)'
    BY <1>0, <1>1 DEF PairInv, FlightInv
  <1>. QED BY <1>2, <1>3 DEF PairInv

LEMMA PairStep ==
  ASSUME TypeOK, Clean, [Next]_vars, NEW q \in Sockets, PairInv(q)
  PROVE  PairInv(q)'
  <1>1. CASE SendRequest
    BY <1>1, PairSend
  <1>2. ASSUME NEW s \in Sockets, HandleReply(s) PROVE PairInv(q)'
    BY <1>2, PairReply
  <1>3. ASSUME NEW s \in Sockets, HandleError(s) PROVE PairInv(q)'
    BY <1>3, PairError
  <1>4. ASSUME NEW s \in Sockets, Transmit(s) PROVE PairInv(q)'
    BY <1>4, PairTransmit
  <1>5. ASSUME NEW s \in Sockets, StampArrives(s) PROVE PairInv(q)'
    BY <1>5, PairStamp
  <1>6. ASSUME NEW s \in Sockets, NEW r \in underway[s], ReplyArrives(s, r)
        PROVE  PairInv(q)'
    BY <1>6, PairArrival
  <1>7. ASSUME NEW s \in Sockets, NEW r \in underway[s], Lose(s, r)
        PROVE  PairInv(q)'
    BY <1>7, PairLose
  <1>8. CASE SkipSocket \/ RecvTimeout \/ SocketFails \/ UNCHANGED vars
    BY <1>8, PairKept DEF SkipSocket, RecvTimeout, SocketFails, network, thread, vars
  <1>. QED BY <1>1, <1>2, <1>3, <1>4, <1>5, <1>6, <1>7, <1>8
           DEF Next, Thread, Network

LEMMA InvInit == Init => IInv
  BY TypeInit, PairInit DEF IInv

LEMMA InvStep == IInv /\ [Next]_vars => IInv'
  <1>. SUFFICES ASSUME IInv, [Next]_vars PROVE IInv'
    OBVIOUS
  <1>1. TypeOK /\ TypeOK'
    BY TypeStep DEF IInv
  <1>2. Clean' => Clean
    BY SettingKept DEF Clean
  <1>3. ASSUME Clean', NEW q \in Sockets PROVE PairInv(q)'
    BY <1>1, <1>2, <1>3, PairStep DEF IInv
  <1>. QED BY <1>1, <1>3 DEF IInv

\* In a network that neither duplicates nor delays timestamps past replies, all
\* that is in flight on a socket is about the request that waits on it
\* (tp_udp.c:355-457: a socket is taken before it is written to, and freed only
\* when a datagram was read from it).
THEOREM InFlightIsWaiting == Spec => []IInv
  <1>. QED BY InvInit, InvStep, PTL DEF Spec

-----------------------------------------------------------------------------
(* Every socket is a correct way of timing requests.                       *)

LEMMA SendIssues ==
  ASSUME TypeOK, NEW s \in Sockets, PairInv(s), SendRequest
  PROVE  [Timing(s)!Next]_(Timing(s)!vars)
  <1>1. answered' = answered /\ sample' = sample
    BY DEF SendRequest
  <1>2. CASE s # turn
    <2>1. sent'[s] = sent[s]
      BY <1>2, Domains DEF SendRequest
    <2>. QED BY <1>1, <2>1 DEF Timing!vars
  <1>3. CASE s = turn
    <2>1. sent'[s] = sent[s] + 1 /\ ~taken[s]
      BY <1>3, Domains DEF SendRequest
    <2>2. sent[s] - answered[s] < 1
      BY <2>1, SocketTypes DEF PairInv, WaitInv
    <2>3. Timing(s)!Issue
      BY <1>1, <2>1, <2>2 DEF Timing!Issue
    <2>. QED BY <2>3 DEF Timing!Next
  <1>. QED BY <1>2, <1>3

LEMMA ReplyAnswers ==
  ASSUME TypeOK, NEW s \in Sockets, PairInv(s), NEW t \in Sockets, HandleReply(t)
  PROVE  [Timing(s)!Next]_(Timing(s)!vars)
  <1>1. sent' = sent
    BY DEF HandleReply
  <1>2. CASE s # t
    <2>1. answered'[s] = answered[s] /\ sample'[s] = sample[s]
      BY <1>2, Domains DEF HandleReply
    <2>. QED BY <1>1, <2>1 DEF Timing!vars
  <1>3. CASE s = t
    <2>1. /\ sent[s] = answered[s] + 1 /\ Head(rxq[s]) = sent[s]
          /\ TxTime(s) \in {0, sent[s]}
      BY <1>3, ReplyPaired
    <2>2. /\ answered'[s] = answered[s] + 1
          /\ sample'[s] = IF TxTime(s) = 0 THEN sample[s]
                          ELSE [reply |-> Head(rxq[s]), request |-> TxTime(s)]
      BY <1>3, Domains DEF HandleReply
    <2>3. answered[s] < sent[s]
      BY <2>1, SocketTypes
    <2>4. CASE TxTime(s) = 0
      <3>1. Timing(s)!Answer
        BY <1>1, <2>2, <2>3, <2>4 DEF Timing!Answer
      <3>. QED BY <3>1 DEF Timing!Next
    <2>5. CASE TxTime(s) # 0
      <3>1. sample'[s] = [reply |-> answered'[s], request |-> answered'[s]]
        BY <2>1, <2>2, <2>5
      <3>2. Timing(s)!AnswerTimed
        BY <1>1, <2>2, <2>3, <3>1 DEF Timing!AnswerTimed
      <3>. QED BY <3>2 DEF Timing!Next
    <2>. QED BY <2>4, <2>5
  <1>. QED BY <1>2, <1>3

\* In a clean network every socket implements RequestTiming with one request at
\* most: replies are told to requests in order, and a sample is measured from
\* the transmission of the request that was answered (tp_udp.c:355-457).
THEOREM SocketsTimeRequests == Spec => TimesRequests
  <1>1. Init => \A s \in Sockets : Timing(s)!Init
    BY DEF Init, Timing!Init
  <1>2. IInv /\ [Next]_vars => [Clean => \A s \in Sockets :
                                  [Timing(s)!Next]_(Timing(s)!vars)]_vars
    <2>. SUFFICES ASSUME IInv, [Next]_vars, Clean, NEW s \in Sockets
                  PROVE  [Timing(s)!Next]_(Timing(s)!vars)
      OBVIOUS
    <2>0. TypeOK /\ PairInv(s)
      BY DEF IInv
    <2>1. CASE SendRequest
      BY <2>0, <2>1, SendIssues
    <2>2. ASSUME NEW t \in Sockets, HandleReply(t)
          PROVE  [Timing(s)!Next]_(Timing(s)!vars)
      BY <2>0, <2>2, ReplyAnswers
    <2>3. CASE UNCHANGED <<sent, answered, sample>>
      BY <2>3 DEF Timing!vars
    <2>. QED BY <2>1, <2>2, <2>3
             DEF Next, Thread, Network, SkipSocket, RecvTimeout, SocketFails, HandleError,
                 Transmit, StampArrives, ReplyArrives, Lose, vars, thread, network
  <1>. QED BY <1>1, <1>2, InFlightIsWaiting, PTL DEF Spec, TimesRequests
=============================================================================
