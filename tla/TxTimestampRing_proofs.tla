----------------------- MODULE TxTimestampRing_proofs -----------------------
(***************************************************************************)
(* Proofs about TxTimestampRing: as long as tx_byte_counter does not wrap  *)
(* (NoWrap), its safety properties hold for every ring size, every set of  *)
(* request lengths and any number of retransmissions.                      *)
(***************************************************************************)
EXTENDS TxTimestampRing, SequenceTheorems, TLAPS

-----------------------------------------------------------------------------
(* Slots of the ring.                                                      *)

\* Every cursor has a slot (the % of add_pending and pop_pending).
LEMMA SlotInRange == ASSUME NEW i \in Nat PROVE i % Max \in Slots
  BY RingAssumption DEF Slots

\* A counter below its modulus is not reduced.
LEMMA NotReduced == ASSUME NEW m \in Nat, NEW x \in Nat, x < m PROVE x % m = x
  OBVIOUS

\* Two cursors less than a turn of the ring apart have different slots.
LEMMA SlotsDiffer ==
  ASSUME NEW i \in Nat, NEW j \in Nat, i < j, j - i < Max
  PROVE  (i % Max) # (j % Max)
<1>. DEFINE qi == i \div Max
            qj == j \div Max
<1>1. /\ i = Max * qi + (i % Max) /\ j = Max * qj + (j % Max)
      /\ qi \in Nat /\ qj \in Nat
  BY RingAssumption
<1>2. SUFFICES ASSUME (i % Max) = (j % Max) PROVE FALSE
  OBVIOUS
<1>3. j - i = Max * qj - Max * qi
  BY <1>1, <1>2, RingAssumption
<1>. HIDE DEF qi, qj
<1>4. j - i = Max * (qj - qi)
  BY <1>1, <1>3, RingAssumption
<1>5. CASE qj - qi <= 0
  BY <1>1, <1>4, <1>5, RingAssumption
<1>6. CASE qj - qi >= 1
  <2>1. Max * (qj - qi) >= Max
    BY <1>1, <1>6, RingAssumption
  <2>. QED BY <2>1, <1>4, RingAssumption
<1>. QED BY <1>1, <1>5, <1>6

-----------------------------------------------------------------------------
(* The inductive invariant.                                                *)

\* The empty ring of a new connection satisfies it.
LEMMA InitIInv == Init => IInv
<1>. SUFFICES ASSUME Init PROVE IInv
  OBVIOUS
<1>1. TypeOK
  <2>1. ends \in Seq(Nat) /\ Len(ends) = head
    BY EmptySeq DEF Init
  <2>2. stamps \in Seq([key : Nat, packet : Nat])
    BY EmptySeq DEF Init
  <2>3. pending \in [Slots -> [optid : Nat, time : Nat]]
    BY DEF Init
  <2>4. sample \in [reply : Nat, packet : Nat]
    BY DEF Init
  <2>5. closed \in BOOLEAN /\ cuts \subseteq Nat
    BY DEF Init
  <2>6. /\ counter \in Nat /\ head \in Nat /\ tail \in Nat /\ consumed \in Nat
        /\ pendingReqs \in Int /\ toPop \in Nat /\ xmit \in Nat
        /\ replied \in Nat /\ retransmits \in Nat
    BY DEF Init
  <2>7. /\ pc \in {"loop", "pop", "err", "ended", "hung"}
        /\ toPop = 0 <=> pc # "pop"
    BY DEF Init
  <2>8. visible \in 0..Len(stamps)
    BY EmptySeq DEF Init
  <2>. QED BY <2>1, <2>2, <2>3, <2>4, <2>5, <2>6, <2>7, <2>8 DEF TypeOK
<1>2. EndsInv /\ ProgressInv
  BY RingAssumption DEF Init, EndsInv, ProgressInv, Total, Read
<1>3. PendingInv /\ StampsInv
  BY DEF Init, PendingInv, StampsInv
<1>4. CursorsInOrder /\ SampleOfOwnPacket /\ MatchLoopStops
  BY RingAssumption DEF Init, CursorsInOrder, SampleOfOwnPacket, MatchLoopStops, Read
<1>. QED BY <1>1, <1>2, <1>3, <1>4 DEF IInv

\* Steps that touch neither the ring nor the timestamps under way: the thread
\* gives up, reads replies, sees the end of the stream, leaves get_tx_timestamp
\* without an entry; a reply or a timestamp arrives.
LEMMA QuietStep ==
  ASSUME IInv,
         \/ SendFails \/ ReceiveFails
         \/ \E n \in 1..Max : ReceiveReplies(n)
         \/ PeerCloses \/ ErrorEventDone
         \/ StampArrives \/ ReplyArrives \/ UNCHANGED vars
  PROVE  IInv'
<1>1. UNCHANGED <<counter, head, tail, consumed, pending, ends, cuts, xmit,
                  stamps, sample, retransmits>>
  BY DEF SendFails, ReceiveFails, ReceiveReplies, PeerCloses, ErrorEventDone,
         StampArrives, ReplyArrives, vars, ring, thread, network
<1>2. /\ toPop' = 0 <=> pc' # "pop"
      /\ pendingReqs' \in Int /\ toPop' \in Nat /\ replied' \in Nat
      /\ pc' \in {"loop", "pop", "err", "ended"}
      /\ CursorsInOrder'
      /\ Read' <= replied' /\ replied' <= xmit' /\ xmit' <= head'
  <2>0. /\ pendingReqs \in Int /\ toPop \in Nat /\ replied \in Nat /\ xmit \in Nat
        /\ consumed \in Nat /\ tail \in Nat /\ head \in Nat /\ Max \in Nat
        /\ pc \in {"loop", "pop", "err", "ended"}
        /\ toPop = 0 <=> pc # "pop"
        /\ CursorsInOrder
        /\ Read <= replied /\ replied <= xmit /\ xmit <= head
    BY RingAssumption DEF IInv, TypeOK, ProgressInv, MatchLoopStops
  <2>. USE <2>0 DEF CursorsInOrder, Read, ring, network
  <2>1. CASE SendFails
    BY <2>1 DEF SendFails
  <2>2. CASE \E n \in 1..Max : ReceiveReplies(n)
    BY <2>2 DEF ReceiveReplies
  <2>3. CASE PeerCloses
    BY <2>3 DEF PeerCloses
  <2>4. CASE ErrorEventDone
    BY <2>4 DEF ErrorEventDone
  <2>5. CASE ReplyArrives
    BY <2>5 DEF ReplyArrives, thread
  <2>6. CASE UNCHANGED vars
    BY <2>6 DEF vars, thread
  <2>7. CASE ReceiveFails
    BY <2>7 DEF ReceiveFails
  <2>8. CASE StampArrives
    BY <2>8 DEF StampArrives, thread
  <2>. QED BY <2>1, <2>2, <2>3, <2>4, <2>5, <2>6, <2>7, <2>8
<1>3. closed' \in BOOLEAN /\ visible' \in 0..Len(stamps')
  <2>1. closed' \in BOOLEAN
    BY DEF IInv, TypeOK, SendFails, ReceiveFails, ReceiveReplies, PeerCloses,
           ErrorEventDone, StampArrives, ReplyArrives, vars, thread
  <2>2. visible \in 0..Len(stamps) /\ Len(stamps) \in Nat
    BY LenProperties DEF IInv, TypeOK
  <2>3. ASSUME ~StampArrives PROVE visible' \in 0..Len(stamps)
    <3>1. visible' = visible
      BY <2>3 DEF SendFails, ReceiveFails, ReceiveReplies, PeerCloses,
                  ErrorEventDone, ReplyArrives, vars, network
    <3>. QED BY <2>2, <3>1
  <2>4. stamps' = stamps
    BY <1>1
  <2>5. visible' \in 0..Len(stamps)
    <3>1. CASE StampArrives
      BY <2>2, <3>1 DEF StampArrives
    <3>. QED BY <2>3, <3>1
  <2>. QED BY <2>1, <2>4, <2>5
<1>4. TypeOK' /\ MatchLoopStops'
  <2>1. TypeOK
    BY DEF IInv
  <2>2. /\ pc' \in {"loop", "pop", "err", "ended", "hung"}
        /\ pc' # "hung"
    BY <1>2
  <2>. QED BY <1>1, <1>2, <1>3, <2>1, <2>2, Zenon DEF TypeOK, MatchLoopStops
<1>5. EndsInv' /\ ProgressInv' /\ PendingInv' /\ StampsInv' /\ SampleOfOwnPacket'
  BY <1>1, <1>2 DEF IInv, EndsInv, Total, ProgressInv, PendingInv, StampsInv,
                    SampleOfOwnPacket, CarriedBy
<1>. QED BY <1>2, <1>4, <1>5 DEF IInv

\* What the error queue needs to stay in order when packet b is stamped: b was
\* stamped before, or is past every packet sent.
LEMMA StampAppended ==
  ASSUME NoWrap, IInv, NEW b \in 1..head,
         stamps' = Append(stamps, Stamp(b)),
         cuts' = cuts \cup {b},
         UNCHANGED <<ends, tail, visible>>,
         b \in cuts \/ \A c \in cuts : c < b
  PROVE  /\ stamps' \in Seq([key : Nat, packet : Nat])
         /\ visible' \in 0..Len(stamps')
         /\ StampsInv'
<1>. DEFINE L == Len(stamps)
<1>1. /\ ends[b] \in Nat /\ 1 <= ends[b] /\ ends[b] <= MaxBytes
      /\ b \in Nat /\ tail \in Nat /\ cuts \subseteq Nat
      /\ stamps \in Seq([key : Nat, packet : Nat]) /\ L \in Nat
  BY RingAssumption, LenProperties DEF IInv, TypeOK, EndsInv
<1>2. Stamp(b) = [key |-> ends[b] - 1, packet |-> b]
  <2>1. (ends[b] - 1) % Modulus = ends[b] - 1
    <3>1. ends[b] - 1 \in Nat /\ ends[b] - 1 < Modulus /\ Modulus \in Nat
      BY <1>1, RingAssumption DEF NoWrap
    <3>. QED BY <3>1, NotReduced
  <2>. QED BY <2>1 DEF Stamp
<1>3. Stamp(b) \in [key : Nat, packet : Nat]
  BY <1>1, <1>2
<1>4. /\ stamps' \in Seq([key : Nat, packet : Nat]) /\ Len(stamps') = L + 1
      /\ \A q \in 1..L : stamps'[q] = stamps[q]
      /\ stamps'[L + 1] = Stamp(b)
  BY <1>1, <1>3, AppendProperties
<1>. HIDE DEF L
<1>5. /\ \A q \in 1..L : /\ stamps[q].packet \in cuts
                         /\ stamps[q].key = ends[stamps[q].packet] - 1
      /\ \A c \in cuts : c <= tail \/ \E q \in 1..L : stamps[q].packet = c
      /\ \A q \in 1..L : \A c \in cuts :
           c < stamps[q].packet =>
             c <= tail \/ \E p \in 1..q - 1 : stamps[p].packet = c
  BY DEF IInv, StampsInv, L
<1>6. ASSUME NEW q \in 1..L + 1
      PROVE  /\ stamps'[q].packet \in cuts'
             /\ stamps'[q].key = ends'[stamps'[q].packet] - 1
  <2>1. CASE q = L + 1
    BY <1>2, <1>4, <2>1
  <2>2. CASE q # L + 1
    <3>1. q \in 1..L
      BY <2>2, <1>1
    <3>. QED BY <3>1, <1>4, <1>5
  <2>. QED BY <2>1, <2>2
<1>7. ASSUME NEW c \in cuts'
      PROVE  c <= tail \/ \E q \in 1..L + 1 : stamps'[q].packet = c
  <2>1. CASE c = b
    <3>1. L + 1 \in 1..L + 1 /\ stamps'[L + 1].packet = c
      BY <1>1, <1>2, <1>4, <2>1
    <3>. QED BY <3>1
  <2>2. CASE c # b
    <3>1. c \in cuts
      BY <2>2
    <3>2. CASE \E q \in 1..L : stamps[q].packet = c
      <4>1. PICK q \in 1..L : stamps[q].packet = c
        BY <3>2
      <4>2. q \in 1..L + 1 /\ stamps'[q].packet = c
        BY <1>1, <1>4, <4>1
      <4>. QED BY <4>2
    <3>. QED BY <3>1, <3>2, <1>5
  <2>. QED BY <2>1, <2>2
<1>8. ASSUME NEW q \in 1..L + 1, NEW c \in cuts', c < stamps'[q].packet
      PROVE  c <= tail \/ \E p \in 1..q - 1 : stamps'[p].packet = c
  <2>1. CASE q = L + 1
    <3>1. stamps'[q].packet = b
      BY <1>2, <1>4, <2>1
    <3>2. c \in cuts /\ c # b /\ q - 1 = L
      BY <1>1, <1>8, <2>1, <3>1
    <3>. QED BY <1>4, <1>5, <3>2
  <2>2. CASE q # L + 1
    <3>1. q \in 1..L /\ stamps'[q] = stamps[q]
      BY <1>1, <1>4, <2>2
    <3>2. stamps[q].packet \in cuts /\ c < stamps[q].packet
      BY <1>5, <1>8, <3>1
    <3>3. c \in cuts
      <4>1. CASE \A d \in cuts : d < b
        <5>1. PICK d \in cuts : c < d /\ d < b
          BY <3>2, <4>1
        <5>2. c # b
          BY <1>1, <5>1
        <5>. QED BY <5>2
      <4>. QED BY <4>1
    <3>4. c <= tail \/ \E p \in 1..q - 1 : stamps[p].packet = c
      BY <1>5, <3>1, <3>2, <3>3
    <3>5. \A p \in 1..q - 1 : p \in 1..L
      BY <1>1, <3>1
    <3>. QED BY <1>4, <3>4, <3>5
  <2>. QED BY <2>1, <2>2
<1>9. tail' = tail /\ Len(stamps') = L + 1
  BY <1>4
<1>10. StampsInv'
  BY <1>6, <1>7, <1>8, <1>9 DEF StampsInv
<1>11. visible' \in 0..Len(stamps')
  <2>1. visible \in 0..L
    BY DEF IInv, TypeOK, L
  <2>. QED BY <1>1, <1>9, <2>1
<1>. QED BY <1>4, <1>10, <1>11

\* The NIC sends a packet and stamps it (Transmit).
LEMMA TransmitStep ==
  ASSUME NoWrap, IInv, NEW b \in 1..head, Transmit(b)
  PROVE  IInv'
<1>. USE DEF Transmit, ring, thread
<1>1. /\ xmit \in Nat /\ head \in Nat /\ replied \in Nat /\ b \in Nat
      /\ b \in xmit + 1 .. head /\ xmit < b /\ b <= head
      /\ replied <= xmit /\ cuts \subseteq 1..xmit
  BY DEF IInv, TypeOK, ProgressInv
<1>2. UNCHANGED <<counter, head, tail, consumed, pending, pendingReqs, closed,
                  pc, toPop, sample, ends, replied, visible, retransmits>>
  OBVIOUS
<1>3. \A c \in cuts : c \in Nat /\ c < b
  BY <1>1
<1>4. /\ stamps' \in Seq([key : Nat, packet : Nat])
      /\ visible' \in 0..Len(stamps') /\ StampsInv'
  BY <1>2, <1>3, StampAppended
<1>5. TypeOK'
  <2>1. xmit' \in Nat /\ cuts' \subseteq Nat
    BY <1>1, <1>3
  <2>2. TypeOK
    BY DEF IInv
  <2>. QED BY <1>2, <1>4, <2>1, <2>2, Zenon DEF TypeOK
<1>6. CursorsInOrder' /\ MatchLoopStops' /\ EndsInv'
  BY <1>2 DEF IInv, CursorsInOrder, MatchLoopStops, EndsInv, Read, Total
<1>7. ProgressInv'
  <2>1. cuts' \subseteq 1..xmit' /\ replied <= b
    BY <1>1, <1>3
  <2>. QED BY <1>1, <1>2, <2>1 DEF IInv, ProgressInv, Read
<1>8. ASSUME NEW j \in Nat, NEW p, CarriedBy(j, p) PROVE CarriedBy(j, p)'
  BY <1>3, <1>8 DEF CarriedBy
<1>9. PendingInv'
  <2>1. \A i \in consumed..tail - 1 : i + 1 \in Nat
    BY DEF IInv, TypeOK
  <2>. QED BY <1>2, <1>8, <2>1 DEF IInv, PendingInv
<1>10. SampleOfOwnPacket'
  BY <1>2, <1>8 DEF IInv, TypeOK, SampleOfOwnPacket
<1>. QED BY <1>4, <1>5, <1>6, <1>7, <1>9, <1>10 DEF IInv

\* The NIC sends a packet again and stamps it again (Retransmit).
LEMMA RetransmitStep ==
  ASSUME NoWrap, IInv, NEW b \in 1..head, Retransmit(b)
  PROVE  IInv'
<1>. USE DEF Retransmit, ring, thread
<1>1. UNCHANGED <<counter, head, tail, consumed, pending, pendingReqs, closed,
                  pc, toPop, sample, ends, cuts, xmit, replied, visible>>
  OBVIOUS
<1>2. cuts' = cuts \cup {b}
  OBVIOUS
<1>3. /\ stamps' \in Seq([key : Nat, packet : Nat])
      /\ visible' \in 0..Len(stamps') /\ StampsInv'
  BY <1>1, <1>2, StampAppended
<1>4. TypeOK'
  <2>1. retransmits' \in Nat
    BY DEF IInv, TypeOK
  <2>2. TypeOK
    BY DEF IInv
  <2>. QED BY <1>1, <1>3, <2>1, <2>2, Zenon DEF TypeOK
<1>5. CursorsInOrder' /\ MatchLoopStops' /\ EndsInv' /\ ProgressInv'
  BY <1>1 DEF IInv, CursorsInOrder, MatchLoopStops, EndsInv, ProgressInv, Read,
              Total
<1>6. PendingInv' /\ SampleOfOwnPacket'
  BY <1>1 DEF IInv, PendingInv, SampleOfOwnPacket, CarriedBy
<1>. QED BY <1>3, <1>4, <1>5, <1>6 DEF IInv

\* A reply is matched and its slot released (Pop).
LEMMA PopStep ==
  ASSUME IInv, Pop
  PROVE  IInv'
<1>. USE DEF Pop, LastOfRead, network
<1>1. /\ consumed \in Nat /\ tail \in Nat /\ head \in Nat /\ toPop \in Nat
      /\ Max \in Nat /\ toPop # 0 /\ consumed < tail
      /\ consumed' = consumed + 1 /\ toPop' = toPop - 1
  BY RingAssumption DEF IInv, TypeOK
<1>2. UNCHANGED <<counter, head, tail, pending, pendingReqs, closed, ends, cuts,
                  xmit, replied, stamps, visible, retransmits>>
  OBVIOUS
<1>3. CursorsInOrder' /\ Read' = Read
  BY <1>1, <1>2 DEF IInv, CursorsInOrder, Read
<1>4. EndsInv' /\ ProgressInv' /\ StampsInv'
  <2>1. EndsInv' /\ StampsInv'
    BY <1>2 DEF IInv, EndsInv, StampsInv, Total
  <2>2. ProgressInv'
    BY <1>2, <1>3, Zenon DEF IInv, ProgressInv
  <2>. QED BY <2>1, <2>2
<1>5. PendingInv'
  <2>1. /\ \A i \in consumed + 1 .. head - 1 : i \in consumed .. head - 1
        /\ \A i \in consumed + 1 .. tail - 1 : i \in consumed .. tail - 1
    BY <1>1
  <2>. QED BY <1>1, <1>2, <2>1 DEF IInv, PendingInv, CarriedBy
<1>6. pending[consumed % Max].time \in Nat
      /\ CarriedBy(consumed + 1, pending[consumed % Max].time)
  <2>1. consumed % Max \in Slots /\ consumed \in consumed .. tail - 1
    BY <1>1, SlotInRange
  <2>. QED BY <2>1 DEF IInv, TypeOK, PendingInv
<1>7. SampleOfOwnPacket'
  <2>1. CASE toPop = 1
    BY <1>1, <1>2, <1>6, <2>1 DEF SampleOfOwnPacket, CarriedBy
  <2>2. CASE toPop # 1
    BY <1>2, <2>2 DEF IInv, SampleOfOwnPacket, CarriedBy
  <2>. QED BY <2>1, <2>2
<1>8. TypeOK' /\ MatchLoopStops'
  <2>1. /\ consumed' \in Nat /\ toPop' \in Nat
        /\ sample' \in [reply : Nat, packet : Nat]
        /\ pc' \in {"loop", "pop", "err", "ended", "hung"} /\ pc' # "hung"
        /\ toPop' = 0 <=> pc' # "pop"
    BY <1>1, <1>6 DEF IInv, TypeOK
  <2>2. TypeOK
    BY DEF IInv
  <2>. QED BY <1>2, <2>1, <2>2, Zenon DEF TypeOK, MatchLoopStops
<1>. QED BY <1>3, <1>4, <1>5, <1>7, <1>8 DEF IInv

\* A request is sent and its slot taken (SendRequest).
LEMMA SendRequestStep ==
  ASSUME NoWrap, IInv, NEW len \in Lengths, SendRequest(len)
  PROVE  IInv'
<1>. DEFINE end == Total + len
<1>0. /\ pc = "loop" /\ pendingReqs < Max /\ end <= MaxBytes
      /\ counter' = (counter + len) % Modulus
      /\ pending' = [pending EXCEPT ![head % Max].optid = counter']
      /\ head' = head + 1 /\ pendingReqs' = pendingReqs + 1
      /\ ends' = Append(ends, end)
  BY Zenon DEF SendRequest, Pickable
<1>1. /\ consumed \in Nat /\ tail \in Nat /\ head \in Nat /\ toPop \in Nat
      /\ toPop = 0
      /\ Max \in Nat /\ len \in Nat /\ len >= 1 /\ pendingReqs \in Int
      /\ ends \in Seq(Nat) /\ Len(ends) = head
      /\ MaxBytes \in Nat /\ Modulus \in Nat /\ MaxBytes < Modulus
      /\ CursorsInOrder /\ ProgressInv
      /\ xmit \in Nat /\ replied \in Nat
  <2>1. /\ Max \in Nat /\ len \in Nat /\ len >= 1
        /\ MaxBytes \in Nat /\ Modulus \in Nat /\ MaxBytes < Modulus
    BY RingAssumption DEF NoWrap
  <2>. QED BY <1>0, <2>1 DEF IInv, TypeOK
<1>2. UNCHANGED <<tail, consumed, closed, pc, toPop, sample, cuts, xmit, replied,
                  stamps, visible, retransmits>>
  BY DEF SendRequest, Pickable
<1>3. /\ Total \in Nat /\ counter = Total
      /\ \A i \in 1..head : ends[i] \in 1..MaxBytes /\ ends[i] <= Total
  <2>1. CASE head = 0
    BY <1>1, <2>1 DEF IInv, EndsInv, Total
  <2>2. CASE head # 0
    <3>1. head \in 1..head /\ Total = ends[head]
      BY <1>1, <2>2 DEF Total
    <3>2. \A i \in 1..head : i = head \/ i < head
      BY <1>1
    <3>3. /\ \A i \in 1..head : ends[i] \in 1..MaxBytes
          /\ \A i, j \in 1..head : i < j => ends[i] < ends[j]
          /\ counter = Total
      BY DEF IInv, EndsInv
    <3>. QED BY <1>1, <3>1, <3>2, <3>3
  <2>. QED BY <2>1, <2>2
<1>4. /\ end \in Nat /\ 1 <= end /\ end <= MaxBytes /\ counter' = end
  <2>1. end \in Nat /\ 1 <= end /\ end <= MaxBytes /\ end < Modulus
    <3>1. PICK t \in Nat : t = Total
      BY <1>3
    <3>2. t + len \in Nat /\ 1 <= t + len /\ t + len <= MaxBytes /\ t + len < Modulus
      BY <1>0, <1>1, <3>1
    <3>. QED BY <3>1, <3>2
  <2>2. end % Modulus = end
    BY <1>1, <2>1, NotReduced
  <2>. QED BY <1>0, <1>3, <2>1, <2>2
<1>5. pending' = [pending EXCEPT ![head % Max].optid = end]
  BY <1>0, <1>4
<1>. HIDE DEF end
<1>6. /\ ends' \in Seq(Nat) /\ Len(ends') = head + 1
      /\ \A i \in 1..head : ends'[i] = ends[i]
      /\ ends'[head + 1] = end
  <2>1. /\ ends' \in Seq(Nat) /\ Len(ends') = Len(ends) + 1
        /\ \A i \in 1..Len(ends) : ends'[i] = ends[i]
        /\ ends'[Len(ends) + 1] = end
    <3>1. ends' = Append(ends, end) /\ ends \in Seq(Nat) /\ end \in Nat
      BY <1>0, <1>1, <1>4
    <3>. QED BY ONLY <3>1, AppendProperties, ZenonT(60)
  <2>. QED BY <1>1, <2>1
<1>7. /\ \A i \in 1..head + 1 : i \in 1..head \/ i = head + 1
      /\ \A i \in 1..head : i \in 1..head + 1 /\ i # head + 1
  BY <1>1
<1>8. /\ head % Max \in Slots
      /\ pending \in [Slots -> [optid : Nat, time : Nat]]
      /\ head - consumed < Max
  <2>1. head - consumed < Max
    BY <1>0, <1>1 DEF CursorsInOrder, Read
  <2>. QED BY <1>1, <2>1, SlotInRange DEF IInv, TypeOK
<1>9. EndsInv'
  <2>1. \A i \in 1..head + 1 : ends'[i] \in 1..MaxBytes
    BY <1>1, <1>3, <1>4, <1>6, <1>7, SMTT(30)
  <2>2. ASSUME NEW i \in 1..head + 1, NEW j \in 1..head + 1, i < j
        PROVE  ends'[i] < ends'[j]
    <3>1. i \in 1..head
      BY <1>1, <2>2
    <3>2. CASE j = head + 1
      <4>1. Total < end
        BY <1>1, <1>3 DEF end
      <4>2. ends[i] \in Nat /\ ends[i] <= Total
        BY <1>1, <1>3, <3>1
      <4>3. ends[i] < end
        BY <1>3, <1>4, <4>1, <4>2
      <4>. QED BY <1>6, <3>1, <3>2, <4>3
    <3>3. CASE j \in 1..head
      BY <1>6, <2>2, <3>1, <3>3 DEF IInv, EndsInv
    <3>. QED BY <1>7, <3>2, <3>3
  <2>3. counter' = Total'
    BY <1>0, <1>1, <1>4, <1>6 DEF Total
  <2>. QED BY <1>0, <2>1, <2>2, <2>3 DEF EndsInv
<1>10. PendingInv'
  <2>1. ASSUME NEW i \in consumed .. head
        PROVE  pending'[i % Max].optid = ends'[i + 1]
    <3>1. CASE i = head
      BY <1>1, <1>5, <1>6, <1>8, <3>1
    <3>2. CASE i # head
      <4>1. /\ i \in Nat /\ i \in consumed .. head - 1 /\ i < head
            /\ head - i < Max /\ i + 1 \in 1..head
        BY <1>1, <1>8, <3>2
      <4>2. (i % Max) # (head % Max) /\ i % Max \in Slots
        BY <1>1, <4>1, SlotsDiffer, SlotInRange
      <4>3. pending'[i % Max] = pending[i % Max]
        BY <1>5, <1>8, <4>2
      <4>4. pending[i % Max].optid = ends[i + 1]
        BY <4>1 DEF IInv, PendingInv
      <4>. QED BY <1>6, <4>1, <4>3, <4>4
    <3>. QED BY <3>1, <3>2
  <2>2. ASSUME NEW i \in consumed .. tail - 1
        PROVE  CarriedBy(i + 1, pending[i % Max].time)
               /\ pending'[i % Max].time = pending[i % Max].time
    <3>1. i \in Nat
      BY <1>1
    <3>2. i % Max \in Slots
      BY <3>1, SlotInRange
    <3>. QED BY <1>5, <1>8, <3>2 DEF IInv, PendingInv
  <2>3. /\ consumed' .. head' - 1 = consumed .. head
        /\ consumed' .. tail' - 1 = consumed .. tail - 1
    BY <1>0, <1>1, <1>2
  <2>4. \A j, p : CarriedBy(j, p)' <=> CarriedBy(j, p)
    BY <1>2 DEF CarriedBy
  <2>. QED BY <2>1, <2>2, <2>3, <2>4, Zenon DEF PendingInv
<1>11. StampsInv'
  <2>1. \A q \in 1..Len(stamps) : ends'[stamps[q].packet] = ends[stamps[q].packet]
    <3>1. \A c \in cuts : c \in 1..head
      BY <1>1 DEF IInv, TypeOK, ProgressInv
    <3>. QED BY <1>6, <3>1 DEF IInv, StampsInv
  <2>. QED BY <1>2, <2>1 DEF IInv, StampsInv
<1>12. CursorsInOrder' /\ ProgressInv' /\ SampleOfOwnPacket' /\ MatchLoopStops'
  <2>1. CursorsInOrder'
    <3>1. consumed' <= tail' /\ tail' <= head' /\ head' - consumed' <= Max
      BY <1>0, <1>1, <1>2, <1>8, SMTT(30) DEF CursorsInOrder
    <3>2. pendingReqs' = head' - Read' /\ pendingReqs' >= 0
      BY <1>0, <1>1, <1>2, SMTT(30) DEF CursorsInOrder, Read
    <3>. QED BY <3>1, <3>2 DEF CursorsInOrder
  <2>2. ProgressInv'
    BY <1>0, <1>1, <1>2, SMTT(30) DEF ProgressInv, Read
  <2>. QED BY <1>2, <2>1, <2>2 DEF IInv, SampleOfOwnPacket, CarriedBy, MatchLoopStops
<1>13. TypeOK'
  <2>1. pending' \in [Slots -> [optid : Nat, time : Nat]]
    BY <1>4, <1>5, <1>8
  <2>2. counter' \in Nat /\ head' \in Nat /\ Len(ends') = head'
    BY <1>0, <1>1, <1>4, <1>6
  <2>3. pendingReqs' \in Int
    BY <1>0, <1>1
  <2>4. TypeOK
    BY DEF IInv
  <2>. QED BY <1>2, <1>6, <2>1, <2>2, <2>3, <2>4, Zenon DEF TypeOK
<1>. QED BY <1>9, <1>10, <1>11, <1>12, <1>13 DEF IInv

\* What the error queue needs to stay in order when its first entry is taken:
\* the tail moves to or past the entry's packet.
LEMMA EntryTaken ==
  ASSUME IInv, stamps # <<>>, stamps' = Tail(stamps),
         visible > 0, visible' = visible - 1,
         UNCHANGED <<ends, cuts>>,
         NEW t \in Nat, tail' = t, tail <= t, Head(stamps).packet <= t
  PROVE  /\ stamps' \in Seq([key : Nat, packet : Nat])
         /\ visible' \in 0..Len(stamps')
         /\ StampsInv'
<1>. DEFINE L == Len(stamps)
<1>1. /\ tail \in Nat /\ cuts \subseteq Nat
      /\ stamps \in Seq([key : Nat, packet : Nat])
  BY DEF IInv, TypeOK
<1>2. /\ L \in Nat /\ L >= 1 /\ Head(stamps) = stamps[1]
      /\ stamps' \in Seq([key : Nat, packet : Nat]) /\ Len(stamps') = L - 1
      /\ \A q \in 1..L - 1 : stamps'[q] = stamps[q + 1]
  BY <1>1, LenProperties, HeadTailProperties
<1>. HIDE DEF L
<1>3. /\ \A q \in 1..L : /\ stamps[q].packet \in cuts
                         /\ stamps[q].key = ends[stamps[q].packet] - 1
      /\ \A c \in cuts : c <= tail \/ \E q \in 1..L : stamps[q].packet = c
      /\ \A q \in 1..L : \A c \in cuts :
           c < stamps[q].packet =>
             c <= tail \/ \E p \in 1..q - 1 : stamps[p].packet = c
  BY DEF IInv, StampsInv, L
<1>4. \A c \in cuts : c <= tail \/ c = stamps[1].packet => c <= t
  BY <1>1, <1>2
<1>5. \A q \in 1..L - 1 : q + 1 \in 1..L
  BY <1>2
<1>6. ASSUME NEW c \in cuts, ~(c <= t)
      PROVE  \E q \in 1..L - 1 : stamps'[q].packet = c
  <2>1. PICK q \in 1..L : stamps[q].packet = c /\ q # 1
    BY <1>3, <1>4, <1>6
  <2>2. q - 1 \in 1..L - 1 /\ (q - 1) + 1 = q
    BY <1>2, <2>1
  <2>3. stamps'[q - 1].packet = c
    BY <1>2, <2>1, <2>2
  <2>. QED BY <2>2, <2>3
<1>7. ASSUME NEW q \in 1..L - 1, NEW c \in cuts, c < stamps'[q].packet, ~(c <= t)
      PROVE  \E p \in 1..q - 1 : stamps'[p].packet = c
  <2>1. c < stamps[q + 1].packet /\ q + 1 \in 1..L /\ (q + 1) - 1 = q
    BY <1>2, <1>5, <1>7
  <2>2. c <= tail \/ \E p \in 1..q : stamps[p].packet = c
    BY <1>3, <2>1
  <2>3. PICK p \in 1..q : stamps[p].packet = c /\ p # 1
    BY <1>4, <1>7, <2>2
  <2>4. p - 1 \in 1..q - 1 /\ p - 1 \in 1..L - 1 /\ (p - 1) + 1 = p
    BY <1>2, <2>3
  <2>5. stamps'[p - 1].packet = c
    BY <1>2, <2>3, <2>4
  <2>. QED BY <2>4, <2>5
<1>8. \A q \in 1..L - 1 : /\ stamps'[q].packet \in cuts
                         /\ stamps'[q].key = ends[stamps'[q].packet] - 1
  BY <1>2, <1>3, <1>5
<1>9. StampsInv'
  BY <1>2, <1>6, <1>7, <1>8, ZenonT(60) DEF StampsInv
<1>10. visible' \in 0..Len(stamps')
  <2>1. visible \in 0..L
    BY DEF IInv, TypeOK, L
  <2>. QED BY <1>2, <2>1
<1>. QED BY <1>2, <1>9, <1>10

\* What a call of get_tx_timestamp finds: the first entry names a packet b, its
\* key is where b ends, and the tail slot holds where its own request ends.
LEMMA FirstEntry ==
  ASSUME NoWrap, IInv, tail < head, stamps # <<>>
  PROVE  /\ Head(stamps).packet \in cuts
         /\ Head(stamps).packet \in 1..xmit
         /\ (Head(stamps).key + 1) % Modulus = ends[Head(stamps).packet]
         /\ pending[tail % Max].optid = ends[tail + 1]
         /\ \A c \in cuts : c < Head(stamps).packet => c <= tail
<1>. DEFINE b == Head(stamps).packet
<1>1. /\ Head(stamps) = stamps[1] /\ 1 \in 1..Len(stamps)
      /\ Head(stamps) \in [key : Nat, packet : Nat]
  <2>1. stamps \in Seq([key : Nat, packet : Nat])
    BY DEF IInv, TypeOK
  <2>2. Len(stamps) \in Nat /\ Len(stamps) >= 1
    BY <2>1, LenProperties
  <2>3. Head(stamps) = stamps[1] /\ 1 \in 1..Len(stamps)
    BY <2>1, <2>2
  <2>. QED BY <2>1, <2>3, HeadTailProperties
<1>2. /\ b \in cuts /\ Head(stamps).key = ends[b] - 1
      /\ \A c \in cuts : c < b => c <= tail \/ \E p \in 1..1 - 1 : stamps[p].packet = c
  BY <1>1 DEF IInv, StampsInv
<1>3. b \in 1..xmit /\ xmit \in Nat /\ head \in Nat /\ xmit <= head
  BY <1>2 DEF IInv, TypeOK, ProgressInv
<1>. HIDE DEF b
<1>4. PICK e \in 1..MaxBytes : e = ends[b]
  <2>1. b \in 1..head
    BY <1>3
  <2>. QED BY <2>1 DEF IInv, EndsInv
<1>5. e \in Nat /\ e < Modulus /\ Modulus \in Nat /\ (e - 1) + 1 = e
  BY RingAssumption DEF NoWrap
<1>6. (Head(stamps).key + 1) % Modulus = ends[b]
  <2>1. (Head(stamps).key + 1) % Modulus = e % Modulus
    BY <1>2, <1>4, <1>5
  <2>. QED BY <1>4, <1>5, <2>1, NotReduced
<1>7. pending[tail % Max].optid = ends[tail + 1]
  <2>1. tail \in consumed .. head - 1
    BY DEF IInv, TypeOK, CursorsInOrder
  <2>. QED BY <2>1 DEF IInv, PendingInv
<1>8. 1..1 - 1 = {}
  OBVIOUS
<1>. QED BY <1>2, <1>3, <1>6, <1>7, <1>8 DEF b

\* The matching loop, given a packet past the tail, stops exactly at it.
LEMMA LoopStopsAtPacket ==
  ASSUME IInv, NEW b \in cuts, b \in 1..head, tail < b,
         NEW n \in tail + 1 .. tail + Max
  PROVE  /\ b \in tail + 1 .. tail + Max
         /\ StopsAt(b, ends[b])
         /\ StopsAt(n, ends[b]) /\ (\A m \in tail + 1 .. n - 1 : ~StopsAt(m, ends[b]))
              => n = b
<1>1. /\ tail \in Nat /\ head \in Nat /\ consumed \in Nat /\ Max \in Nat
      /\ b \in Nat /\ n \in Nat /\ b <= head
      /\ consumed <= tail /\ head - consumed <= Max
  BY RingAssumption DEF IInv, TypeOK, CursorsInOrder
<1>2. \A i \in consumed .. head - 1 : pending[i % Max].optid = ends[i + 1]
  BY DEF IInv, PendingInv
<1>3. /\ \A i \in 1..head : ends[i] \in Nat
      /\ \A i, j \in 1..head : i < j => ends[i] < ends[j]
  BY DEF IInv, TypeOK, EndsInv
<1>4. b \in tail + 1 .. tail + Max
  BY <1>1
<1>5. StopsAt(b, ends[b])
  <2>1. b - 1 \in consumed .. head - 1 /\ (b - 1) + 1 = b
    BY <1>1
  <2>. QED BY <1>2, <2>1 DEF StopsAt
<1>6. ASSUME StopsAt(n, ends[b]), \A m \in tail + 1 .. n - 1 : ~StopsAt(m, ends[b]),
             n # b
      PROVE  FALSE
  <2>1. n < b
    <3>1. CASE b < n
      <4>1. b \in tail + 1 .. n - 1
        BY <1>1, <3>1
      <4>. QED BY <1>5, <1>6, <4>1
    <3>. QED BY <1>1, <1>6, <3>1
  <2>2. /\ n - 1 \in consumed .. head - 1 /\ (n - 1) + 1 = n
        /\ n \in consumed .. head - 1
        /\ n \in 1..head /\ n + 1 \in 1..head /\ (n + 1 < b \/ n + 1 = b)
    BY <1>1, <2>1
  <2>3. pending[(n - 1) % Max].optid = ends[n] /\ pending[n % Max].optid = ends[n + 1]
    BY <1>2, <2>2
  <2>4. ends[n] < ends[b] /\ (ends[n + 1] < ends[b] \/ ends[n + 1] = ends[b])
    BY <1>3, <2>1, <2>2
  <2>5. /\ ends[n] \in Nat /\ ends[n + 1] \in Nat /\ ends[b] \in Nat
    BY <1>3, <2>2
  <2>6. ends[n] # ends[b] /\ ~(ends[n + 1] > ends[b])
    BY <2>4, <2>5
  <2>. QED BY <1>6, <2>3, <2>6 DEF StopsAt
<1>. QED BY <1>4, <1>5, <1>6

\* A call of get_tx_timestamp takes an entry: a resubmission is dropped, any
\* other is given to the requests of its packet and the matching loop stops.
LEMMA EntryStep ==
  ASSUME NoWrap, IInv,
         NEW again \in {"pop", "err"}, NEW next \in {"pop", "loop"},
         again = "pop" <=> toPop # 0, next = "pop" <=> toPop # 0,
         GetTxTimestamp(again, next)
  PROVE  IInv'
<1>. DEFINE b == Head(stamps).packet
            key == (Head(stamps).key + 1) % Modulus
<1>1. /\ tail < head /\ stamps # <<>> /\ stamps' = Tail(stamps)
      /\ visible > 0 /\ visible' = visible - 1
      /\ IF key < pending[tail % Max].optid
         THEN pc' = again /\ UNCHANGED <<pending, tail>>
         ELSE Match(key, b, next)
  <2>1. /\ tail < head /\ stamps' = Tail(stamps)
        /\ visible > 0 /\ visible' = visible - 1
        /\ IF key < pending[tail % Max].optid
           THEN pc' = again /\ UNCHANGED <<pending, tail>>
           ELSE Match(key, b, next)
    BY Zenon DEF GetTxTimestamp, Resubmission
  <2>2. visible \in 0..Len(stamps) /\ stamps \in Seq([key : Nat, packet : Nat])
    BY DEF IInv, TypeOK
  <2>3. stamps # <<>>
    BY <2>1, <2>2, EmptySeq
  <2>. QED BY <2>1, <2>3
<1>2. UNCHANGED <<counter, head, consumed, pendingReqs, closed, toPop, sample,
                  ends, cuts, xmit, replied, retransmits>>
  BY DEF GetTxTimestamp, Resubmission
<1>3. /\ b \in cuts /\ b \in 1..xmit /\ key = ends[b]
      /\ pending[tail % Max].optid = ends[tail + 1]
      /\ \A c \in cuts : c < b => c <= tail
  BY <1>1, FirstEntry
<1>. HIDE DEF b, key
<1>4. /\ tail \in Nat /\ head \in Nat /\ consumed \in Nat /\ Max \in Nat
      /\ xmit \in Nat /\ xmit <= head /\ toPop \in Nat
      /\ b \in Nat /\ b \in 1..head /\ cuts \subseteq Nat
      /\ consumed <= tail /\ head - consumed <= Max
      /\ pending \in [Slots -> [optid : Nat, time : Nat]]
  <2>1. /\ tail \in Nat /\ head \in Nat /\ consumed \in Nat /\ xmit \in Nat
        /\ toPop \in Nat /\ cuts \subseteq Nat
        /\ pending \in [Slots -> [optid : Nat, time : Nat]]
    BY DEF IInv, TypeOK
  <2>2. consumed <= tail /\ head - consumed <= Max
    BY DEF IInv, CursorsInOrder
  <2>3. xmit <= head
    BY DEF IInv, ProgressInv
  <2>4. b \in Nat /\ b \in 1..head /\ Max \in Nat
    BY <1>3, <2>1, <2>3, RingAssumption
  <2>. QED BY <2>1, <2>2, <2>3, <2>4
<1>5. /\ \A i \in 1..head : ends[i] \in Nat
      /\ \A i, j \in 1..head : i < j => ends[i] < ends[j]
  BY DEF IInv, TypeOK, EndsInv
<1>6. EndsInv' /\ SampleOfOwnPacket' /\ \A j, p : CarriedBy(j, p)' <=> CarriedBy(j, p)
  BY <1>2 DEF IInv, EndsInv, Total, SampleOfOwnPacket, CarriedBy
<1>7. CASE key < pending[tail % Max].optid
  <2>1. pc' = again /\ UNCHANGED <<pending, tail>>
    BY <1>1, <1>7
  <2>2. b <= tail
    <3>1. CASE tail + 1 < b
      <4>1. tail + 1 \in 1..head /\ ends[tail + 1] < ends[b]
        BY <1>4, <1>5, <3>1
      <4>2. ends[tail + 1] \in Nat /\ ends[b] \in Nat
        BY <1>4, <1>5, <4>1
      <4>3. ~(ends[b] < ends[tail + 1])
        BY <4>1, <4>2
      <4>. QED BY <1>3, <1>7, <4>3
    <3>2. CASE tail + 1 = b
      <4>1. ends[b] \in Nat
        BY <1>4, <1>5
      <4>2. ~(ends[b] < ends[b])
        BY <4>1
      <4>. QED BY <1>3, <1>7, <3>2, <4>2
    <3>. QED BY <1>4, <3>1, <3>2
  <2>3. /\ stamps' \in Seq([key : Nat, packet : Nat])
        /\ visible' \in 0..Len(stamps') /\ StampsInv'
    BY <1>1, <1>2, <1>4, <2>1, <2>2, EntryTaken DEF b
  <2>4. TypeOK' /\ MatchLoopStops'
    <3>1. /\ pc' \in {"loop", "pop", "err", "ended", "hung"} /\ pc' # "hung"
          /\ toPop = 0 <=> pc' # "pop"
      BY <2>1
    <3>2. TypeOK
      BY DEF IInv
    <3>. QED BY <1>2, <2>1, <2>3, <3>1, <3>2, Zenon DEF TypeOK, MatchLoopStops
  <2>5. CursorsInOrder' /\ ProgressInv' /\ PendingInv'
    BY <1>2, <2>1 DEF IInv, CursorsInOrder, ProgressInv, PendingInv, Read, CarriedBy
  <2>. QED BY <1>6, <2>3, <2>4, <2>5 DEF IInv
<1>8. CASE ~(key < pending[tail % Max].optid)
  <2>1. Match(key, b, next)
    BY <1>1, <1>8
  <2>2. tail < b
    <3>1. CASE b < tail + 1
      <4>1. tail + 1 \in 1..head /\ ends[b] < ends[tail + 1]
        BY <1>1, <1>4, <1>5, <3>1
      <4>. QED BY <1>3, <1>8, <4>1
    <3>. QED BY <1>4, <3>1
  <2>3. /\ b \in tail + 1 .. tail + Max /\ StopsAt(b, key)
        /\ \A n \in tail + 1 .. tail + Max :
             StopsAt(n, key) /\ (\A m \in tail + 1 .. n - 1 : ~StopsAt(m, key))
               => n = b
    BY <1>3, <1>4, <2>2, LoopStopsAtPacket
  <2>4. /\ pending' = [s \in Slots |->
                         IF \E i \in tail..b - 1 : i % Max = s
                         THEN [pending[s] EXCEPT !.time = b]
                         ELSE pending[s]]
        /\ tail' = b
        /\ pc' = next
    BY <2>1, <2>3, Zenon DEF Match
  <2>5. /\ stamps' \in Seq([key : Nat, packet : Nat])
        /\ visible' \in 0..Len(stamps') /\ StampsInv'
    BY <1>1, <1>2, <1>4, <2>2, <2>4, EntryTaken DEF b
  <2>6. pending' \in [Slots -> [optid : Nat, time : Nat]]
    BY <1>4, <2>4
  <2>7. TypeOK' /\ MatchLoopStops'
    <3>1. /\ pc' \in {"loop", "pop", "err", "ended", "hung"} /\ pc' # "hung"
          /\ toPop = 0 <=> pc' # "pop"
          /\ tail' \in Nat
      BY <1>4, <2>4
    <3>2. TypeOK
      BY DEF IInv
    <3>. QED BY <1>2, <2>5, <2>6, <3>1, <3>2, Zenon DEF TypeOK, MatchLoopStops
  <2>8. CursorsInOrder' /\ ProgressInv'
    <3>1. consumed <= b /\ b <= head
      BY <1>4, <2>2
    <3>. QED BY <1>2, <1>3, <2>4, <3>1 DEF IInv, CursorsInOrder, ProgressInv, Read
  <2>9. PendingInv'
    <3>1. ASSUME NEW i \in consumed .. head - 1
          PROVE  pending'[i % Max].optid = ends[i + 1]
      <4>1. i \in Nat
        BY <1>4
      <4>2. i % Max \in Slots
        BY <4>1, SlotInRange
      <4>3. pending'[i % Max].optid = pending[i % Max].optid
        BY <1>4, <2>4, <4>2
      <4>. QED BY <4>3 DEF IInv, PendingInv
    <3>2. ASSUME NEW i \in consumed .. b - 1
          PROVE  CarriedBy(i + 1, pending'[i % Max].time)
      <4>1. i \in Nat /\ i % Max \in Slots
        <5>1. i \in Nat
          BY <1>4
        <5>. QED BY <5>1, SlotInRange
      <4>2. CASE i < tail
        <5>1. ASSUME NEW j \in tail .. b - 1 PROVE (j % Max) # (i % Max)
          <6>1. j \in Nat /\ i < j /\ j - i < Max
            BY <1>4, <4>2
          <6>. QED BY <4>1, <6>1, SlotsDiffer
        <5>2. pending'[i % Max] = pending[i % Max]
          BY <2>4, <4>1, <5>1
        <5>3. i \in consumed .. tail - 1
          BY <1>4, <4>2
        <5>. QED BY <5>2, <5>3 DEF IInv, PendingInv
      <4>3. CASE ~(i < tail)
        <5>1. i \in tail .. b - 1 /\ i + 1 <= b /\ i + 1 \in Nat /\ tail < i + 1
          BY <1>4, <4>1, <4>3
        <5>2. pending'[i % Max].time = b
          BY <1>4, <2>4, <4>1, <5>1
        <5>3. \A c \in cuts : i + 1 <= c => b <= c
          BY <1>3, <1>4, <5>1
        <5>. QED BY <1>3, <5>1, <5>2, <5>3 DEF CarriedBy
      <4>. QED BY <4>2, <4>3
    <3>. QED BY <1>2, <1>6, <2>4, <3>1, <3>2, Zenon DEF PendingInv
  <2>. QED BY <1>6, <2>5, <2>7, <2>8, <2>9 DEF IInv
<1>. QED BY <1>7, <1>8

\* Every step of the thread and of the network keeps the invariant.
LEMMA NextIInv ==
  ASSUME NoWrap, IInv, [Next]_vars
  PROVE  IInv'
<1>1. ASSUME NEW len \in Lengths, SendRequest(len) PROVE IInv'
  BY <1>1, SendRequestStep
<1>2. CASE \/ SendFails \/ Receive \/ ReceiveFails \/ PeerCloses
           \/ ErrorEventDone \/ StampArrives \/ ReplyArrives \/ UNCHANGED vars
  BY <1>2, QuietStep DEF Receive
<1>3. CASE Pop
  BY <1>3, PopStep
<1>4. CASE AwaitTimestamp
  <2>1. toPop # 0 /\ GetTxTimestamp("pop", "pop")
    BY <1>4 DEF AwaitTimestamp, IInv, TypeOK
  <2>. QED BY <2>1, EntryStep
<1>5. CASE ErrorEvent \/ ErrorEventAgain
  <2>1. toPop = 0 /\ GetTxTimestamp("err", "loop")
    BY <1>5 DEF ErrorEvent, ErrorEventAgain, IInv, TypeOK
  <2>. QED BY <2>1, EntryStep
<1>6. ASSUME NEW b \in 1..head, Transmit(b) \/ Retransmit(b) PROVE IInv'
  BY <1>6, TransmitStep, RetransmitStep
<1>. QED BY <1>1, <1>2, <1>3, <1>4, <1>5, <1>6 DEF Next, Send, Matching, Errors

\* While tx_byte_counter has not wrapped, the invariant holds in every state.
THEOREM Invariant == ASSUME NoWrap PROVE Spec => []IInv
<1>1. IInv /\ [Next]_vars => IInv'
  BY NextIInv
<1>. QED BY <1>1, InitIInv, PTL DEF Spec

-----------------------------------------------------------------------------
(* What users of the ring rely on.                                         *)

\* Every variable keeps its type, for any ring size and any request lengths.
THEOREM TypeCorrect == ASSUME NoWrap PROVE Spec => []TypeOK
<1>1. IInv => TypeOK
  BY DEF IInv
<1>. QED BY <1>1, Invariant, PTL

\* The assertions of get_tx_timestamp and pop_pending_tx_timestamps never
\* fail and no slot of the ring is overwritten while a request uses it.
THEOREM CursorsCorrect == ASSUME NoWrap PROVE Spec => []CursorsInOrder
<1>1. IInv => CursorsInOrder
  BY DEF IInv
<1>. QED BY <1>1, Invariant, PTL

\* Every latency sample of symmetric_nic_tcp_main is measured from the packet
\* that carried its request.
THEOREM SamplesCorrect == ASSUME NoWrap PROVE Spec => []SampleOfOwnPacket
<1>1. IInv => SampleOfOwnPacket
  BY DEF IInv
<1>. QED BY <1>1, Invariant, PTL

\* The matching loop of get_tx_timestamp always stops within one turn.
THEOREM MatchingLoopStops == ASSUME NoWrap PROVE Spec => []MatchLoopStops
<1>1. IInv => MatchLoopStops
  BY DEF IInv
<1>. QED BY <1>1, Invariant, PTL

-----------------------------------------------------------------------------
(* The ring implements RequestTiming.                                      *)

\* Under the invariant the request a sample is timed against is its own.
LEMMA TimedAgainstOwn == ASSUME IInv PROVE TimedRequest = sample.reply
<1>1. sample.reply \in Nat
  BY DEF IInv, TypeOK
<1>2. sample.reply > 0 => CarriedBy(sample.reply, sample.packet)
  BY DEF IInv, SampleOfOwnPacket
<1>. QED BY <1>1, <1>2 DEF TimedRequest

LEMMA TimedAgainstOwnNext ==
  ASSUME IInv' PROVE TimedRequest' = sample'.reply
<1>1. sample'.reply \in Nat
  BY DEF IInv, TypeOK
<1>2. sample'.reply > 0 => CarriedBy(sample.reply, sample.packet)'
  BY DEF IInv, SampleOfOwnPacket
<1>. QED BY <1>1, <1>2 DEF TimedRequest

\* Every step of the ring is a step of RequestTiming or changes nothing there.
LEMMA TimingStep ==
  ASSUME IInv, IInv', [Next]_vars
  PROVE  [Timing!Next]_(Timing!vars)
<1>1. /\ head \in Nat /\ tail \in Nat /\ consumed \in Nat /\ toPop \in Nat
      /\ (toPop = 0 <=> pc # "pop")
  BY DEF IInv, TypeOK
<1>2. tail <= head /\ pendingReqs = head - (consumed + toPop)
  BY DEF IInv, CursorsInOrder, Read
<1>3. TimedRequest = sample.reply /\ TimedRequest' = sample'.reply
  BY TimedAgainstOwn, TimedAgainstOwnNext
<1>4. ASSUME NEW len \in Lengths, SendRequest(len) PROVE Timing!Issue
  <2>1. pc = "loop" /\ pendingReqs < Max /\ head' = head + 1
        /\ consumed' = consumed /\ sample' = sample
    BY <1>4 DEF SendRequest, Pickable
  <2>2. toPop = 0
    BY <1>1, <2>1
  <2>3. head - consumed < Max
    BY <1>1, <1>2, <2>1, <2>2
  <2>. QED BY <1>3, <2>1, <2>3 DEF Timing!Issue
<1>5. CASE Pop
  <2>1. /\ consumed < tail /\ consumed' = consumed + 1 /\ head' = head
        /\ \/ toPop = 1 /\ sample'.reply = consumed'
           \/ toPop # 1 /\ sample' = sample
    BY <1>5 DEF Pop, LastOfRead
  <2>2. consumed < head
    BY <1>1, <1>2, <2>1
  <2>3. CASE sample' = sample
    BY <1>3, <2>1, <2>2, <2>3 DEF Timing!Answer, Timing!Next
  <2>4. CASE sample'.reply = consumed'
    BY <1>3, <2>1, <2>2, <2>4 DEF Timing!AnswerTimed, Timing!Next
  <2>. QED BY <2>1, <2>3, <2>4
<1>6. CASE UNCHANGED <<head, consumed, sample>>
  BY <1>3, <1>6 DEF Timing!vars
<1>7. ASSUME NEW again, NEW next, GetTxTimestamp(again, next)
      PROVE  UNCHANGED <<head, consumed, sample>>
  BY <1>7 DEF GetTxTimestamp, Resubmission
<1>8. ASSUME NEW b \in 1..head, Transmit(b) \/ Retransmit(b)
      PROVE  UNCHANGED <<head, consumed, sample>>
  BY <1>8 DEF Transmit, Retransmit, ring, thread
<1>9. CASE \/ SendFails \/ Receive \/ ReceiveFails \/ PeerCloses
           \/ ErrorEventDone \/ StampArrives \/ ReplyArrives \/ UNCHANGED vars
  BY <1>6, <1>9 DEF SendFails, Receive, ReceiveReplies, ReceiveFails, PeerCloses,
     ErrorEventDone, StampArrives, ReplyArrives, vars, ring, thread
<1>. QED
  BY <1>4, <1>5, <1>6, <1>7, <1>8, <1>9
     DEF Next, Send, Matching, Errors, AwaitTimestamp, ErrorEvent,
         ErrorEventAgain, Timing!Next

\* The ring as symmetric_nic_tcp_main drives it is a correct way of timing the
\* requests of a connection: it implements RequestTiming.
THEOREM TimesRequestsCorrectly == ASSUME NoWrap PROVE Spec => TimesRequests
<1>1. Init => Timing!Init
  <2>1. SUFFICES ASSUME Init PROVE Timing!Init
    OBVIOUS
  <2>2. head = 0 /\ consumed = 0 /\ sample = [reply |-> 0, packet |-> 0]
    BY <2>1 DEF Init
  <2>3. TimedRequest = 0
    BY <2>2 DEF TimedRequest
  <2>. QED BY <2>2, <2>3 DEF Timing!Init
<1>2. IInv /\ IInv' /\ [Next]_vars => [Timing!Next]_(Timing!vars)
  BY TimingStep
<1>. QED BY <1>1, <1>2, Invariant, PTL DEF Spec, TimesRequests, Timing!Spec
=============================================================================
